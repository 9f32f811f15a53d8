--------------------------- MODULE Parsing_proofs ---------------------------
(***************************************************************************)
(* Whatever the text and the two budgets, the parser never panics, and the *)
(* tree it ends with is the text.                                          *)
(***************************************************************************)
EXTENDS Parsing, FiniteSetTheorems, WellFoundedInduction, TLAPS

\* The texts and the two budgets, as they are assumed.
LEMMA ParserParameters == ParsingAssumption
BY ParsingAssumption

------------------------------------------------------------------------------
\* Among any numbers one is first.
First(T) == CHOOSE i \in T : \A j \in T : i <= j

LEMMA FirstIs ==
    ASSUME NEW T \in SUBSET Nat, T # {}
    PROVE  First(T) \in T /\ \A j \in T : First(T) <= j
<1> DEFINE Lower(x) == {y \in T : y < x}
           F == {Lower(x) : x \in T}
<1>0. \A x \in T : x \in Nat
  OBVIOUS
<1>1. ASSUME NEW x \in T PROVE Lower(x) \in FiniteSubsetsOf(Nat)
  <2>1. Lower(x) \in SUBSET Nat /\ x \in Nat
    BY <1>0
  <2>2. \A y \in Lower(x) : y <= x
    BY <1>0
  <2> HIDE DEF Lower
  <2>3. IsFiniteSet(Lower(x))
    BY <2>1, <2>2, FS_BoundedSetOfNaturals
  <2>4. QED
    BY <2>1, <2>3 DEF FiniteSubsetsOf
<1>2. F \subseteq FiniteSubsetsOf(Nat) /\ F # {}
  BY <1>1
<1>3. PICK X \in F : \A Y \in F : <<Y, X>> \notin StrictSubsetOrdering(Nat)
  BY <1>2, FS_StrictSubsetOrderingWellFounded, WFMin
<1>4. PICK x \in T : X = Lower(x)
  BY <1>3
<1>5. ASSUME NEW y \in T, ~(x <= y) PROVE FALSE
  <2>1. y < x /\ y \in Nat /\ x \in Nat
    BY <1>5
  <2>2. Lower(y) \in SUBSET Nat /\ Lower(x) \in SUBSET Nat
    OBVIOUS
  <2>3. ASSUME NEW z \in Lower(y) PROVE z \in Lower(x)
    BY <1>0, <2>1
  <2>4. y \in Lower(x) /\ y \notin Lower(y)
    BY <2>1
  <2>5. <<Lower(y), Lower(x)>> \in StrictSubsetOrdering(Nat)
    BY <2>2, <2>3, <2>4 DEF StrictSubsetOrdering
  <2>6. Lower(y) \in F
    OBVIOUS
  <2>7. QED
    BY <1>3, <1>4, <2>5, <2>6
<1>6. QED
  BY <1>5 DEF First

\* Numbers have a first.
LEMMA Least ==
    ASSUME NEW T \in SUBSET Nat, T # {}
    PROVE  \E i \in T : \A j \in T : i <= j
BY FirstIs

\* What holds at 0, and at each number when it does at the one before.
LEMMA CountUp ==
    ASSUME NEW n \in Nat, NEW T, 0 \in T, \A k \in 1..n : k - 1 \in T => k \in T
    PROVE  0..n \subseteq T
<1> DEFINE M == (0..n) \ T
<1> SUFFICES ASSUME M # {} PROVE FALSE
  OBVIOUS
<1>1. M \in SUBSET Nat
  OBVIOUS
<1>2. PICK k \in M : \A j \in M : k <= j
  BY <1>1, Least
<1>3. k \in 1..n /\ k - 1 \in 0..n /\ k - 1 \notin M
  BY <1>2
<1>4. QED
  BY <1>2, <1>3

\* A bounded set of numbers has a last.
LEMMA Greatest ==
    ASSUME NEW T \in SUBSET Nat, NEW n \in Nat, \A i \in T : i <= n, T # {}
    PROVE  \E i \in T : \A j \in T : j <= i
<1> DEFINE M == {k \in Nat : \A j \in T : j <= k}
<1>1. M \in SUBSET Nat /\ n \in M
  OBVIOUS
<1>2. PICK k \in M : \A j \in M : k <= j
  BY <1>1, Least
<1>3. ASSUME k \notin T PROVE FALSE
  <2>1. \A j \in T : j \in Nat /\ j < k
    BY <1>2, <1>3
  <2>2. k # 0
    <3>1. PICK j \in T : TRUE
      OBVIOUS
    <3>2. j \in Nat /\ j < k
      BY <2>1
    <3>3. QED
      BY <3>2
  <2>3. k - 1 \in M
    BY <1>2, <2>1, <2>2
  <2>4. QED
    BY <1>2, <2>3
<1>4. QED
  BY <1>2, <1>3

\* The last of the numbers in a set and 0, of a sequence.
LEMMA HighestIs ==
    ASSUME NEW hs \in Seq(Nat), NEW m \in Nat
    PROVE  LET T == {0} \cup {hs[i] : i \in (m + 1)..Len(hs)}
           IN  Max(T) \in Nat /\ \A i \in (m + 1)..Len(hs) : hs[i] <= Max(T)
<1> DEFINE n == Len(hs)
           T == {0} \cup {hs[i] : i \in (m + 1)..n}
           Bounded == {k \in 0..n : \E b \in Nat : \A i \in 1..k : hs[i] <= b}
<1>0. n \in Nat /\ \A i \in 1..n : hs[i] \in Nat
  OBVIOUS
<1>1. 0 \in Bounded
  BY <1>0
<1>2. ASSUME NEW k \in 1..n, k - 1 \in Bounded PROVE k \in Bounded
  <2>1. PICK b \in Nat : \A i \in 1..(k - 1) : hs[i] <= b
    BY <1>2
  <2>2. PICK c \in Nat : b <= c /\ hs[k] <= c
    <3>1. CASE hs[k] <= b
      BY <3>1
    <3>2. CASE ~(hs[k] <= b)
      BY <1>0, <3>2
    <3>3. QED
      BY <3>1, <3>2
  <2>3. \A i \in 1..k : hs[i] <= c
    <3> SUFFICES ASSUME NEW i \in 1..k PROVE hs[i] <= c
      OBVIOUS
    <3>1. CASE i = k
      BY <2>2, <3>1
    <3>2. CASE i # k
      <4>1. i \in 1..(k - 1) /\ hs[i] \in Nat
        BY <1>0, <3>2
      <4>2. QED
        BY <2>1, <2>2, <4>1
    <3>3. QED
      BY <3>1, <3>2
  <2>4. k \in 0..n
    OBVIOUS
  <2>5. \E d \in Nat : \A i \in 1..k : hs[i] <= d
    BY <2>3
  <2>6. QED
    BY <2>4, <2>5
<1>3. n \in Bounded
  <2> HIDE DEF Bounded
  <2>1. 0..n \subseteq Bounded
    BY <1>0, <1>1, <1>2, CountUp
  <2>2. QED
    BY <1>0, <2>1
<1>4. PICK b \in Nat : \A i \in 1..n : hs[i] <= b
  BY <1>3
<1>5. T \in SUBSET Nat /\ T # {} /\ \A x \in T : x <= b
  BY <1>0, <1>4
<1>6. \A i \in (m + 1)..n : hs[i] \in T
  OBVIOUS
<1> HIDE DEF T
<1>7. PICK x \in T : \A y \in T : y <= x
  BY <1>5, Greatest
<1>8. \E z \in T : \A y \in T : z >= y
  BY <1>5, <1>7
<1>9. Max(T) \in T /\ \A y \in T : Max(T) >= y
  BY <1>8 DEF Max
<1>10. QED
  BY <1>5, <1>6, <1>9 DEF T

------------------------------------------------------------------------------
\* Sequences, of whatever elements.
IsSeq(s) == \E T : s \in Seq(T)

\* Length, domain and the empty sequence, of elements of whatever kind.
LEMMA SeqFacts ==
    ASSUME NEW s, IsSeq(s)
    PROVE  Len(s) \in Nat /\ DOMAIN s = 1..Len(s) /\ (s = <<>> <=> Len(s) = 0)
BY DEF IsSeq

\* One sequence is two others in turn.
Joined(s, t, r) ==
    /\ IsSeq(r) /\ Len(r) = Len(s) + Len(t)
    /\ \A i \in 1..Len(s) : r[i] = s[i]
    /\ \A i \in 1..Len(t) : r[Len(s) + i] = t[i]

\* Concatenation, index by index.
LEMMA ConcatFacts ==
    ASSUME NEW s, NEW t, IsSeq(s), IsSeq(t)
    PROVE  Joined(s, t, s \o t)
<1>1. PICK A : s \in Seq(A)
  BY DEF IsSeq
<1>2. PICK B : t \in Seq(B)
  BY DEF IsSeq
<1>3. s \in Seq(A \cup B) /\ t \in Seq(A \cup B)
  BY <1>1, <1>2
<1>4. s \o t \in Seq(A \cup B)
  BY <1>3
<1>5. QED
  BY <1>3, <1>4 DEF IsSeq, Joined

\* One element more, index by index.
LEMMA AppendFacts ==
    ASSUME NEW s, IsSeq(s), NEW e
    PROVE  /\ IsSeq(Append(s, e)) /\ Len(Append(s, e)) = Len(s) + 1
           /\ \A i \in 1..Len(s) : Append(s, e)[i] = s[i]
           /\ Append(s, e)[Len(s) + 1] = e
<1>1. PICK A : s \in Seq(A)
  BY DEF IsSeq
<1>2. s \in Seq(A \cup {e})
  BY <1>1
<1>3. Append(s, e) \in Seq(A \cup {e})
  BY <1>2
<1>4. QED
  BY <1>2, <1>3 DEF IsSeq

\* A part of a sequence, index by index.
LEMMA PartFacts ==
    ASSUME NEW s, IsSeq(s), NEW a \in 1..(Len(s) + 1), NEW b \in 0..Len(s), a <= b + 1
    PROVE  LET t == SubSeq(s, a, b)
           IN  IsSeq(t) /\ Len(t) = b + 1 - a /\ \A i \in 1..(b + 1 - a) : t[i] = s[a + i - 1]
<1>1. PICK A : s \in Seq(A)
  BY DEF IsSeq
<1> DEFINE n == b + 1 - a
           t == SubSeq(s, a, b)
<1>2. n \in Nat /\ Len(s) \in Nat
  BY <1>1
<1>3. t = [i \in 1..(b - a + 1) |-> s[i + a - 1]]
  BY <1>1, <1>2
<1>4. b - a + 1 = n /\ \A i \in 1..n : i + a - 1 = a + i - 1 /\ a + i - 1 \in 1..Len(s)
  BY <1>2
<1> HIDE DEF n, t
<1>5. t = [i \in 1..n |-> s[a + i - 1]]
  BY <1>3, <1>4
<1>6. \A i \in 1..n : s[a + i - 1] \in A
  BY <1>1, <1>4
<1>7. t \in [1..n -> A]
  BY <1>5, <1>6
<1>8. t \in Seq(A) /\ Len(t) = n
  BY <1>2, <1>7
<1>9. QED
  BY <1>5, <1>8 DEF IsSeq, n, t

\* A function on the first n numbers is a sequence of n.
LEMMA TableFacts ==
    ASSUME NEW n \in Nat, NEW t, t = [i \in 1..n |-> t[i]]
    PROVE  IsSeq(t) /\ Len(t) = n
<1> DEFINE A == {t[i] : i \in 1..n}
<1>1. \A i \in 1..n : t[i] \in A
  OBVIOUS
<1>2. t \in [1..n -> A]
  <2> HIDE DEF A
  <2>1. QED
    BY <1>1
<1>3. t \in Seq(A) /\ Len(t) = n
  <2> HIDE DEF A
  <2>1. QED
    BY <1>2
<1>4. QED
  BY <1>3 DEF IsSeq

\* A sequence without its first element, index by index.
LEMMA TailFacts ==
    ASSUME NEW s, IsSeq(s), s # <<>>
    PROVE  /\ IsSeq(Tail(s)) /\ Len(Tail(s)) = Len(s) - 1 /\ Head(s) = s[1]
           /\ \A i \in 1..(Len(s) - 1) : Tail(s)[i] = s[i + 1]
<1>1. PICK A : s \in Seq(A)
  BY DEF IsSeq
<1>2. Tail(s) \in Seq(A) /\ Len(Tail(s)) = Len(s) - 1 /\ Len(s) \in Nat /\ Head(s) = s[1]
  BY <1>1
<1>3. DOMAIN Tail(s) = 1..(Len(s) - 1)
  BY <1>2
<1>4. \A i \in 1..(Len(s) - 1) : Tail(s)[i] = s[i + 1]
  BY <1>1, <1>2, <1>3
<1>5. QED
  BY <1>2, <1>4 DEF IsSeq

------------------------------------------------------------------------------
(***************************************************************************)
(* What is known of a parser.                                              *)
(***************************************************************************)
Attributes == {"tokens", "pos", "built", "heights", "open", "errors", "got", "depth", "deepest", "maxDepth",
           "depthReported", "maxHeight", "heightReported", "todo"}

\* The other fields are as they were.
SameBut(p, q, names) == DOMAIN q = Attributes /\ \A f \in Attributes \ names : q[f] = p[f]

\* Attributes that only report, and those and the depth.
Said  == {"errors", "got", "depthReported", "heightReported"}
Aside == Said \cup {"depth", "deepest"}

\* The kinds of nodes, and the names of steps that leave the open nodes and the
\* depth alone and take no marker.
Kinds ==
    {"SOURCE_FILE", "BLOCK", "ERROR_NODE", "LOCAL_NAME", "NAME_ATTRIB", "ELSEIF_CLAUSE", "ELSE_CLAUSE", "PARAM_LIST",
     "PARAM", "ASSIGN_STMT", "EXPR_LIST", "CALL_STMT", "LOCAL_FUNCTION_STMT", "LOCAL_STMT", "IF_STMT", "WHILE_STMT",
     "DO_STMT", "NUMERIC_FOR_STMT", "GENERIC_FOR_STMT", "REPEAT_STMT", "FUNCTION_DECL_STMT", "FUNCTION_NAME",
     "RETURN_STMT", "BREAK_STMT", "GOTO_STMT", "LABEL_STMT", "PREFIX_EXPR", "BIN_EXPR", "LITERAL_EXPR", "VARARG_EXPR",
     "FUNCTION_EXPR", "NAME_EXPR", "PAREN_EXPR", "FIELD_EXPR", "INDEX_EXPR", "METHOD_CALL_EXPR", "CALL_EXPR",
     "ARG_LIST", "TABLE_KEY_FIELD", "TABLE_NAME_FIELD", "TABLE_ITEM_FIELD", "TABLE_EXPR"}
Words ==
    {"BUMP", "EXPR", "BLOCK", "BODY", "LOCALNAMES", "INIT", "STEP", "EXPRS", "RESULTS", "SEMICOLON", "RECOVER", "PARAMLIST",
     "PARAMS", "NEXTPARAM", "NEXTEXPR", "NEXTLOCAL", "ARGS", "TABLE", "name", ">", "then", "do", "end", ",", "in", "until",
     "::", ")", "]", "="}
Opener == [kind : Kinds, first : Nat]

\* The parts of a parser.
Shape(p) ==
    /\ DOMAIN p = Attributes
    /\ p.tokens \in Seq(STRING \ {Eof}) /\ p.pos \in 1..(Len(p.tokens) + 1)
    /\ IsSeq(p.built) /\ p.heights \in Seq(Nat) /\ Len(p.heights) = Len(p.built)
    /\ p.open \in Seq(Opener) /\ p.open # <<>>
    /\ p.depth \in Nat /\ p.deepest \in Nat /\ p.deepest <= DepthLimit + 1
    /\ p.maxDepth = DepthLimit /\ DepthLimit \in Nat
    /\ IsSeq(p.todo)

\* A marker at which a node may start: what follows it, now or later, is no trivia.
Clean(p, m) == IF m < Len(p.built) THEN p.built[m + 1].kind # Trivia ELSE SkipTriviaFrom(p.tokens, p.pos) = p.pos

\* The open nodes start one inside the other, the root where the text does.
Opened(p) ==
    /\ \A i \in 1..Len(p.open) : p.open[i].first <= Len(p.built)
    /\ \A i, j \in 1..Len(p.open) : i <= j => p.open[i].first <= p.open[j].first
    /\ p.open[1].first = 0
    /\ \A i \in 2..Len(p.open) : Clean(p, p.open[i].first)

\* Trees, each with the tokens it spans, from one up to another, and its
\* height, that account for one another.
IsToken(x, tokens) ==
    /\ x[1].at = x[2] /\ x[1].kids = <<>> /\ x[3] = x[2] + 1
    /\ x[2] \in 1..Len(tokens) /\ x[1].kind = tokens[x[2]]
Tiled(kids, R, cut, height) ==
    /\ IsSeq(kids) /\ cut \in [Nat -> Nat]
    /\ \A i \in 1..Len(kids) : \E h \in 1..height : <<kids[i], cut[i], cut[i + 1], h>> \in R
IsNode(x, R) ==
    /\ x[1].at = 0 /\ x[1].kind # Trivia
    /\ \E cut : Tiled(x[1].kids, R, cut, x[4] - 1) /\ cut[1] = x[2] /\ cut[Len(x[1].kids) + 1] = x[3]
    /\ x[1].kids # <<>> => x[1].kids[1].kind # Trivia
Accounted(R, tokens) ==
    \A x \in R : /\ x[2] \in Nat /\ x[3] \in Nat /\ x[4] \in Nat /\ 1 <= x[2] /\ x[2] <= x[3] /\ 1 <= x[4]
                 /\ IsToken(x, tokens) \/ IsNode(x, R)

\* The same, whatever the kinds of the nodes.
Covers(x, R) ==
    /\ x[1].at = 0
    /\ \E cut : Tiled(x[1].kids, R, cut, x[4] - 1) /\ cut[1] = x[2] /\ cut[Len(x[1].kids) + 1] = x[3]
Covered(R, tokens) ==
    \A x \in R : /\ x[2] \in Nat /\ x[3] \in Nat /\ x[4] \in Nat /\ 1 <= x[2] /\ x[2] <= x[3] /\ 1 <= x[4]
                 /\ IsToken(x, tokens) \/ Covers(x, R)

\* The finished children span the text up to the next token.
Spans(p, R, cut) ==
    /\ Accounted(R, p.tokens)
    /\ cut \in [Nat -> Nat] /\ cut[1] = 1 /\ cut[Len(p.built) + 1] = p.pos
    /\ \A i \in 1..Len(p.built) : <<p.built[i], cut[i], cut[i + 1], p.heights[i]>> \in R
Spelled(p) == \E R, cut : Spans(p, R, cut)

\* The step of a list with so many left, itself included.
Left(steps, k) == steps[Len(steps) + 1 - k]

\* What a step does to the number of open nodes and to the depth.
Special == {"START", "FINISH", "LEAVE", "AFTERFIRST", "CLIMB", "SUFFIXES", "CHAIN", "LINK"}
Falls(s, level, after, depth, later) ==
    /\ s[1] = "START" => after = level + 1
    /\ s[1] = "FINISH" => level = after + 1
    /\ s[1] \notin {"START", "FINISH"} => after = level
    /\ s[1] = "LEAVE" => depth = later + 1
    /\ s[1] # "LEAVE" => later = depth
Typed(s) ==
    /\ s[1] = "START" => s[2] \in Kinds
    /\ s[1] \in {"AFTERFIRST", "CLIMB", "SUFFIXES"} => s[2] \in Nat
    /\ s[1] \in {"CHAIN", "LINK"} =>
         s[2] \in Seq(Nat) /\ s[2] # <<>> /\ \A i, j \in 1..Len(s[2]) : i <= j => s[2][i] <= s[2][j]
    /\ s[1] = "LINK" => s[3] \in Nat /\ \A i \in 1..Len(s[2]) : s[2][i] <= s[3]

\* A node may be wrapped at a marker when so many nodes are open.
Fits(p, level, m) ==
    /\ m \in Nat /\ level \in 1..Len(p.open)
    /\ p.open[level].first <= m /\ m <= Len(p.built)
    /\ level < Len(p.open) => m <= p.open[level + 1].first
    /\ Clean(p, m)

\* The steps left close what is open and give back the depth, with so many
\* nodes open and so deep before each; markers are used in the node they were
\* taken in, the latest first.
Ordered(steps, k, m) == \A j \in 1..(k - 1) : \A o \in MarkersOf(Left(steps, j)) : o <= m
Balanced(p, level, depth, lv, dp) ==
    /\ lv \in [Nat -> Nat] /\ dp \in [Nat -> Nat] /\ lv[0] = 0 /\ dp[0] = 0
    /\ lv[Len(p.todo)] = level /\ dp[Len(p.todo)] = depth
    /\ \A k \in 1..Len(p.todo) :
         /\ 1 <= lv[k] /\ Typed(Left(p.todo, k)) /\ Falls(Left(p.todo, k), lv[k], lv[k - 1], dp[k], dp[k - 1])
         /\ \A m \in MarkersOf(Left(p.todo, k)) :
              Fits(p, lv[k], m) /\ Ordered(p.todo, k, m) /\ \A j \in k..Len(p.todo) : lv[k] <= lv[j]
Pending(p, level, depth) == \E lv, dp : Balanced(p, level, depth, lv, dp)

\* The last four steps.
EndsRight(steps) ==
    /\ 1 <= Len(steps) => Left(steps, 1) = <<"FINISH">>
    /\ 2 <= Len(steps) => Left(steps, 2) = <<"TRIVIA">>
    /\ 3 <= Len(steps) => Left(steps, 3) = <<"FINISH">>
    /\ 4 <= Len(steps) => Left(steps, 4)[1] = "STATEMENTS" /\ Left(steps, 4)[2] = TRUE

Ready(p, level, depth) == Shape(p) /\ Opened(p) /\ Spelled(p) /\ Pending(p, level, depth) /\ EndsRight(p.todo)

Marked(steps) == UNION {MarkersOf(Left(steps, k)) : k \in 1..Len(steps)}

\* In the middle of a step: the nodes to finish and the depth to give back
\* before it ends, and at least so many steps left.
Works(p, u, d, n) ==
    /\ Ready(p, Len(p.open) - u, p.depth - d)
    /\ p.depth - d <= DepthLimit /\ n <= Len(p.todo)

\* A marker to use when all but so many open nodes are finished.
Handy(p, u, m) == Fits(p, Len(p.open) - u, m) /\ \A o \in Marked(p.todo) : o <= m

\* Steps that change the number of open nodes and the depth on their way to
\* what they are before the first, and such without markers.
Course(steps, r, e) ==
    /\ IsSeq(steps) /\ r \in [Nat -> Nat] /\ e \in [Nat -> Nat] /\ r[0] = 0 /\ e[0] = 0
    /\ \A k \in 1..Len(steps) : Typed(Left(steps, k)) /\ Falls(Left(steps, k), r[k], r[k - 1], e[k], e[k - 1])
Runs(steps, a, b) ==
    /\ \E r, e : Course(steps, r, e) /\ r[Len(steps)] = a /\ e[Len(steps)] = b
    /\ \A k \in 1..Len(steps) : MarkersOf(Left(steps, k)) = {}

------------------------------------------------------------------------------
\* A node is not trivia.
LEMMA KindsAreNodes == \A kind \in Kinds : kind # Trivia
BY DEF Kinds, Trivia

\* Where trivia ends.
LEMMA SkipFacts ==
    ASSUME NEW tokens \in Seq(STRING), NEW i \in 1..(Len(tokens) + 1)
    PROVE  LET s == SkipTriviaFrom(tokens, i)
           IN  /\ s \in i..(Len(tokens) + 1)
               /\ s <= Len(tokens) => tokens[s] # Trivia
               /\ s = i <=> (i <= Len(tokens) => tokens[i] # Trivia)
               /\ SkipTriviaFrom(tokens, s) = s
<1> DEFINE n == Len(tokens)
           T(a) == {j \in a..(n + 1) : j = n + 1 \/ tokens[j] # Trivia} \cup {n + 1}
           s == SkipTriviaFrom(tokens, i)
<1>0. n \in Nat
  OBVIOUS
<1>1. ASSUME NEW a \in 1..(n + 1)
      PROVE  /\ SkipTriviaFrom(tokens, a) \in T(a)
             /\ \A j \in T(a) : SkipTriviaFrom(tokens, a) <= j
  <2>1. T(a) \in SUBSET Nat /\ T(a) # {}
    BY <1>0
  <2>2. \A j \in T(a) : j \in Nat
    BY <2>1
  <2>3. PICK x \in T(a) : \A j \in T(a) : x <= j
    <3> HIDE DEF T
    <3>1. QED
      BY <2>1, Least
  <2>4. SkipTriviaFrom(tokens, a) = CHOOSE y \in T(a) : \A j \in T(a) : y <= j
    BY DEF SkipTriviaFrom, Min
  <2> HIDE DEF T
  <2>5. QED
    BY <2>3, <2>4
<1>2. s \in T(i) /\ \A j \in T(i) : s <= j
  BY <1>1
<1>3. s \in i..(n + 1) /\ (s <= n => tokens[s] # Trivia)
  BY <1>0, <1>2
<1>4. (i <= n => tokens[i] # Trivia) => i \in T(i)
  BY <1>0
<1>5. (i <= n => tokens[i] # Trivia) => s = i
  BY <1>0, <1>2, <1>3, <1>4
<1>6. s \in 1..(n + 1) /\ s \in T(s)
  BY <1>0, <1>3
<1>7. SkipTriviaFrom(tokens, s) \in T(s) /\ SkipTriviaFrom(tokens, s) <= s
  BY <1>1, <1>6
<1>8. SkipTriviaFrom(tokens, s) = s
  BY <1>0, <1>3, <1>7
<1>9. QED
  BY <1>3, <1>5, <1>8

\* Nothing of a parser's is read before the end when there is something left.
LEMMA CurrentFacts ==
    ASSUME NEW p, Shape(p)
    PROVE  LET s == SkipTriviaFrom(p.tokens, p.pos)
           IN  /\ s \in p.pos..(Len(p.tokens) + 1)
               /\ At(p, Eof) <=> s = Len(p.tokens) + 1
               /\ s <= Len(p.tokens) => Current(p) = p.tokens[s] /\ p.tokens[s] # Trivia
<1> DEFINE n == Len(p.tokens)
           s == SkipTriviaFrom(p.tokens, p.pos)
<1>1. p.tokens \in Seq(STRING) /\ p.pos \in 1..(n + 1) /\ n \in Nat
  BY DEF Shape
<1>2. s \in p.pos..(n + 1) /\ (s <= n => p.tokens[s] # Trivia)
  BY <1>1, SkipFacts
<1>3. s <= n => p.tokens[s] # Eof
  BY <1>1, <1>2 DEF Shape
<1>4. Current(p) = IF s <= n THEN p.tokens[s] ELSE Eof
  BY DEF Current, NthFrom
<1> HIDE DEF s, n
<1>5. At(p, Eof) <=> s = n + 1
  BY <1>1, <1>2, <1>3, <1>4 DEF At
<1>6. QED
  BY <1>1, <1>2, <1>4, <1>5 DEF s, n

------------------------------------------------------------------------------
(***************************************************************************)
(* The parser's own operations, one at a time.                             *)
(***************************************************************************)
\* What is pending stays so while its markers fit.
LEMMA StillPending ==
    ASSUME NEW p, NEW q, NEW level \in Nat, NEW depth, Pending(p, level, depth), q.todo = p.todo, IsSeq(p.todo),
           \A l \in 1..level, m \in Marked(p.todo) : Fits(p, l, m) => Fits(q, l, m)
    PROVE  Pending(q, level, depth)
<1>1. PICK lv, dp : Balanced(p, level, depth, lv, dp)
  BY DEF Pending
<1>2. Len(p.todo) \in Nat
  BY SeqFacts
<1>3. ASSUME NEW k \in 1..Len(p.todo), NEW m \in MarkersOf(Left(p.todo, k)) PROVE Fits(q, lv[k], m)
  <2>0. /\ Fits(p, lv[k], m) /\ 1 <= lv[k] /\ lv \in [Nat -> Nat] /\ lv[Len(p.todo)] = level
        /\ \A j \in k..Len(p.todo) : lv[k] <= lv[j]
    BY <1>1 DEF Balanced
  <2>4. lv[k] \in Nat /\ lv[k] <= level
    <3>1. k \in Nat /\ Len(p.todo) \in k..Len(p.todo)
      BY <1>2
    <3>2. QED
      BY <2>0, <3>1
  <2>1. Fits(p, lv[k], m) /\ lv[k] \in 1..level
    BY <2>0, <2>4
  <2>2. m \in Marked(p.todo)
    BY DEF Marked
  <2>3. QED
    BY <2>1, <2>2
<1>4. Balanced(q, level, depth, lv, dp)
  BY <1>1, <1>3 DEF Balanced
<1>5. QED
  BY <1>4 DEF Pending

\* A sum of naturals is one.
LEMMA SumIs == ASSUME NEW a \in Nat, NEW b \in Nat PROVE a + b \in Nat
OBVIOUS

\* push_token
LEMMA PushFields ==
    ASSUME NEW p, Shape(p), NEW end \in p.pos..(Len(p.tokens) + 1)
    PROVE  LET q == PushUntil(p, end) d == end - p.pos n == Len(p.built)
           IN  /\ SameBut(p, q, {"pos", "built", "heights"}) /\ q.pos = end /\ d \in Nat /\ n \in Nat
               /\ IsSeq(q.built) /\ Len(q.built) = n + d
               /\ \A i \in 1..n : q.built[i] = p.built[i]
               /\ \A i \in 1..d : q.built[n + i] = [kind |-> p.tokens[p.pos + i - 1], at |-> p.pos + i - 1, kids |-> <<>>]
               /\ q.heights \in Seq(Nat) /\ Len(q.heights) = n + d
               /\ \A i \in 1..n : q.heights[i] = p.heights[i]
               /\ \A i \in 1..d : q.heights[n + i] = 1
<1> DEFINE q == PushUntil(p, end)
           d == end - p.pos
           n == Len(p.built)
           leaves == [i \in 1..d |-> [kind |-> p.tokens[p.pos + i - 1], at |-> p.pos + i - 1, kids |-> <<>>]]
           ones == [i \in 1..d |-> 1]
<1>1. DOMAIN p = Attributes /\ IsSeq(p.built) /\ p.heights \in Seq(Nat) /\ Len(p.heights) = n /\ p.pos \in Nat /\ end \in Nat
  BY DEF Shape
<1>2. d \in Nat /\ n \in Nat
  BY <1>1, SeqFacts
<1>3. q = [p EXCEPT !.pos = end, !.built = p.built \o leaves, !.heights = p.heights \o ones]
  BY DEF PushUntil
<1>4. DOMAIN q = Attributes /\ q.pos = end /\ q.built = p.built \o leaves /\ q.heights = p.heights \o ones
  BY <1>1, <1>3 DEF Attributes
<1>5. SameBut(p, q, {"pos", "built", "heights"})
  BY <1>1, <1>3 DEF Attributes, SameBut
<1>6. ones \in Seq(Nat) /\ Len(ones) = d
  BY <1>2
<1>7. IsSeq(leaves) /\ Len(leaves) = d
  <2> HIDE DEF d
  <2>1. leaves = [i \in 1..d |-> leaves[i]]
    OBVIOUS
  <2> HIDE DEF leaves
  <2>2. QED
    BY <1>2, <2>1, TableFacts
<1>8. \A i \in 1..d : leaves[i] = [kind |-> p.tokens[p.pos + i - 1], at |-> p.pos + i - 1, kids |-> <<>>] /\ ones[i] = 1
  OBVIOUS
<1> HIDE DEF leaves, ones, d, q
<1>9. /\ IsSeq(q.built) /\ Len(q.built) = n + d /\ \A i \in 1..n : q.built[i] = p.built[i]
      /\ \A i \in 1..d : q.built[n + i] = leaves[i]
  <2>1. Joined(p.built, leaves, q.built)
    BY <1>1, <1>4, <1>7, ConcatFacts
  <2>2. QED
    BY <1>7, <2>1 DEF Joined
<1>10. /\ q.heights \in Seq(Nat) /\ Len(q.heights) = n + d /\ \A i \in 1..n : q.heights[i] = p.heights[i]
       /\ \A i \in 1..d : q.heights[n + i] = ones[i]
  <2>1. ones \in Seq(Nat) /\ d \in Nat
    BY <1>2, <1>6
  <2>2. p.heights \o ones \in Seq(Nat)
    BY <1>1, <2>1
  <2>3. IsSeq(ones) /\ IsSeq(p.heights)
    BY <1>1, <1>6 DEF IsSeq
  <2>4. QED
    <3>1. Joined(p.heights, ones, q.heights)
      BY <1>4, <2>3, ConcatFacts
    <3>2. QED
      BY <1>1, <1>4, <1>6, <2>2, <3>1 DEF Joined
<1>11. QED
  BY <1>2, <1>4, <1>5, <1>8, <1>9, <1>10 DEF d, q

\* The tokens pushed lie behind what is built, each a leaf of its own.
LEMMA PushSpelled ==
    ASSUME NEW p, Shape(p), Spelled(p), NEW end \in p.pos..(Len(p.tokens) + 1)
    PROVE  Spelled(PushUntil(p, end))
<1> DEFINE q == PushUntil(p, end)
           d == end - p.pos
           n == Len(p.built)
           N == Len(p.tokens)
           leaf(i) == [kind |-> p.tokens[i], at |-> i, kids |-> <<>>]
<1>1. PICK R, cut : Spans(p, R, cut)
  BY DEF Spelled
<1>2. /\ SameBut(p, q, {"pos", "built", "heights"}) /\ q.pos = end /\ d \in Nat /\ n \in Nat
      /\ Len(q.built) = n + d
      /\ \A i \in 1..n : q.built[i] = p.built[i] /\ q.heights[i] = p.heights[i]
      /\ \A i \in 1..d : q.built[n + i] = leaf(p.pos + i - 1) /\ q.heights[n + i] = 1
  BY PushFields
<1>3. p.pos \in Nat /\ 1 <= p.pos /\ end = p.pos + d /\ N \in Nat /\ end <= N + 1 /\ q.tokens = p.tokens
  <2>1. q.tokens = p.tokens
    BY <1>2 DEF SameBut, Attributes
  <2>2. N \in Nat /\ p.pos \in 1..(N + 1)
    BY DEF Shape
  <2>3. QED
    BY <2>1, <2>2
<1> DEFINE new == {<<leaf(i), i, i + 1, 1>> : i \in p.pos..(end - 1)}
           A == R \cup new
           c == [k \in Nat |-> IF k <= n + 1 THEN cut[k] ELSE p.pos + (k - (n + 1))]
<1>4. Accounted(A, p.tokens)
  <2> SUFFICES ASSUME NEW x \in A
               PROVE  /\ x[2] \in Nat /\ x[3] \in Nat /\ x[4] \in Nat /\ 1 <= x[2] /\ x[2] <= x[3] /\ 1 <= x[4]
                      /\ IsToken(x, p.tokens) \/ IsNode(x, A)
    BY DEF Accounted
  <2>1. CASE x \in R
    <3>1. /\ x[2] \in Nat /\ x[3] \in Nat /\ x[4] \in Nat /\ 1 <= x[2] /\ x[2] <= x[3] /\ 1 <= x[4]
          /\ IsToken(x, p.tokens) \/ IsNode(x, R)
      BY <1>1, <2>1 DEF Accounted, Spans
    <3>2. IsNode(x, R) => IsNode(x, A)
      <4> HIDE DEF new
      <4>1. R \subseteq A
        OBVIOUS
      <4> HIDE DEF A
      <4>2. QED
        BY <4>1 DEF IsNode, Tiled
    <3>3. QED
      BY <3>1, <3>2
  <2>2. CASE x \in new
    <3>1. PICK i \in p.pos..(end - 1) : x = <<leaf(i), i, i + 1, 1>>
      BY <2>2
    <3>2. i \in Nat /\ 1 <= i /\ i <= N
      BY <1>3
    <3>3. x[1].at = i /\ x[1].kids = <<>> /\ x[1].kind = p.tokens[i] /\ x[2] = i /\ x[3] = i + 1 /\ x[4] = 1
      BY <3>1
    <3>4. IsToken(x, p.tokens)
      BY <3>2, <3>3 DEF IsToken
    <3>5. QED
      BY <3>2, <3>3, <3>4
  <2>3. QED
    BY <2>1, <2>2
<1>5. cut \in [Nat -> Nat] /\ cut[1] = 1 /\ cut[n + 1] = p.pos
  BY <1>1 DEF Spans
<1>6. c \in [Nat -> Nat] /\ c[1] = 1 /\ c[n + d + 1] = end
  <2>1. /\ n \in Nat /\ d \in Nat /\ p.pos \in Nat /\ end = p.pos + d /\ cut \in [Nat -> Nat]
        /\ cut[1] = 1 /\ cut[n + 1] = p.pos
    BY <1>2, <1>3, <1>5
  <2> HIDE DEF n, d
  <2>2. \A k \in Nat : ~(k <= n + 1) => p.pos + (k - (n + 1)) \in Nat
    <3> SUFFICES ASSUME NEW k \in Nat, ~(k <= n + 1) PROVE p.pos + (k - (n + 1)) \in Nat
      OBVIOUS
    <3>1. k - (n + 1) \in Nat
      BY <2>1
    <3>2. QED
      BY <2>1, <3>1, SumIs
  <2>3. c \in [Nat -> Nat]
    BY <2>1, <2>2
  <2>4. c[1] = 1
    BY <2>1
  <2>5. n + d + 1 \in Nat /\ c[n + d + 1] = IF n + d + 1 <= n + 1 THEN cut[n + d + 1] ELSE p.pos + (n + d + 1 - (n + 1))
    BY <2>1
  <2>6. c[n + d + 1] = end
    <3> HIDE DEF c
    <3>1. CASE d = 0
      BY <2>1, <2>5, <3>1
    <3>2. CASE d # 0
      <4>1. ~(n + d + 1 <= n + 1) /\ n + d + 1 - (n + 1) = d
        BY <2>1, <3>2
      <4>2. QED
        BY <2>1, <2>5, <4>1
    <3>3. QED
      BY <3>1, <3>2
  <2>7. QED
    BY <2>3, <2>4, <2>6
<1>7. ASSUME NEW i \in 1..(n + d) PROVE <<q.built[i], c[i], c[i + 1], q.heights[i]>> \in A
  <2>1. CASE i <= n
    <3>1. i \in 1..n /\ i \in Nat /\ i + 1 \in Nat /\ i <= n + 1 /\ i + 1 <= n + 1
      BY <1>2, <2>1
    <3>2. c[i] = cut[i] /\ c[i + 1] = cut[i + 1]
      BY <3>1
    <3>3. <<p.built[i], cut[i], cut[i + 1], p.heights[i]>> \in R
      BY <1>1, <3>1 DEF Spans
    <3>4. QED
      BY <1>2, <3>1, <3>2, <3>3
  <2>2. CASE ~(i <= n)
    <3> DEFINE j == i - n
    <3>1. j \in 1..d /\ i = n + j /\ i \in Nat
      BY <1>2, <2>2
    <3>2. c[i] = p.pos + j - 1 /\ c[i + 1] = p.pos + j - 1 + 1
      <4>1. n \in Nat /\ j \in Nat /\ 1 <= j /\ p.pos \in Nat /\ i = n + j /\ i \in Nat /\ cut[n + 1] = p.pos
        BY <1>2, <1>3, <1>5, <3>1
      <4> HIDE DEF n, d, j
      <4>2. c[i] = IF i <= n + 1 THEN cut[i] ELSE p.pos + (i - (n + 1))
        BY <4>1
      <4>3. c[i + 1] = IF i + 1 <= n + 1 THEN cut[i + 1] ELSE p.pos + (i + 1 - (n + 1))
        BY <4>1
      <4> HIDE DEF c
      <4>4. c[i + 1] = p.pos + j - 1 + 1
        BY <4>1, <4>3
      <4>5. c[i] = p.pos + j - 1
        <5>1. CASE j = 1
          BY <4>1, <4>2, <5>1
        <5>2. CASE j # 1
          BY <4>1, <4>2, <5>2
        <5>3. QED
          BY <5>1, <5>2
      <4>6. QED
        BY <4>4, <4>5
    <3>3. p.pos + j - 1 \in p.pos..(end - 1)
      <4>1. d \in Nat /\ j \in Nat /\ 1 <= j /\ j <= d /\ p.pos \in Nat /\ end = p.pos + d
        BY <1>2, <1>3, <3>1
      <4> HIDE DEF d, j
      <4>2. QED
        BY <4>1
    <3>4. q.built[i] = leaf(p.pos + j - 1) /\ q.heights[i] = 1
      BY <1>2, <3>1
    <3>5. <<leaf(p.pos + j - 1), p.pos + j - 1, p.pos + j - 1 + 1, 1>> \in new
      BY <3>3
    <3> HIDE DEF c, new, j
    <3>6. QED
      BY <3>2, <3>4, <3>5
  <2>3. QED
    BY <2>1, <2>2
<1> HIDE DEF A, c
<1>8. Spans(q, A, c)
  BY <1>2, <1>3, <1>4, <1>6, <1>7 DEF Spans
<1>9. QED
  BY <1>8 DEF Spelled

\* What was no trivia is still none.
LEMMA PushClean ==
    ASSUME NEW p, Shape(p), NEW end \in p.pos..(Len(p.tokens) + 1)
    PROVE  \A m \in 0..Len(p.built) : Clean(p, m) => Clean(PushUntil(p, end), m)
<1> DEFINE q == PushUntil(p, end)
           n == Len(p.built)
           d == end - p.pos
<1>1. Shape(p)
  OBVIOUS
<1>2. /\ SameBut(p, q, {"pos", "built", "heights"}) /\ q.pos = end /\ d \in Nat /\ n \in Nat
      /\ IsSeq(q.built) /\ Len(q.built) = n + d /\ q.heights \in Seq(Nat) /\ Len(q.heights) = n + d
      /\ \A i \in 1..n : q.built[i] = p.built[i]
      /\ \A i \in 1..d : q.built[n + i] = [kind |-> p.tokens[p.pos + i - 1], at |-> p.pos + i - 1, kids |-> <<>>]
  BY <1>1, PushFields
<1>3. /\ q.tokens = p.tokens /\ q.open = p.open /\ q.depth = p.depth /\ q.deepest = p.deepest /\ q.maxDepth = p.maxDepth
      /\ q.todo = p.todo /\ DOMAIN q = Attributes
  BY <1>2 DEF SameBut, Attributes
<1>4. p.pos \in Nat /\ 1 <= p.pos /\ end = p.pos + d /\ Len(p.tokens) \in Nat /\ end <= Len(p.tokens) + 1
  <2>1. p.tokens \in Seq(STRING) /\ p.pos \in 1..(Len(p.tokens) + 1)
    BY <1>1 DEF Shape
  <2>2. QED
    BY <2>1
<1> HIDE DEF q, d
<1>6. ASSUME NEW m \in 0..n, Clean(p, m) PROVE Clean(q, m)
  <2>1. CASE m < n
    <3>1. m + 1 \in 1..n /\ m < n + d
      BY <1>2, <2>1
    <3>2. p.built[m + 1].kind # Trivia
      BY <1>6, <2>1 DEF Clean
    <3>3. QED
      BY <1>2, <3>1, <3>2 DEF Clean
  <2>2. CASE m = n /\ d = 0
    <3>1. SkipTriviaFrom(p.tokens, p.pos) = p.pos
      BY <1>2, <1>6, <2>2 DEF Clean
    <3>2. q.pos = p.pos /\ Len(q.built) = n
      BY <1>2, <1>4, <2>2
    <3>3. QED
      BY <1>2, <1>3, <2>2, <3>1, <3>2 DEF Clean
  <2>3. CASE m = n /\ d # 0
    <3>1. SkipTriviaFrom(p.tokens, p.pos) = p.pos
      BY <1>2, <1>6, <2>3 DEF Clean
    <3>2. p.tokens \in Seq(STRING) /\ p.pos \in 1..(Len(p.tokens) + 1)
      BY <1>1 DEF Shape
    <3>8. p.pos <= Len(p.tokens)
      BY <1>2, <1>4, <2>3
    <3>3. p.tokens[p.pos] # Trivia
      BY <3>1, <3>2, <3>8, SkipFacts
    <3>4. 1 \in 1..d /\ p.pos + 1 - 1 = p.pos
      BY <1>2, <1>4, <2>3
    <3>5. q.built[n + 1].kind = p.tokens[p.pos]
      <4>1. q.built[n + 1] = [kind |-> p.tokens[p.pos + 1 - 1], at |-> p.pos + 1 - 1, kids |-> <<>>]
        BY <1>2, <3>4
      <4>2. QED
        BY <3>4, <4>1
    <3>6. m < n + d
      BY <1>2, <2>3
    <3>7. QED
      BY <1>2, <2>3, <3>3, <3>5, <3>6 DEF Clean
  <2>4. QED
    BY <1>2, <1>6, <2>1, <2>2, <2>3
<1>7. QED
  BY <1>6 DEF q

\* push_token, again and again, leaves a parser ready.
LEMMA PushReady ==
    ASSUME NEW p, NEW level \in Nat, NEW depth, Ready(p, level, depth), NEW end \in p.pos..(Len(p.tokens) + 1)
    PROVE  Ready(PushUntil(p, end), level, depth) /\ SameBut(p, PushUntil(p, end), {"pos", "built", "heights"})
<1> DEFINE q == PushUntil(p, end)
           n == Len(p.built)
           d == end - p.pos
<1>1. Shape(p) /\ Opened(p) /\ Spelled(p) /\ Pending(p, level, depth) /\ EndsRight(p.todo)
  BY DEF Ready
<1>2. /\ SameBut(p, q, {"pos", "built", "heights"}) /\ q.pos = end /\ d \in Nat /\ n \in Nat
      /\ IsSeq(q.built) /\ Len(q.built) = n + d /\ q.heights \in Seq(Nat) /\ Len(q.heights) = n + d
      /\ \A i \in 1..n : q.built[i] = p.built[i]
      /\ \A i \in 1..d : q.built[n + i] = [kind |-> p.tokens[p.pos + i - 1], at |-> p.pos + i - 1, kids |-> <<>>]
  BY <1>1, PushFields
<1>3. /\ q.tokens = p.tokens /\ q.open = p.open /\ q.depth = p.depth /\ q.deepest = p.deepest /\ q.maxDepth = p.maxDepth
      /\ q.todo = p.todo /\ DOMAIN q = Attributes
  BY <1>2 DEF SameBut, Attributes
<1>4. p.pos \in Nat /\ 1 <= p.pos /\ end = p.pos + d /\ Len(p.tokens) \in Nat /\ end <= Len(p.tokens) + 1
  <2>1. p.tokens \in Seq(STRING) /\ p.pos \in 1..(Len(p.tokens) + 1)
    BY <1>1 DEF Shape
  <2>2. QED
    BY <2>1
<1> HIDE DEF q, d
<1>5. Shape(q)
  BY <1>1, <1>2, <1>3, <1>4 DEF Shape
<1>6. ASSUME NEW m \in Nat, m <= n, Clean(p, m) PROVE Clean(q, m)
  <2>1. m \in 0..n
    BY <1>2, <1>6
  <2>2. QED
    BY <1>1, <1>6, <2>1, PushClean DEF q
<1>7. \A i \in 1..Len(p.open) : p.open[i].first \in Nat /\ p.open[i].first <= n
  <2>1. p.open \in Seq(Opener)
    BY <1>1 DEF Shape
  <2>2. \A i \in 1..Len(p.open) : p.open[i] \in Opener
    BY <2>1
  <2>3. QED
    BY <1>1, <2>2 DEF Opened, Opener
<1>8. Opened(q)
  <2>1. \A i \in 2..Len(p.open) : i \in 1..Len(p.open)
    OBVIOUS
  <2>2. \A i \in 2..Len(p.open) : Clean(q, p.open[i].first)
    BY <1>1, <1>6, <1>7, <2>1 DEF Opened
  <2>3. \A i \in 1..Len(p.open) : p.open[i].first <= n + d
    BY <1>2, <1>7
  <2>4. QED
    BY <1>1, <1>2, <1>3, <2>2, <2>3 DEF Opened
<1>9. Spelled(q)
  BY <1>1, PushSpelled DEF q
<1>10. \A l \in 1..level, m \in Marked(p.todo) : Fits(p, l, m) => Fits(q, l, m)
  <2> SUFFICES ASSUME NEW l \in 1..level, NEW m, Fits(p, l, m) PROVE Fits(q, l, m)
    OBVIOUS
  <2>1. m \in Nat /\ m <= n /\ Clean(p, m)
    BY DEF Fits
  <2>2. Clean(q, m) /\ m <= n + d
    BY <1>2, <1>6, <2>1
  <2>3. QED
    BY <1>2, <1>3, <2>2 DEF Fits
<1>11. Pending(q, level, depth)
  BY <1>1, <1>3, <1>10, StillPending DEF Shape
<1>12. QED
  BY <1>1, <1>2, <1>3, <1>5, <1>8, <1>9, <1>11 DEF Ready, q

------------------------------------------------------------------------------
\* The counts of a ready parser are numbers, and its root is open.
LEMMA PendingFacts ==
    ASSUME NEW p, NEW level, NEW depth, Ready(p, level, depth)
    PROVE  /\ level \in Nat /\ depth \in Nat /\ Len(p.todo) \in Nat /\ Len(p.open) \in Nat /\ 1 <= Len(p.open)
           /\ 1 <= Len(p.todo) => 1 <= level
           /\ DOMAIN p = Attributes /\ p.depth \in Nat /\ Shape(p)
<1>1. Shape(p) /\ IsSeq(p.todo) /\ p.open \in Seq(Opener) /\ p.open # <<>>
  BY DEF Ready, Shape
<1>2. Len(p.todo) \in Nat
  BY <1>1, SeqFacts
<1>3. Len(p.open) \in Nat /\ 1 <= Len(p.open)
  BY <1>1
<1>4. PICK lv, dp : Balanced(p, level, depth, lv, dp)
  BY DEF Ready, Pending
<1>5. lv \in [Nat -> Nat] /\ dp \in [Nat -> Nat] /\ lv[Len(p.todo)] = level /\ dp[Len(p.todo)] = depth
  BY <1>4 DEF Balanced
<1>6. 1 <= Len(p.todo) => 1 <= lv[Len(p.todo)]
  <2> SUFFICES ASSUME 1 <= Len(p.todo) PROVE 1 <= lv[Len(p.todo)]
    OBVIOUS
  <2>1. Len(p.todo) \in 1..Len(p.todo)
    BY <1>2
  <2>2. QED
    BY <1>4, <2>1 DEF Balanced
<1>7. QED
  BY <1>1, <1>2, <1>3, <1>5, <1>6 DEF Shape

\* What is reported, the last kind and the depth have no part in it.
LEMMA QuietReady ==
    ASSUME NEW p, NEW q, NEW level, NEW depth, Ready(p, level, depth),
           SameBut(p, q, Aside),
           q.depth \in Nat, q.deepest \in Nat, q.deepest <= DepthLimit + 1
    PROVE  Ready(q, level, depth)
<1>1. Shape(p) /\ Opened(p) /\ Spelled(p) /\ Pending(p, level, depth) /\ EndsRight(p.todo)
  BY DEF Ready
<1>2. /\ q.tokens = p.tokens /\ q.pos = p.pos /\ q.built = p.built /\ q.heights = p.heights /\ q.open = p.open
      /\ q.maxDepth = p.maxDepth /\ q.todo = p.todo /\ DOMAIN q = Attributes
  BY DEF SameBut, Attributes, Aside, Said
<1>3. Shape(q)
  BY <1>1, <1>2 DEF Shape
<1>4. \A m : Clean(q, m) <=> Clean(p, m)
  BY <1>2 DEF Clean
<1>5. Opened(q)
  BY <1>1, <1>2, <1>4 DEF Opened
<1>6. Spelled(q)
  BY <1>1, <1>2 DEF Spelled, Spans
<1>7. \A l, m : Fits(p, l, m) => Fits(q, l, m)
  BY <1>2, <1>4 DEF Fits
<1>8. level \in Nat
  BY PendingFacts
<1>9. Pending(q, level, depth)
  BY <1>1, <1>2, <1>7, <1>8, StillPending DEF Shape
<1>10. QED
  BY <1>1, <1>2, <1>3, <1>5, <1>6, <1>7, <1>9 DEF Ready

\* The same of a parser between two operations.
LEMMA QuietWorks ==
    ASSUME NEW p, NEW q, NEW u \in Int, NEW d \in Int, NEW n \in Nat, Works(p, u, d, n),
           SameBut(p, q, Said)
    PROVE  Works(q, u, d, n) /\ \A v, m : Handy(p, v, m) => Handy(q, v, m)
<1>1. Ready(p, Len(p.open) - u, p.depth - d) /\ Shape(p)
  BY DEF Works, Ready
<1>2. q.depth = p.depth /\ q.deepest = p.deepest /\ q.open = p.open /\ q.todo = p.todo
  BY DEF SameBut, Attributes, Said
<1>3. q.depth \in Nat /\ q.deepest \in Nat /\ q.deepest <= DepthLimit + 1
  BY <1>1, <1>2 DEF Shape
<1>4. SameBut(p, q, Aside)
  BY DEF SameBut, Aside
<1>5. Ready(q, Len(p.open) - u, p.depth - d)
  BY <1>1, <1>3, <1>4, QuietReady
<1>7. \A l, m : Fits(p, l, m) => Fits(q, l, m)
  <2>1. q.built = p.built /\ q.tokens = p.tokens /\ q.pos = p.pos
    BY DEF SameBut, Attributes, Said
  <2>2. QED
    BY <1>2, <2>1 DEF Fits, Clean
<1>6. QED
  BY <1>2, <1>5, <1>7 DEF Works, Handy

\* An error, the kind last completed and the height reported have no part in it.
LEMMA SayWorks ==
    ASSUME NEW p, NEW u \in Int, NEW d \in Int, NEW n \in Nat, Works(p, u, d, n), NEW what
    PROVE  /\ Works(Error(p, what), u, d, n) /\ Works(Got(p, what), u, d, n) /\ Works(TooComplex(p), u, d, n)
           /\ \A v, m : Handy(p, v, m) => Handy(Error(p, what), v, m) /\ Handy(TooComplex(p), v, m)
           /\ Error(p, what).todo = p.todo /\ TooComplex(p).todo = p.todo
<1>1. DOMAIN p = Attributes
  BY PendingFacts DEF Works
<1>2. SameBut(p, Error(p, what), Said)
  BY <1>1 DEF SameBut, Attributes, Said, Error
<1>3. SameBut(p, Got(p, what), Said)
  BY <1>1 DEF SameBut, Attributes, Said, Got
<1>4. SameBut(p, TooComplex(p), Said)
  <2>1. CASE p.heightReported
    BY <1>1, <2>1 DEF SameBut, Attributes, Said, TooComplex
  <2>2. CASE ~p.heightReported
    BY <1>1, <2>2 DEF SameBut, Attributes, Said, Error, TooComplex
  <2>3. QED
    BY <2>1, <2>2
<1>5. Error(p, what).todo = p.todo /\ TooComplex(p).todo = p.todo
  BY <1>2, <1>4 DEF SameBut, Attributes, Said
<1>6. QED
  BY <1>2, <1>3, <1>4, <1>5, QuietWorks

\* enter takes the depth and leave gives it back; no marker is disturbed.
LEMMA DepthWorks ==
    ASSUME NEW p, NEW u \in Int, NEW d \in Int, NEW n \in Nat, Works(p, u, d, n)
    PROVE  /\ d = 0 => Works(Enter(p), u, d + 1, n)
           /\ 1 <= d => Works(Leave(p), u, d - 1, n)
           /\ Enter(p).open = p.open /\ Enter(p).depth = p.depth + 1
           /\ \A v, m : Handy(p, v, m) => Handy(Enter(p), v, m)
<1>1. Ready(p, Len(p.open) - u, p.depth - d) /\ Shape(p) /\ p.depth - d \in Nat /\ p.depth \in Nat
  BY PendingFacts DEF Works
<1>2. SameBut(p, Enter(p), Aside) /\ SameBut(p, Leave(p), Aside)
  BY <1>1 DEF SameBut, Attributes, Aside, Said, Enter, Leave, Shape
<1>3. /\ Enter(p).open = p.open /\ Enter(p).todo = p.todo /\ Enter(p).depth = p.depth + 1
      /\ Leave(p).open = p.open /\ Leave(p).todo = p.todo
  BY <1>1, <1>2 DEF SameBut, Attributes, Aside, Said, Enter, Shape
<1>4. Leave(p).depth = p.depth - 1 /\ Leave(p).deepest = p.deepest
  BY <1>1 DEF Attributes, Leave, Shape
<1>5. ASSUME d = 0 PROVE Works(Enter(p), u, d + 1, n)
  <2>1. p.depth <= DepthLimit /\ DepthLimit \in Nat /\ p.deepest \in Nat /\ p.deepest <= DepthLimit + 1
    BY <1>1, <1>5 DEF Works, Shape
  <2>2. Enter(p).deepest = Max({p.deepest, p.depth + 1})
    BY <1>1 DEF Enter, Attributes, Shape
  <2>3. Max({p.deepest, p.depth + 1}) \in {p.deepest, p.depth + 1}
    <3>1. \E x \in {p.deepest, p.depth + 1} : \A y \in {p.deepest, p.depth + 1} : x >= y
      BY <1>1, <2>1
    <3>2. QED
      BY <3>1 DEF Max
  <2>4. Enter(p).deepest \in Nat /\ Enter(p).deepest <= DepthLimit + 1 /\ Enter(p).depth \in Nat
    BY <1>1, <1>3, <2>1, <2>2, <2>3
  <2>5. Ready(Enter(p), Len(p.open) - u, p.depth - d)
    BY <1>1, <1>2, <2>4, QuietReady
  <2>6. Enter(p).depth - (d + 1) = p.depth - d
    BY <1>1, <1>3
  <2>7. QED
    BY <1>3, <2>5, <2>6 DEF Works
<1>6. ASSUME 1 <= d PROVE Works(Leave(p), u, d - 1, n)
  <2>1. p.depth - 1 \in Nat /\ p.depth - 1 - (d - 1) = p.depth - d
    BY <1>1, <1>6
  <2>2. Leave(p).deepest \in Nat /\ Leave(p).deepest <= DepthLimit + 1
    BY <1>1, <1>4 DEF Shape
  <2>3. Ready(Leave(p), Len(p.open) - u, p.depth - d)
    BY <1>1, <1>2, <1>4, <2>1, <2>2, QuietReady
  <2>4. QED
    BY <1>3, <1>4, <2>1, <2>3 DEF Works
<1>7. \A v, m : Handy(p, v, m) => Handy(Enter(p), v, m)
  <2>1. \A l, m : Fits(p, l, m) => Fits(Enter(p), l, m)
    <3>1. Enter(p).built = p.built /\ Enter(p).tokens = p.tokens /\ Enter(p).pos = p.pos
      BY <1>2 DEF SameBut, Attributes, Aside, Said
    <3>2. QED
      BY <1>3, <3>1 DEF Fits, Clean
  <2>2. QED
    BY <1>3, <2>1 DEF Handy
<1>8. QED
  BY <1>3, <1>5, <1>6, <1>7

------------------------------------------------------------------------------
\* push_token, between two operations.
LEMMA PushWorks ==
    ASSUME NEW p, NEW u \in Int, NEW d \in Int, NEW n \in Nat, Works(p, u, d, n), NEW end \in p.pos..(Len(p.tokens) + 1)
    PROVE  /\ Works(PushUntil(p, end), u, d, n) /\ PushUntil(p, end).todo = p.todo /\ PushUntil(p, end).pos = end
           /\ PushUntil(p, end).tokens = p.tokens /\ PushUntil(p, end).open = p.open /\ PushUntil(p, end).depth = p.depth
           /\ \A v, m : Handy(p, v, m) => Handy(PushUntil(p, end), v, m)
<1> DEFINE q == PushUntil(p, end)
<1>1. Ready(p, Len(p.open) - u, p.depth - d) /\ Shape(p) /\ Len(p.open) - u \in Nat
  BY PendingFacts DEF Works
<1>2. Ready(q, Len(p.open) - u, p.depth - d) /\ SameBut(p, q, {"pos", "built", "heights"})
  BY <1>1, PushReady
<1>3. q.pos = end /\ Len(q.built) = Len(p.built) + (end - p.pos) /\ end - p.pos \in Nat /\ Len(p.built) \in Nat
  BY <1>1, PushFields
<1>4. \A m \in 0..Len(p.built) : Clean(p, m) => Clean(q, m)
  BY <1>1, PushClean
<1> HIDE DEF q
<1>5. q.open = p.open /\ q.todo = p.todo /\ q.depth = p.depth /\ q.tokens = p.tokens
  BY <1>2 DEF SameBut, Attributes
<1>6. ASSUME NEW v, NEW m, Handy(p, v, m) PROVE Handy(q, v, m)
  <2>1. Fits(p, Len(p.open) - v, m) /\ m \in Nat /\ m <= Len(p.built) /\ Clean(p, m)
    BY <1>6 DEF Handy, Fits
  <2>2. m \in 0..Len(p.built) /\ m <= Len(q.built)
    BY <1>3, <2>1
  <2>3. Clean(q, m)
    BY <1>4, <2>1, <2>2
  <2>4. Fits(q, Len(p.open) - v, m)
    BY <1>5, <2>1, <2>2, <2>3 DEF Fits
  <2>5. QED
    BY <1>5, <1>6, <2>4 DEF Handy
<1>7. Works(q, u, d, n)
  BY <1>2, <1>5 DEF Works
<1>8. QED
  BY <1>3, <1>5, <1>6, <1>7 DEF q

\* Where trivia ends lies between here and the end of the text.
LEMMA SkipWorks ==
    ASSUME NEW p, NEW u, NEW d, NEW n, Works(p, u, d, n)
    PROVE  LET s == SkipTriviaFrom(p.tokens, p.pos)
           IN  /\ s \in p.pos..(Len(p.tokens) + 1) /\ SkipTriviaFrom(p.tokens, s) = s
               /\ Min({s + 1, Len(p.tokens) + 1}) \in p.pos..(Len(p.tokens) + 1)
<1> DEFINE s == SkipTriviaFrom(p.tokens, p.pos)
           T == {s + 1, Len(p.tokens) + 1}
<1>1. p.tokens \in Seq(STRING) /\ p.pos \in 1..(Len(p.tokens) + 1) /\ Len(p.tokens) \in Nat
  BY PendingFacts DEF Works, Shape
<1>2. s \in p.pos..(Len(p.tokens) + 1) /\ SkipTriviaFrom(p.tokens, s) = s
  BY <1>1, SkipFacts
<1>3. Min(T) \in T
  <2>1. \E x \in T : \A y \in T : x <= y
    BY <1>1, <1>2
  <2>2. QED
    BY <2>1 DEF Min
<1> HIDE DEF s
<1>4. Min(T) = s + 1 \/ Min(T) = Len(p.tokens) + 1
  BY <1>3
<1>5. Min(T) \in p.pos..(Len(p.tokens) + 1)
  <2>1. CASE s = Len(p.tokens) + 1 \/ Min(T) = Len(p.tokens) + 1
    <3>1. \E x \in T : \A y \in T : x <= y
      BY <1>1, <1>2
    <3>2. Min(T) <= Len(p.tokens) + 1
      BY <3>1 DEF Min
    <3>3. QED
      BY <1>1, <1>2, <1>4, <2>1, <3>2
  <2>2. CASE s # Len(p.tokens) + 1 /\ Min(T) = s + 1
    BY <1>1, <1>2, <2>2
  <2>3. QED
    BY <1>4, <2>1, <2>2
<1>6. QED
  BY <1>2, <1>5 DEF s

\* Where trivia has been flushed a node may start.
LEMMA FreshHandy ==
    ASSUME NEW p, NEW u, NEW d, NEW n \in Nat, Works(p, u, d, n), Clean(p, Len(p.built))
    PROVE  Handy(p, 0, Len(p.built))
<1>1. Ready(p, Len(p.open) - u, p.depth - d) /\ Shape(p) /\ Len(p.open) \in Nat /\ 1 <= Len(p.open)
  BY PendingFacts DEF Works
<1>2. Len(p.built) \in Nat /\ IsSeq(p.todo)
  BY <1>1, SeqFacts DEF Shape
<1>3. Len(p.open) - 0 = Len(p.open) /\ Len(p.open) \in 1..Len(p.open)
  BY <1>1
<1>4. Fits(p, Len(p.open), Len(p.built))
  <2>1. p.open[Len(p.open)].first <= Len(p.built)
    BY <1>1, <1>3 DEF Ready, Opened
  <2>2. QED
    BY <1>1, <1>2, <1>3, <2>1 DEF Fits
<1>5. ASSUME NEW o \in Marked(p.todo) PROVE o <= Len(p.built)
  <2>1. PICK k \in 1..Len(p.todo) : o \in MarkersOf(Left(p.todo, k))
    BY DEF Marked
  <2>2. PICK lv, dp : Balanced(p, Len(p.open) - u, p.depth - d, lv, dp)
    BY <1>1 DEF Ready, Pending
  <2>3. Fits(p, lv[k], o)
    BY <2>1, <2>2 DEF Balanced
  <2>4. QED
    BY <2>3 DEF Fits
<1>6. QED
  BY <1>3, <1>4, <1>5 DEF Handy

\* bump and flush_trivia; what is flushed may be wrapped at its end.
LEMMA BumpWorks ==
    ASSUME NEW p, NEW u \in Int, NEW d \in Int, NEW n \in Nat, Works(p, u, d, n)
    PROVE  /\ Works(Bump(p), u, d, n) /\ Works(FlushTrivia(p), u, d, n)
           /\ \A v, m : Handy(p, v, m) => Handy(Bump(p), v, m) /\ Handy(FlushTrivia(p), v, m)
           /\ Handy(FlushTrivia(p), 0, Len(FlushTrivia(p).built))
           /\ Bump(p).todo = p.todo /\ FlushTrivia(p).todo = p.todo
           /\ Bump(p).open = p.open /\ FlushTrivia(p).open = p.open
           /\ FlushTrivia(p).pos = SkipTriviaFrom(p.tokens, p.pos) /\ FlushTrivia(p).tokens = p.tokens
<1> DEFINE s == SkipTriviaFrom(p.tokens, p.pos)
           e == Min({s + 1, Len(p.tokens) + 1})
<1>1. s \in p.pos..(Len(p.tokens) + 1) /\ e \in p.pos..(Len(p.tokens) + 1) /\ SkipTriviaFrom(p.tokens, s) = s
  BY SkipWorks
<1>2. Bump(p) = PushUntil(p, e) /\ FlushTrivia(p) = PushUntil(p, s)
  BY DEF Bump, FlushTrivia
<1> HIDE DEF s, e
<1>3. /\ Works(Bump(p), u, d, n) /\ Bump(p).todo = p.todo /\ Bump(p).open = p.open
      /\ \A v, m : Handy(p, v, m) => Handy(Bump(p), v, m)
  BY <1>1, <1>2, PushWorks
<1>4. /\ Works(FlushTrivia(p), u, d, n) /\ FlushTrivia(p).todo = p.todo /\ FlushTrivia(p).open = p.open
      /\ FlushTrivia(p).pos = s /\ FlushTrivia(p).tokens = p.tokens
      /\ \A v, m : Handy(p, v, m) => Handy(FlushTrivia(p), v, m)
  BY <1>1, <1>2, PushWorks
<1>5. Clean(FlushTrivia(p), Len(FlushTrivia(p).built))
  <2>1. Len(FlushTrivia(p).built) \in Nat
    BY <1>4, PendingFacts, SeqFacts DEF Works, Shape
  <2>2. QED
    BY <1>1, <1>4, <2>1 DEF Clean
<1>6. Handy(FlushTrivia(p), 0, Len(FlushTrivia(p).built))
  BY <1>4, <1>5, FreshHandy
<1>7. QED
  BY <1>3, <1>4, <1>6 DEF s

\* start_node_at
LEMMA StartAtWorks ==
    ASSUME NEW p, NEW u \in Int, NEW d \in Int, NEW n \in Nat, Works(p, u, d, n),
           NEW m, Handy(p, 0, m), NEW kind \in Kinds
    PROVE  LET q == StartNodeAt(p, m, kind)
           IN  Works(q, u + 1, d, n) /\ Handy(q, 0, m) /\ Handy(q, 1, m) /\ q.todo = p.todo
<1> DEFINE q == StartNodeAt(p, m, kind)
           k == Len(p.open)
<1>1. Ready(p, k - u, p.depth - d) /\ Shape(p) /\ k \in Nat /\ 1 <= k /\ k - u \in Nat
  BY PendingFacts DEF Works
<1>2. Shape(p) /\ Opened(p) /\ Spelled(p) /\ Pending(p, k - u, p.depth - d) /\ EndsRight(p.todo)
  BY <1>1 DEF Ready
<1>3. SameBut(p, q, {"open"}) /\ q.open = Append(p.open, [kind |-> kind, first |-> m])
  BY <1>1 DEF SameBut, Attributes, StartNodeAt, Shape
<1>4. /\ q.tokens = p.tokens /\ q.pos = p.pos /\ q.built = p.built /\ q.heights = p.heights /\ q.depth = p.depth
      /\ q.deepest = p.deepest /\ q.maxDepth = p.maxDepth /\ q.todo = p.todo /\ DOMAIN q = Attributes
  BY <1>3 DEF SameBut, Attributes
<1> HIDE DEF q
<1>5. Fits(p, k, m) /\ (\A o \in Marked(p.todo) : o <= m)
  <2>1. k - 0 = k
    BY <1>1
  <2>2. QED
    BY <2>1 DEF Handy
<1>6. m \in Nat /\ p.open[k].first <= m /\ m <= Len(p.built) /\ Clean(p, m)
  BY <1>5 DEF Fits
<1>7. [kind |-> kind, first |-> m] \in Opener
  BY <1>6 DEF Opener
<1>8. /\ q.open \in Seq(Opener) /\ Len(q.open) = k + 1 /\ q.open # <<>>
      /\ \A i \in 1..k : q.open[i] = p.open[i]
      /\ q.open[k + 1].first = m
  <2>1. p.open \in Seq(Opener)
    BY <1>1 DEF Shape
  <2>2. /\ Append(p.open, [kind |-> kind, first |-> m]) \in Seq(Opener)
        /\ Len(Append(p.open, [kind |-> kind, first |-> m])) = k + 1
        /\ \A i \in 1..k : Append(p.open, [kind |-> kind, first |-> m])[i] = p.open[i]
        /\ Append(p.open, [kind |-> kind, first |-> m])[k + 1] = [kind |-> kind, first |-> m]
    BY <1>7, <2>1
  <2>3. QED
    BY <1>1, <1>3, <2>2
<1>9. \A o : Clean(q, o) <=> Clean(p, o)
  BY <1>4 DEF Clean
<1>10. Shape(q)
  BY <1>2, <1>4, <1>8 DEF Shape
<1>11. Opened(q)
  <2>1. \A i \in 1..(k + 1) : q.open[i].first <= Len(q.built)
    <3> SUFFICES ASSUME NEW i \in 1..(k + 1) PROVE q.open[i].first <= Len(q.built)
      OBVIOUS
    <3>1. CASE i \in 1..k
      BY <1>2, <1>4, <1>8, <3>1 DEF Opened
    <3>2. CASE i = k + 1
      BY <1>4, <1>6, <1>8, <3>2
    <3>3. QED
      BY <1>1, <3>1, <3>2
  <2>2. \A i \in 1..k : p.open[i].first \in Nat
    <3>1. p.open \in Seq(Opener)
      BY <1>1 DEF Shape
    <3>2. \A i \in 1..k : p.open[i] \in Opener
      BY <3>1
    <3>3. QED
      BY <3>2 DEF Opener
  <2>3. \A i \in 1..k : p.open[i].first <= m
    <3> SUFFICES ASSUME NEW i \in 1..k PROVE p.open[i].first <= m
      OBVIOUS
    <3>1. k \in 1..k /\ i <= k
      BY <1>1
    <3>2. p.open[i].first <= p.open[k].first
      BY <1>2, <3>1 DEF Opened
    <3>3. p.open[i].first \in Nat /\ p.open[k].first \in Nat
      BY <2>2, <3>1
    <3>4. QED
      BY <1>6, <3>2, <3>3
  <2>4. \A i, j \in 1..(k + 1) : i <= j => q.open[i].first <= q.open[j].first
    <3> SUFFICES ASSUME NEW i \in 1..(k + 1), NEW j \in 1..(k + 1), i <= j PROVE q.open[i].first <= q.open[j].first
      OBVIOUS
    <3>1. CASE j \in 1..k
      <4>1. i \in 1..k
        BY <1>1, <3>1
      <4>2. QED
        BY <1>2, <1>8, <3>1, <4>1 DEF Opened
    <3>2. CASE j = k + 1 /\ i \in 1..k
      BY <1>8, <2>3, <3>2
    <3>3. CASE j = k + 1 /\ i = k + 1
      BY <1>6, <1>8, <3>3
    <3>4. QED
      BY <1>1, <3>1, <3>2, <3>3
  <2>5. q.open[1].first = 0
    BY <1>1, <1>2, <1>8 DEF Opened
  <2>6. \A i \in 2..(k + 1) : Clean(q, q.open[i].first)
    <3> SUFFICES ASSUME NEW i \in 2..(k + 1) PROVE Clean(q, q.open[i].first)
      OBVIOUS
    <3>1. CASE i \in 2..k
      <4>1. i \in 1..k
        BY <3>1
      <4>2. QED
        BY <1>2, <1>8, <1>9, <3>1, <4>1 DEF Opened
    <3>2. CASE i = k + 1
      BY <1>6, <1>8, <1>9, <3>2
    <3>3. QED
      BY <1>1, <3>1, <3>2
  <2>7. QED
    BY <1>8, <2>1, <2>4, <2>5, <2>6 DEF Opened
<1>12. Spelled(q)
  BY <1>2, <1>4 DEF Spelled, Spans
<1>13. ASSUME NEW l, NEW o, o <= m, Fits(p, l, o) PROVE Fits(q, l, o)
  <2>1. l \in 1..k /\ o \in Nat /\ p.open[l].first <= o /\ o <= Len(p.built) /\ Clean(p, o)
    BY <1>13 DEF Fits
  <2>2. l < k + 1 => o <= q.open[l + 1].first
    <3>1. CASE l < k
      <4>1. l + 1 \in 1..k
        BY <1>1, <2>1, <3>1
      <4>2. o <= p.open[l + 1].first
        BY <1>13, <3>1 DEF Fits
      <4>3. QED
        BY <1>8, <4>1, <4>2
    <3>2. CASE l = k
      BY <1>8, <1>13, <3>2
    <3>3. QED
      BY <1>1, <2>1, <3>1, <3>2
  <2>3. l \in 1..(k + 1) /\ q.open[l].first <= o
    <3>1. l \in 1..(k + 1)
      <4> HIDE DEF k
      <4>1. QED
        BY <1>1, <2>1
    <3>2. QED
      BY <1>8, <2>1, <3>1
  <2>4. QED
    BY <1>4, <1>8, <1>9, <2>1, <2>2, <2>3 DEF Fits
<1>14. Pending(q, k - u, p.depth - d)
  BY <1>1, <1>2, <1>4, <1>5, <1>13, StillPending DEF Shape
<1>15. Ready(q, k - u, p.depth - d)
  BY <1>2, <1>4, <1>10, <1>11, <1>12, <1>14 DEF Ready
<1>16. Works(q, u + 1, d, n)
  <2>1. k + 1 - (u + 1) = k - u
    <3>1. k \in Int
      BY <1>1
    <3> HIDE DEF k
    <3>2. QED
      BY <3>1
  <2>2. QED
    BY <1>4, <1>8, <1>15, <2>1 DEF Works
<1>17. Fits(q, k, m) /\ Fits(q, k + 1, m)
  <2>1. Fits(q, k, m)
    BY <1>5, <1>6, <1>13
  <2>2. k + 1 \in 1..(k + 1) /\ ~(k + 1 < k + 1)
    BY <1>1
  <2>3. m <= m
    BY <1>6
  <2>4. QED
    BY <1>4, <1>6, <1>8, <1>9, <2>1, <2>2, <2>3 DEF Fits
<1>18. Handy(q, 0, m) /\ Handy(q, 1, m)
  <2>1. Len(q.open) - 0 = k + 1 /\ Len(q.open) - 1 = k
    BY <1>1, <1>8
  <2>2. QED
    BY <1>4, <1>5, <1>17, <2>1 DEF Handy
<1>19. QED
  BY <1>4, <1>16, <1>18 DEF q

------------------------------------------------------------------------------
\* finish_node
LEMMA FinishFields ==
    ASSUME NEW p, Shape(p), Opened(p)
    PROVE  LET q == FinishNode(p) k == Len(p.open) f == p.open[k].first b == Len(p.built)
               h == SubtreeHeight(p, f) node == q.built[f + 1]
           IN  /\ SameBut(p, q, {"open", "built", "heights"})
               /\ q.open \in Seq(Opener) /\ Len(q.open) = k - 1 /\ \A i \in 1..(k - 1) : q.open[i] = p.open[i]
               /\ k \in Nat /\ 1 <= k /\ f \in Nat /\ b \in Nat /\ f <= b
               /\ IsSeq(q.built) /\ Len(q.built) = f + 1 /\ \A i \in 1..f : q.built[i] = p.built[i]
               /\ node.kind = p.open[k].kind /\ node.kind \in Kinds /\ node.at = 0
               /\ q.heights \in Seq(Nat) /\ Len(q.heights) = f + 1 /\ \A i \in 1..f : q.heights[i] = p.heights[i]
               /\ q.heights[f + 1] = h + 1 /\ h \in Nat /\ \A i \in (f + 1)..b : p.heights[i] <= h
               /\ IsSeq(node.kids) /\ Len(node.kids) = b - f /\ \A i \in 1..(b - f) : node.kids[i] = p.built[f + i]
<1> DEFINE q == FinishNode(p)
           k == Len(p.open)
           f == p.open[k].first
           b == Len(p.built)
           h == SubtreeHeight(p, f)
           kids == SubSeq(p.built, f + 1, b)
           new == [kind |-> p.open[k].kind, at |-> 0, kids |-> kids]
           fields == {"open", "built", "heights"}
<1>1. /\ DOMAIN p = Attributes /\ p.open \in Seq(Opener) /\ p.open # <<>> /\ IsSeq(p.built) /\ p.heights \in Seq(Nat)
      /\ Len(p.heights) = b
  BY DEF Shape
<1>2. k \in Nat /\ 1 <= k /\ \A i \in 1..k : p.open[i] \in Opener
  BY <1>1
<1>3. p.open[k] \in Opener /\ k \in 1..k
  BY <1>2
<1>4. f \in Nat /\ p.open[k].kind \in Kinds
  BY <1>3 DEF Opener
<1>5. b \in Nat /\ f <= b
  BY <1>1, <1>3, SeqFacts DEF Opened
<1>6. q = [p EXCEPT !.open = SubSeq(p.open, 1, k - 1), !.built = Append(SubSeq(p.built, 1, f), new),
                    !.heights = Append(SubSeq(p.heights, 1, f), h + 1)]
  BY DEF FinishNode, FinishAs, Last, Front
<1> HIDE DEF new, h
<1>7. /\ q.open = SubSeq(p.open, 1, k - 1) /\ q.built = Append(SubSeq(p.built, 1, f), new)
      /\ q.heights = Append(SubSeq(p.heights, 1, f), h + 1)
  BY <1>1, <1>6 DEF Attributes
<1>8. SameBut(p, q, fields)
  <2> HIDE DEF q, f, k
  <2>1. DOMAIN q = Attributes
    BY <1>1, <1>6
  <2>2. \A x \in Attributes \ {"open", "built", "heights"} : q[x] = p[x]
    BY <1>1, <1>6
  <2>3. QED
    BY <2>1, <2>2 DEF SameBut
<1>9. h \in Nat /\ \A i \in (f + 1)..b : p.heights[i] <= h
  BY <1>1, <1>4, HighestIs DEF h, SubtreeHeight
<1>10. q.open \in Seq(Opener) /\ Len(q.open) = k - 1 /\ \A i \in 1..(k - 1) : q.open[i] = p.open[i]
  <2>1. 1 \in 1..(k + 1) /\ k - 1 \in 0..k /\ 1 <= k - 1 + 1 /\ k - 1 + 1 - 1 = k - 1
    BY <1>2
  <2>2. q.open \in Seq(Opener)
    BY <1>1, <1>2, <1>7
  <2>3. IsSeq(p.open)
    BY <1>1 DEF IsSeq
  <2>4. Len(q.open) = k - 1 + 1 - 1 /\ \A i \in 1..(k - 1 + 1 - 1) : q.open[i] = p.open[1 + i - 1]
    <3> HIDE DEF q
    <3>1. QED
      BY <1>7, <2>1, <2>3, PartFacts
  <2>5. \A i \in 1..(k - 1) : 1 + i - 1 = i
    BY <1>2
  <2>6. QED
    BY <2>1, <2>2, <2>4, <2>5
<1>11. IsSeq(q.built) /\ Len(q.built) = f + 1 /\ (\A i \in 1..f : q.built[i] = p.built[i]) /\ q.built[f + 1] = new
  <2> DEFINE s == SubSeq(p.built, 1, f)
  <2>1. IsSeq(s) /\ Len(s) = f /\ \A i \in 1..f : s[i] = p.built[i]
    <3>1. 1 \in 1..(b + 1) /\ f \in 0..b /\ 1 <= f + 1 /\ f + 1 - 1 = f
      BY <1>4, <1>5
    <3>2. IsSeq(s) /\ Len(s) = f + 1 - 1 /\ \A i \in 1..(f + 1 - 1) : s[i] = p.built[1 + i - 1]
      BY <1>1, <3>1, PartFacts
    <3>3. \A i \in 1..f : 1 + i - 1 = i
      BY <1>4
    <3>4. QED
      BY <3>1, <3>2, <3>3
  <2> HIDE DEF s, q
  <2>2. q.built = Append(s, new)
    BY <1>7 DEF s
  <2>3. /\ IsSeq(q.built) /\ Len(q.built) = Len(s) + 1 /\ (\A i \in 1..Len(s) : q.built[i] = s[i])
        /\ q.built[Len(s) + 1] = new
    BY <2>1, <2>2, AppendFacts
  <2>4. QED
    BY <2>1, <2>3
<1>12. /\ q.heights \in Seq(Nat) /\ Len(q.heights) = f + 1 /\ (\A i \in 1..f : q.heights[i] = p.heights[i])
       /\ q.heights[f + 1] = h + 1
  <2> DEFINE s == SubSeq(p.heights, 1, f)
  <2>1. s \in Seq(Nat) /\ Len(s) = f /\ \A i \in 1..f : s[i] = p.heights[i]
    <3> HIDE DEF f
    <3>1. 1 \in 1..(b + 1) /\ f \in 0..b /\ 1 <= f + 1 /\ f + 1 - 1 = f
      BY <1>4, <1>5
    <3>2. IsSeq(p.heights)
      BY <1>1 DEF IsSeq
    <3>3. Len(s) = f + 1 - 1 /\ \A i \in 1..(f + 1 - 1) : s[i] = p.heights[1 + i - 1]
      BY <1>1, <3>1, <3>2, PartFacts
    <3>4. \A i \in 1..f : 1 + i - 1 = i
      BY <1>4
    <3>5. s \in Seq(Nat)
      BY <1>1, <1>4, <1>5
    <3>6. QED
      BY <3>1, <3>3, <3>4, <3>5
  <2> HIDE DEF s, q
  <2>2. q.heights = Append(s, h + 1) /\ h + 1 \in Nat
    BY <1>7, <1>9 DEF s
  <2>3. IsSeq(s)
    BY <2>1 DEF IsSeq
  <2>4. /\ Len(q.heights) = Len(s) + 1 /\ (\A i \in 1..Len(s) : q.heights[i] = s[i])
        /\ q.heights[Len(s) + 1] = h + 1
    BY <2>2, <2>3, AppendFacts
  <2>5. q.heights \in Seq(Nat)
    BY <2>1, <2>2
  <2>6. QED
    BY <2>1, <2>4, <2>5
<1>13. new.kind = p.open[k].kind /\ new.at = 0 /\ new.kids = kids
  BY DEF new
<1>14. IsSeq(kids) /\ Len(kids) = b - f /\ \A i \in 1..(b - f) : kids[i] = p.built[f + i]
  <2> HIDE DEF f
  <2>1. f + 1 \in 1..(b + 1) /\ b \in 0..b /\ f + 1 <= b + 1 /\ b + 1 - (f + 1) = b - f
    <3> HIDE DEF b
    <3>1. QED
      BY <1>4, <1>5
  <2>2. IsSeq(kids) /\ Len(kids) = b + 1 - (f + 1) /\ \A i \in 1..(b + 1 - (f + 1)) : kids[i] = p.built[f + 1 + i - 1]
    BY <1>1, <2>1, PartFacts
  <2>3. \A i \in 1..(b - f) : f + 1 + i - 1 = f + i
    BY <1>4, <1>5
  <2>4. QED
    BY <2>1, <2>2, <2>3
<1> HIDE DEF q, kids
<1>15. QED
  BY <1>2, <1>4, <1>5, <1>8, <1>9, <1>10, <1>11, <1>12, <1>13, <1>14 DEF q, h

\* What is accounted for is covered.
LEMMA AccountedCovers ==
    ASSUME NEW R, NEW tokens, Accounted(R, tokens)
    PROVE  Covered(R, tokens)
BY DEF Accounted, Covered, IsNode, Covers

\* Children lie one after the other.
LEMMA TiledRises ==
    ASSUME NEW R, NEW tokens, Covered(R, tokens), NEW kids, NEW cut, NEW height, Tiled(kids, R, cut, height)
    PROVE  \A i, j \in 1..(Len(kids) + 1) : i <= j => cut[i] <= cut[j]
<1>1. Len(kids) \in Nat /\ cut \in [Nat -> Nat]
  BY SeqFacts DEF Tiled
<1>2. \A i \in 1..Len(kids) : cut[i] <= cut[i + 1]
  <2> SUFFICES ASSUME NEW i \in 1..Len(kids) PROVE cut[i] <= cut[i + 1]
    OBVIOUS
  <2>1. PICK h : <<kids[i], cut[i], cut[i + 1], h>> \in R
    BY DEF Tiled
  <2>2. QED
    BY <2>1 DEF Covered
<1> SUFFICES ASSUME NEW i \in 1..(Len(kids) + 1), NEW j \in 1..(Len(kids) + 1), i <= j PROVE cut[i] <= cut[j]
  OBVIOUS
<1> DEFINE T == {n \in Nat : n <= j - i => cut[i] <= cut[i + n]}
<1>3. j - i \in Nat /\ i \in Nat /\ j \in Nat /\ j <= Len(kids) + 1
  BY <1>1
<1>4. 0 \in T
  <2>1. i + 0 = i /\ cut[i] \in Nat
    BY <1>1, <1>3
  <2>2. QED
    BY <2>1
<1>5. ASSUME NEW n \in 1..(j - i), n - 1 \in T PROVE n \in T
  <2>1. n \in Nat /\ n - 1 \in Nat /\ i + n - 1 \in 1..Len(kids) /\ i + (n - 1) = i + n - 1 /\ i + n - 1 + 1 = i + n
    BY <1>3
  <2>2. cut[i] <= cut[i + n - 1]
    BY <1>3, <1>5, <2>1
  <2>3. cut[i + n - 1] <= cut[i + n]
    BY <1>2, <2>1
  <2>4. cut[i] \in Nat /\ cut[i + n - 1] \in Nat /\ cut[i + n] \in Nat
    <3>1. i + n - 1 \in Nat /\ i + n \in Nat
      BY <1>3, <2>1
    <3>2. QED
      BY <1>1, <1>3, <3>1
  <2>5. QED
    BY <2>1, <2>2, <2>3, <2>4
<1>6. j - i \in T
  <2> HIDE DEF T
  <2>1. 0..(j - i) \subseteq T
    BY <1>3, <1>4, <1>5, CountUp
  <2>2. QED
    BY <1>3, <2>1
<1>7. i + (j - i) = j
  BY <1>3
<1>8. QED
  BY <1>3, <1>6, <1>7

\* The children of the node that is finished span what is behind its marker.
LEMMA FinishTiled ==
    ASSUME NEW p, Shape(p), Opened(p), NEW R, NEW cut, Spans(p, R, cut)
    PROVE  LET f == p.open[Len(p.open)].first
               c == [i \in Nat |-> cut[f + i]]
               kids == FinishNode(p).built[f + 1].kids
           IN  Tiled(kids, R, c, SubtreeHeight(p, f)) /\ c[1] = cut[f + 1] /\ c[Len(kids) + 1] = p.pos
<1> DEFINE f == p.open[Len(p.open)].first
           b == Len(p.built)
           h == SubtreeHeight(p, f)
           c == [i \in Nat |-> cut[f + i]]
           kids == FinishNode(p).built[f + 1].kids
<1>1. /\ f \in Nat /\ b \in Nat /\ f <= b /\ h \in Nat /\ \A i \in (f + 1)..b : p.heights[i] <= h
      /\ IsSeq(kids) /\ Len(kids) = b - f /\ \A i \in 1..(b - f) : kids[i] = p.built[f + i]
  BY FinishFields
<1>2. /\ Accounted(R, p.tokens) /\ cut \in [Nat -> Nat] /\ cut[b + 1] = p.pos
      /\ \A i \in 1..b : <<p.built[i], cut[i], cut[i + 1], p.heights[i]>> \in R
  BY DEF Spans
<1> HIDE DEF f, b, h, kids
<1>3. c \in [Nat -> Nat] /\ c[1] = cut[f + 1]
  BY <1>1, <1>2
<1>4. c[Len(kids) + 1] = p.pos
  <2>1. Len(kids) + 1 \in Nat /\ f + (Len(kids) + 1) = b + 1
    BY <1>1
  <2>2. QED
    BY <1>2, <2>1
<1>5. ASSUME NEW i \in 1..Len(kids) PROVE \E g \in 1..h : <<kids[i], c[i], c[i + 1], g>> \in R
  <2>1. f + i \in 1..b /\ f + i \in (f + 1)..b /\ f + (i + 1) = f + i + 1 /\ i \in Nat /\ i + 1 \in Nat
    BY <1>1
  <2>2. <<p.built[f + i], cut[f + i], cut[f + i + 1], p.heights[f + i]>> \in R
    BY <1>2, <2>1
  <2>3. p.heights[f + i] \in Nat /\ 1 <= p.heights[f + i]
    BY <1>2, <2>2 DEF Accounted
  <2>4. p.heights[f + i] \in 1..h
    BY <1>1, <2>1, <2>3
  <2>5. kids[i] = p.built[f + i] /\ c[i] = cut[f + i] /\ c[i + 1] = cut[f + i + 1]
    BY <1>1, <2>1
  <2> HIDE DEF c
  <2>6. <<kids[i], c[i], c[i + 1], p.heights[f + i]>> \in R
    BY <2>2, <2>5
  <2>7. QED
    BY <2>4, <2>6
<1> HIDE DEF c
<1>6. Tiled(kids, R, c, h)
  BY <1>1, <1>3, <1>5 DEF Tiled
<1>7. QED
  BY <1>3, <1>4, <1>6 DEF f, h, c, kids

\* What a node is accounted for by stays so.
LEMMA AccountedMore ==
    ASSUME NEW R, NEW tokens, Accounted(R, tokens), NEW N,
           \A x \in N : /\ x[2] \in Nat /\ x[3] \in Nat /\ x[4] \in Nat /\ 1 <= x[2] /\ x[2] <= x[3] /\ 1 <= x[4]
                        /\ IsToken(x, tokens) \/ IsNode(x, R)
    PROVE  Accounted(R \cup N, tokens)
<1>1. \A x : IsNode(x, R) => IsNode(x, R \cup N)
  <2> DEFINE A == R \cup N
  <2>1. R \subseteq A
    OBVIOUS
  <2> HIDE DEF A
  <2>2. \A x : IsNode(x, R) => IsNode(x, A)
    BY <2>1 DEF IsNode, Tiled
  <2>3. QED
    BY <2>2 DEF A
<1>2. QED
  BY <1>1 DEF Accounted

\* The node finished lies where its children lay, as one child more of its parent.
LEMMA FinishSpelled ==
    ASSUME NEW p, Shape(p), Opened(p), Spelled(p), 2 <= Len(p.open)
    PROVE  Spelled(FinishNode(p))
<1> DEFINE q == FinishNode(p)
           k == Len(p.open)
           f == p.open[k].first
           b == Len(p.built)
           h == SubtreeHeight(p, f)
           new == q.built[f + 1]
<1>1. /\ SameBut(p, q, {"open", "built", "heights"})
      /\ k \in Nat /\ 1 <= k /\ f \in Nat /\ b \in Nat /\ f <= b
      /\ Len(q.built) = f + 1 /\ \A i \in 1..f : q.built[i] = p.built[i] /\ q.heights[i] = p.heights[i]
      /\ new.kind \in Kinds /\ new.at = 0
      /\ q.heights[f + 1] = h + 1 /\ h \in Nat
      /\ IsSeq(new.kids) /\ Len(new.kids) = b - f /\ \A i \in 1..(b - f) : new.kids[i] = p.built[f + i]
  BY FinishFields
<1>2. q.tokens = p.tokens /\ q.pos = p.pos
  BY <1>1 DEF SameBut, Attributes
<1>3. PICK R, cut : Spans(p, R, cut)
  BY DEF Spelled
<1>4. /\ Accounted(R, p.tokens) /\ cut \in [Nat -> Nat] /\ cut[1] = 1 /\ cut[b + 1] = p.pos
      /\ \A i \in 1..b : <<p.built[i], cut[i], cut[i + 1], p.heights[i]>> \in R
  BY <1>3 DEF Spans
<1> DEFINE c == [i \in Nat |-> cut[f + i]]
           x == <<new, cut[f + 1], p.pos, h + 1>>
           A == R \cup {x}
           e == [i \in Nat |-> IF i <= f + 1 THEN cut[i] ELSE p.pos]
<1>5. Tiled(new.kids, R, c, h) /\ c[1] = cut[f + 1] /\ c[Len(new.kids) + 1] = p.pos
  BY <1>3, FinishTiled
<1>6. p.pos \in Nat /\ 1 <= p.pos
  <2>1. p.tokens \in Seq(STRING) /\ p.pos \in 1..(Len(p.tokens) + 1)
    BY DEF Shape
  <2>2. QED
    BY <2>1
<1>7. cut[f + 1] \in Nat /\ 1 <= cut[f + 1] /\ cut[f + 1] <= p.pos
  <2> HIDE DEF f, b, c, new
  <2>1. cut[f + 1] \in Nat
    BY <1>1, <1>4
  <2>2. Len(new.kids) \in Nat
    BY <1>1, SeqFacts
  <2>3. 1 \in 1..(Len(new.kids) + 1) /\ Len(new.kids) + 1 \in 1..(Len(new.kids) + 1) /\ 1 <= Len(new.kids) + 1
    BY <2>2
  <2>4. c[1] <= c[Len(new.kids) + 1]
    BY <1>4, <1>5, <2>3, AccountedCovers, TiledRises
  <2>5. 1 <= cut[f + 1]
    <3>1. CASE f = b
      BY <1>4, <1>6, <3>1
    <3>2. CASE f # b
      <4>1. f + 1 \in 1..b
        BY <1>1, <3>2
      <4>2. <<p.built[f + 1], cut[f + 1], cut[f + 1 + 1], p.heights[f + 1]>> \in R
        BY <1>4, <4>1
      <4>3. QED
        BY <1>4, <4>2 DEF Accounted
    <3>3. QED
      BY <3>1, <3>2
  <2>6. QED
    BY <1>5, <2>1, <2>4, <2>5
<1>8. new.kids # <<>> => new.kids[1].kind # Trivia
  <2> SUFFICES ASSUME new.kids # <<>> PROVE new.kids[1].kind # Trivia
    OBVIOUS
  <2>1. Len(new.kids) # 0
    BY <1>1, SeqFacts
  <2> HIDE DEF f, b, new
  <2>2. f < b /\ 1 \in 1..(b - f)
    BY <1>1, <2>1
  <2>3. new.kids[1] = p.built[f + 1]
    BY <1>1, <2>2
  <2>4. Clean(p, f)
    <3>1. k \in 2..Len(p.open)
      BY <1>1
    <3>2. QED
      BY <3>1 DEF Opened, f
  <2>5. QED
    BY <2>2, <2>3, <2>4 DEF Clean, b
<1> HIDE DEF new, f, b, h, q, c
<1>9. x[1] = new /\ x[2] = cut[f + 1] /\ x[3] = p.pos /\ x[4] = h + 1
  OBVIOUS
<1> HIDE DEF x
<1>10. IsNode(x, R)
  <2>1. new.kind # Trivia
    BY <1>1, KindsAreNodes
  <2>2. h + 1 - 1 = h
    BY <1>1
  <2>3. \E t : Tiled(new.kids, R, t, h) /\ t[1] = cut[f + 1] /\ t[Len(new.kids) + 1] = p.pos
    BY <1>5
  <2>4. QED
    BY <1>1, <1>8, <1>9, <2>1, <2>2, <2>3 DEF IsNode
<1>11. Accounted(A, p.tokens)
  <2>1. h + 1 \in Nat /\ 1 <= h + 1
    BY <1>1
  <2>2. QED
    BY <1>4, <1>6, <1>7, <1>9, <1>10, <2>1, AccountedMore
<1>12. /\ e \in [Nat -> Nat] /\ e[f + 2] = p.pos
       /\ \A i \in Nat : i <= f + 1 => e[i] = cut[i]
  <2>1. f + 2 \in Nat /\ ~(f + 2 <= f + 1)
    BY <1>1
  <2>2. QED
    BY <1>4, <1>6, <2>1
<1>13. ASSUME NEW i \in 1..(f + 1) PROVE <<q.built[i], e[i], e[i + 1], q.heights[i]>> \in A
  <2>1. CASE i \in 1..f
    <3>1. i \in Nat /\ i + 1 \in Nat /\ i <= f + 1 /\ i + 1 <= f + 1 /\ i \in 1..b
      BY <1>1, <2>1
    <3>2. <<p.built[i], cut[i], cut[i + 1], p.heights[i]>> \in R
      BY <1>4, <3>1
    <3>3. e[i] = cut[i] /\ e[i + 1] = cut[i + 1]
      BY <1>12, <3>1
    <3>4. QED
      BY <1>1, <2>1, <3>2, <3>3
  <2>2. CASE i = f + 1
    <3>1. f + 1 \in Nat /\ f + 1 <= f + 1 /\ f + 1 + 1 = f + 2
      BY <1>1
    <3>2. e[i] = cut[f + 1] /\ e[i + 1] = p.pos
      BY <1>12, <2>2, <3>1
    <3>3. <<q.built[i], e[i], e[i + 1], q.heights[i]>> = x
      BY <1>1, <2>2, <3>2 DEF x, new
    <3>4. QED
      BY <3>3
  <2>3. QED
    BY <1>1, <2>1, <2>2
<1>14. e[1] = 1 /\ e[Len(q.built) + 1] = p.pos
  <2>1. 1 \in Nat /\ 1 <= f + 1 /\ f + 1 + 1 = f + 2
    BY <1>1
  <2>2. QED
    BY <1>1, <1>4, <1>12, <2>1
<1> HIDE DEF A, e
<1>15. Spans(q, A, e)
  BY <1>1, <1>2, <1>11, <1>12, <1>13, <1>14 DEF Spans
<1>16. QED
  BY <1>15 DEF Spelled, q

\* finish_node, between two operations.
LEMMA FinishWorks ==
    ASSUME NEW p, NEW u \in Int, NEW d \in Int, NEW n \in Nat, Works(p, u, d, n), 1 <= u, 1 <= n
    PROVE  LET q == FinishNode(p)
           IN  Works(q, u - 1, d, n) /\ SameBut(p, q, {"open", "built", "heights"}) /\ 2 <= Len(p.open)
               /\ Len(q.open) = Len(p.open) - 1
<1> DEFINE q == FinishNode(p)
           k == Len(p.open)
           f == p.open[k].first
           b == Len(p.built)
           level == k - u
           depth == p.depth - d
<1>1. Ready(p, level, depth) /\ k \in Nat /\ level \in Nat /\ Len(p.todo) \in Nat /\ (1 <= Len(p.todo) => 1 <= level)
  BY PendingFacts DEF Works
<1>2. Shape(p) /\ Opened(p) /\ Spelled(p) /\ Pending(p, level, depth) /\ EndsRight(p.todo)
  BY <1>1 DEF Ready
<1>3. n <= Len(p.todo) /\ p.depth - d <= DepthLimit
  BY DEF Works
<1>4. /\ SameBut(p, q, {"open", "built", "heights"})
      /\ q.open \in Seq(Opener) /\ Len(q.open) = k - 1 /\ \A i \in 1..(k - 1) : q.open[i] = p.open[i]
      /\ f \in Nat /\ b \in Nat /\ f <= b
      /\ IsSeq(q.built) /\ Len(q.built) = f + 1 /\ \A i \in 1..f : q.built[i] = p.built[i]
      /\ q.built[f + 1].kind \in Kinds
      /\ q.heights \in Seq(Nat) /\ Len(q.heights) = f + 1
  BY <1>2, FinishFields
<1>5. /\ q.tokens = p.tokens /\ q.pos = p.pos /\ q.depth = p.depth /\ q.deepest = p.deepest
      /\ q.maxDepth = p.maxDepth /\ q.todo = p.todo /\ DOMAIN q = Attributes
  BY <1>4 DEF SameBut, Attributes
<1>6. 1 <= level /\ 2 <= k /\ level <= k - 1 /\ level = k - u
  <2>1. 1 <= level
    BY <1>1, <1>3
  <2>2. level = k - u
    OBVIOUS
  <2> HIDE DEF level, k
  <2>3. QED
    BY <1>1, <2>1, <2>2
<1>7. Spelled(q)
  BY <1>2, <1>6, FinishSpelled
<1>8. q.open # <<>>
  <2> HIDE DEF k
  <2>1. Len(q.open) # 0
    BY <1>1, <1>4, <1>6
  <2>2. IsSeq(q.open)
    BY <1>4 DEF IsSeq
  <2> HIDE DEF q
  <2>3. QED
    BY <2>1, <2>2, SeqFacts
<1> HIDE DEF q, k, f, b, level, depth
<1>9. Shape(q)
  BY <1>2, <1>4, <1>5, <1>8 DEF Shape
<1>10. ASSUME NEW m \in 0..f, Clean(p, m) PROVE Clean(q, m)
  <2>1. CASE m = f
    <3>1. m < Len(q.built) /\ q.built[m + 1].kind \in Kinds
      BY <1>4, <2>1
    <3>2. QED
      BY <3>1, KindsAreNodes DEF Clean
  <2>2. CASE m # f
    <3>1. m < Len(p.built) /\ m < Len(q.built) /\ m + 1 \in 1..f
      BY <1>4, <2>2 DEF b
    <3>2. QED
      BY <1>4, <1>10, <3>1 DEF Clean
  <2>3. QED
    BY <2>1, <2>2
<1>11. \A i \in 1..k : p.open[i].first \in 0..f
  <2> SUFFICES ASSUME NEW i \in 1..k PROVE p.open[i].first \in 0..f
    OBVIOUS
  <2>1. p.open \in Seq(Opener) /\ k = Len(p.open)
    BY <1>2 DEF Shape, k
  <2>2. p.open[i] \in Opener
    BY <2>1
  <2>3. k \in 1..k /\ i <= k
    BY <1>1, <1>6
  <2>4. p.open[i].first <= p.open[k].first
    BY <1>2, <2>1, <2>3 DEF Opened
  <2>5. p.open[i].first \in Nat
    BY <2>2 DEF Opener
  <2>6. QED
    BY <1>4, <2>4, <2>5 DEF f
<1>12. k = Len(p.open) /\ b = Len(p.built) /\ f = p.open[k].first
  BY DEF k, b, f
<1>13. Opened(q)
  <2>1. \A i \in 1..(k - 1) : i \in 1..k
    BY <1>1
  <2>2. \A i \in 1..(k - 1) : q.open[i].first \in 0..f
    BY <1>4, <1>11, <2>1
  <2>3. \A i \in 1..(k - 1) : q.open[i].first <= Len(q.built)
    <3> SUFFICES ASSUME NEW i \in 1..(k - 1) PROVE q.open[i].first <= Len(q.built)
      OBVIOUS
    <3>1. q.open[i].first \in 0..f
      BY <2>2
    <3>2. QED
      BY <1>4, <3>1
  <2>4. \A i, j \in 1..(k - 1) : i <= j => q.open[i].first <= q.open[j].first
    BY <1>2, <1>4, <1>12, <2>1 DEF Opened
  <2>5. q.open[1].first = 0
    <3>1. 1 \in 1..(k - 1)
      BY <1>1, <1>6
    <3>2. QED
      BY <1>2, <1>4, <3>1 DEF Opened
  <2>6. \A i \in 2..(k - 1) : Clean(q, q.open[i].first)
    <3> SUFFICES ASSUME NEW i \in 2..(k - 1) PROVE Clean(q, q.open[i].first)
      OBVIOUS
    <3>1. i \in 1..(k - 1) /\ i \in 2..Len(p.open) /\ i \in 1..k
      BY <1>1, <1>12
    <3>2. Clean(p, p.open[i].first) /\ p.open[i].first \in 0..f
      BY <1>2, <1>11, <3>1 DEF Opened
    <3>3. QED
      BY <1>4, <1>10, <3>1, <3>2
  <2>7. QED
    BY <1>4, <2>3, <2>4, <2>5, <2>6 DEF Opened
<1>14. ASSUME NEW l \in 1..level, NEW o, Fits(p, l, o) PROVE Fits(q, l, o)
  <2>1. l \in Nat /\ l + 1 \in 1..k /\ l < k /\ l \in 1..(k - 1) /\ (l < k - 1 => l + 1 \in 1..(k - 1))
    BY <1>1, <1>6
  <2>2. o \in Nat /\ p.open[l].first <= o /\ o <= p.open[l + 1].first /\ Clean(p, o)
    BY <1>12, <1>14, <2>1 DEF Fits
  <2>3. p.open[l + 1].first \in 0..f
    BY <1>11, <2>1
  <2>4. o \in 0..f /\ o <= f + 1
    BY <1>4, <2>2, <2>3
  <2>5. Clean(q, o)
    BY <1>10, <2>2, <2>4
  <2>6. q.open[l].first <= o /\ (l < k - 1 => o <= q.open[l + 1].first)
    BY <1>4, <2>1, <2>2
  <2>7. QED
    BY <1>4, <2>1, <2>2, <2>4, <2>5, <2>6 DEF Fits
<1>15. Pending(q, level, depth)
  BY <1>1, <1>2, <1>5, <1>14, StillPending DEF Shape
<1>16. Ready(q, level, depth)
  BY <1>2, <1>5, <1>7, <1>9, <1>13, <1>15 DEF Ready
<1>17. k - 1 - (u - 1) = level
  BY <1>1, <1>6
<1>18. Works(q, u - 1, d, n)
  BY <1>3, <1>4, <1>5, <1>16, <1>17 DEF Works, depth
<1>19. QED
  BY <1>4, <1>6, <1>12, <1>18 DEF q

------------------------------------------------------------------------------
(***************************************************************************)
(* What is left to do.                                                     *)
(***************************************************************************)
\* Steps are some, and then others.
Precede(s, t, w) ==
    /\ Len(s) \in Nat /\ Len(t) \in Nat /\ IsSeq(w) /\ Len(w) = Len(s) + Len(t)
    /\ \A k \in 1..Len(t) : Left(w, k) = Left(t, k)
    /\ \A k \in 1..Len(s) : Left(w, Len(t) + k) = Left(s, k)

\* Counted from the end, the second of two lists comes first.
LEMMA ConcatLeft ==
    ASSUME NEW s, NEW t, IsSeq(s), IsSeq(t)
    PROVE  Precede(s, t, s \o t)
<1> DEFINE a == Len(s)
           b == Len(t)
<1>1. a \in Nat /\ b \in Nat
  BY SeqFacts
<1>2. /\ IsSeq(s \o t) /\ Len(s \o t) = a + b
      /\ \A i \in 1..a : (s \o t)[i] = s[i]
      /\ \A i \in 1..b : (s \o t)[a + i] = t[i]
  BY ConcatFacts DEF Joined
<1>3. ASSUME NEW k \in 1..b PROVE Left(s \o t, k) = Left(t, k)
  <2>1. b + 1 - k \in 1..b /\ a + b + 1 - k = a + (b + 1 - k)
    <3> HIDE DEF a, b
    <3>1. QED
      BY <1>1
  <2>2. Left(s \o t, k) = (s \o t)[a + (b + 1 - k)]
    BY <1>2, <2>1 DEF Left
  <2>3. QED
    BY <1>2, <2>1, <2>2 DEF Left
<1>4. ASSUME NEW k \in 1..a PROVE Left(s \o t, b + k) = Left(s, k)
  <2>1. a + 1 - k \in 1..a /\ a + b + 1 - (b + k) = a + 1 - k
    <3> HIDE DEF a, b
    <3>1. QED
      BY <1>1
  <2>2. Left(s \o t, b + k) = (s \o t)[a + 1 - k]
    BY <1>2, <2>1 DEF Left
  <2>3. QED
    BY <1>2, <2>1, <2>2 DEF Left
<1>5. QED
  BY <1>1, <1>2, <1>3, <1>4 DEF Precede

\* Steps put before those left add what they finish and give back to what is due.
LEMMA DoReady ==
    ASSUME NEW p, NEW level, NEW depth, Ready(p, level, depth), 1 <= Len(p.todo),
           NEW steps, NEW r, NEW e, Course(steps, r, e), EndsRight(steps \o p.todo),
           \A k \in 1..Len(steps) : \A m \in MarkersOf(Left(steps, k)) :
             r[k] = 0 /\ Fits(p, level, m) /\ (\A o \in Marked(p.todo) : o <= m) /\ Ordered(steps, k, m)
    PROVE  Ready(Do(p, steps), level + r[Len(steps)], depth + e[Len(steps)])
<1> DEFINE q == Do(p, steps)
           T == Len(p.todo)
           S == Len(steps)
<1>1. /\ Shape(p) /\ Opened(p) /\ Spelled(p) /\ Pending(p, level, depth) /\ EndsRight(p.todo)
      /\ level \in Nat /\ depth \in Nat /\ T \in Nat /\ 1 <= T /\ 1 <= level /\ DOMAIN p = Attributes /\ IsSeq(p.todo)
  BY PendingFacts DEF Ready, Shape
<1>2. /\ IsSeq(steps) /\ r \in [Nat -> Nat] /\ e \in [Nat -> Nat] /\ r[0] = 0 /\ e[0] = 0
      /\ \A k \in 1..S : Typed(Left(steps, k)) /\ Falls(Left(steps, k), r[k], r[k - 1], e[k], e[k - 1])
  BY DEF Course
<1>3. SameBut(p, q, {"todo"}) /\ q.todo = steps \o p.todo
  BY <1>1 DEF SameBut, Attributes, Do
<1>4. /\ q.tokens = p.tokens /\ q.pos = p.pos /\ q.built = p.built /\ q.heights = p.heights /\ q.open = p.open
      /\ q.depth = p.depth /\ q.deepest = p.deepest /\ q.maxDepth = p.maxDepth /\ DOMAIN q = Attributes
  BY <1>3 DEF SameBut, Attributes
<1>5. /\ S \in Nat /\ IsSeq(q.todo) /\ Len(q.todo) = S + T
      /\ \A k \in 1..T : Left(q.todo, k) = Left(p.todo, k)
      /\ \A k \in 1..S : Left(q.todo, T + k) = Left(steps, k)
  <2>1. Precede(steps, p.todo, q.todo)
    BY <1>1, <1>2, <1>3, ConcatLeft
  <2>2. QED
    BY <2>1 DEF Precede
<1> HIDE DEF q
<1>6. Shape(q)
  BY <1>1, <1>4, <1>5 DEF Shape
<1>7. \A m : Clean(q, m) <=> Clean(p, m)
  BY <1>4 DEF Clean
<1>8. Opened(q)
  BY <1>1, <1>4, <1>7 DEF Opened
<1>9. Spelled(q)
  BY <1>1, <1>4 DEF Spelled, Spans
<1>10. \A l, m : Fits(p, l, m) => Fits(q, l, m)
  BY <1>4, <1>7 DEF Fits
<1>11. PICK lv, dp : Balanced(p, level, depth, lv, dp)
  BY <1>1 DEF Pending
<1>12. /\ lv \in [Nat -> Nat] /\ dp \in [Nat -> Nat] /\ lv[0] = 0 /\ dp[0] = 0 /\ lv[T] = level /\ dp[T] = depth
       /\ \A k \in 1..T :
            /\ 1 <= lv[k] /\ Typed(Left(p.todo, k)) /\ Falls(Left(p.todo, k), lv[k], lv[k - 1], dp[k], dp[k - 1])
            /\ \A m \in MarkersOf(Left(p.todo, k)) :
                 Fits(p, lv[k], m) /\ Ordered(p.todo, k, m) /\ \A j \in k..T : lv[k] <= lv[j]
  BY <1>11 DEF Balanced
<1>20. \A k \in 1..T : \A m \in MarkersOf(Left(p.todo, k)) : m \in Marked(p.todo)
  BY DEF Marked
<1> DEFINE lw == [k \in Nat |-> IF k <= T THEN lv[k] ELSE level + r[k - T]]
           dq == [k \in Nat |-> IF k <= T THEN dp[k] ELSE depth + e[k - T]]
<1> HIDE DEF T, S
<1>13. \A k \in Nat : ~(k <= T) => k - T \in Nat
  BY <1>1
<1>14. lw \in [Nat -> Nat] /\ dq \in [Nat -> Nat]
  <2>1. \A k \in Nat : ~(k <= T) => r[k - T] \in Nat /\ e[k - T] \in Nat
    BY <1>2, <1>13
  <2>2. \A k \in Nat : ~(k <= T) => level + r[k - T] \in Nat /\ depth + e[k - T] \in Nat
    BY <1>1, <2>1, SumIs
  <2>3. QED
    BY <1>12, <2>2
<1>15. \A k \in 0..T : lw[k] = lv[k] /\ dq[k] = dp[k]
  BY <1>1
<1>16. \A j \in 0..S : T + j \in Nat /\ lw[T + j] = level + r[j] /\ dq[T + j] = depth + e[j]
  <2> SUFFICES ASSUME NEW j \in 0..S PROVE T + j \in Nat /\ lw[T + j] = level + r[j] /\ dq[T + j] = depth + e[j]
    OBVIOUS
  <2>0. T + j \in Nat /\ T \in 0..T
    BY <1>1, <1>5
  <2>1. CASE j = 0
    <3>1. T + j = T /\ level + 0 = level /\ depth + 0 = depth
      BY <1>1, <2>1
    <3>2. lw[T] = level /\ dq[T] = depth
      BY <1>12, <1>15, <2>0
    <3>3. QED
      BY <1>2, <2>0, <2>1, <3>1, <3>2
  <2>2. CASE j # 0
    <3>1. ~(T + j <= T) /\ T + j - T = j
      BY <1>1, <1>5, <2>2
    <3>2. QED
      BY <2>0, <3>1
  <2>3. QED
    BY <2>1, <2>2
<1> HIDE DEF lw, dq
<1>17. ASSUME NEW k \in 1..(S + T)
       PROVE  /\ 1 <= lw[k] /\ Typed(Left(q.todo, k)) /\ Falls(Left(q.todo, k), lw[k], lw[k - 1], dq[k], dq[k - 1])
              /\ \A m \in MarkersOf(Left(q.todo, k)) :
                   Fits(q, lw[k], m) /\ Ordered(q.todo, k, m) /\ \A j \in k..(S + T) : lw[k] <= lw[j]
  <2>1. CASE k \in 1..T
    <3>1. k \in 0..T /\ k - 1 \in 0..T
      BY <1>1, <2>1
    <3>2. lw[k] = lv[k] /\ lw[k - 1] = lv[k - 1] /\ dq[k] = dp[k] /\ dq[k - 1] = dp[k - 1] /\ Left(q.todo, k) = Left(p.todo, k)
      BY <1>5, <1>15, <2>1, <3>1
    <3>3. ASSUME NEW m \in MarkersOf(Left(q.todo, k))
          PROVE  Fits(q, lw[k], m) /\ Ordered(q.todo, k, m) /\ \A j \in k..(S + T) : lw[k] <= lw[j]
      <4>1. Fits(p, lv[k], m) /\ Ordered(p.todo, k, m) /\ \A j \in k..T : lv[k] <= lv[j]
        BY <1>12, <2>1, <3>2, <3>3
      <4>2. \A j \in 1..(k - 1) : j \in 1..T
        BY <1>1, <2>1
      <4>3. Ordered(q.todo, k, m)
        BY <1>5, <4>1, <4>2 DEF Ordered
      <4>4. ASSUME NEW j \in k..(S + T) PROVE lw[k] <= lw[j]
        <5>1. CASE j <= T
          <6>1. j \in k..T /\ j \in 0..T
            BY <1>1, <2>1, <5>1
          <6>2. QED
            BY <1>15, <3>2, <4>1, <6>1
        <5>2. CASE ~(j <= T)
          <6> DEFINE i == j - T
          <6>1. i \in 0..S /\ j = T + i
            BY <1>1, <1>5, <5>2
          <6>2. lw[j] = level + r[i]
            BY <1>16, <6>1
          <6>3. T \in k..T
            BY <1>1, <2>1
          <6>7. lv[k] <= lv[T]
            BY <4>1, <6>3
          <6>9. k \in Nat
            BY <2>1
          <6>8. k \in Nat /\ lv \in [Nat -> Nat] /\ lv[T] = level
            BY <1>12, <6>9
          <6>4. lv[k] <= level /\ lv[k] \in Nat
            BY <6>7, <6>8
          <6>5. r[i] \in Nat
            BY <1>2, <1>5, <6>1
          <6> HIDE DEF i
          <6>6. QED
            BY <1>1, <3>2, <6>2, <6>4, <6>5
        <5>3. QED
          BY <5>1, <5>2
      <4>5. QED
        BY <1>10, <3>2, <4>1, <4>3, <4>4
    <3>4. QED
      BY <1>12, <2>1, <3>2, <3>3
  <2>2. CASE ~(k \in 1..T)
    <3> DEFINE j == k - T
    <3>1. j \in 1..S /\ k = T + j /\ j - 1 \in 0..S /\ j \in 0..S /\ k - 1 = T + (j - 1) /\ k \in Nat
      BY <1>1, <1>5, <2>2
    <3> HIDE DEF j
    <3>2. /\ lw[k] = level + r[j] /\ lw[k - 1] = level + r[j - 1] /\ dq[k] = depth + e[j] /\ dq[k - 1] = depth + e[j - 1]
          /\ Left(q.todo, k) = Left(steps, j)
      BY <1>5, <1>16, <3>1
    <3>3. r[j] \in Nat /\ r[j - 1] \in Nat /\ e[j] \in Nat /\ e[j - 1] \in Nat
      BY <1>2, <1>5, <3>1
    <3>4. Typed(Left(steps, j)) /\ Falls(Left(steps, j), r[j], r[j - 1], e[j], e[j - 1])
      BY <1>2, <3>1
    <3>5. 1 <= level + r[j]
      BY <1>1, <3>3
    <3>6. Falls(Left(steps, j), level + r[j], level + r[j - 1], depth + e[j], depth + e[j - 1])
      <4>1. r[j - 1] = r[j] + 1 => level + r[j - 1] = level + r[j] + 1
        BY <1>1, <3>3
      <4>2. r[j] = r[j - 1] + 1 => level + r[j] = level + r[j - 1] + 1
        BY <1>1, <3>3
      <4>3. e[j] = e[j - 1] + 1 => depth + e[j] = depth + e[j - 1] + 1
        BY <1>1, <3>3
      <4>4. QED
        BY <3>4, <4>1, <4>2, <4>3 DEF Falls
    <3>7. ASSUME NEW m \in MarkersOf(Left(q.todo, k))
          PROVE  Fits(q, lw[k], m) /\ Ordered(q.todo, k, m) /\ \A i \in k..(S + T) : lw[k] <= lw[i]
      <4>1. r[j] = 0 /\ Fits(p, level, m) /\ (\A o \in Marked(p.todo) : o <= m) /\ Ordered(steps, j, m)
        BY <3>1, <3>2, <3>7 DEF S
      <4>2. lw[k] = level
        BY <1>1, <3>2, <4>1
      <4>3. ASSUME NEW i \in 1..(k - 1), NEW o \in MarkersOf(Left(q.todo, i)) PROVE o <= m
        <5>1. CASE i \in 1..T
          <6>1. o \in Marked(p.todo)
            BY <1>5, <1>20, <4>3, <5>1
          <6>2. QED
            BY <4>1, <6>1
        <5>2. CASE ~(i \in 1..T)
          <6>1. i - T \in 1..(j - 1) /\ i - T \in 1..S /\ i = T + (i - T)
            BY <1>1, <1>5, <3>1, <5>2
          <6>2. o \in MarkersOf(Left(steps, i - T))
            BY <1>5, <4>3, <6>1
          <6>3. QED
            BY <4>1, <6>1, <6>2 DEF Ordered
        <5>3. QED
          BY <5>1, <5>2
      <4>4. Ordered(q.todo, k, m)
        BY <4>3 DEF Ordered
      <4>5. ASSUME NEW i \in k..(S + T) PROVE lw[k] <= lw[i]
        <5> DEFINE z == i - T
        <5>1. z \in 0..S /\ i = T + z /\ z \in Nat
          BY <1>1, <1>5, <3>1
        <5> HIDE DEF z
        <5>2. lw[i] = level + r[z] /\ r[z] \in Nat
          BY <1>2, <1>16, <5>1
        <5>3. QED
          BY <1>1, <4>2, <5>2
      <4>6. QED
        BY <1>10, <4>1, <4>2, <4>4, <4>5
    <3>8. QED
      BY <3>2, <3>4, <3>5, <3>6, <3>7
  <2>3. QED
    BY <2>1, <2>2
<1>18. lw[0] = 0 /\ dq[0] = 0 /\ lw[S + T] = level + r[S] /\ dq[S + T] = depth + e[S]
  <2>1. 0 \in 0..T /\ S \in 0..S /\ S + T = T + S
    BY <1>1, <1>5
  <2>2. QED
    BY <1>12, <1>15, <1>16, <2>1
<1>19. Balanced(q, level + r[S], depth + e[S], lw, dq)
  BY <1>5, <1>14, <1>17, <1>18 DEF Balanced
<1>21. Pending(q, level + r[S], depth + e[S])
  BY <1>19 DEF Pending
<1>22. QED
  BY <1>3, <1>6, <1>8, <1>9, <1>21 DEF Ready, q, S

\* Steps without markers.
LEMMA DoWorks ==
    ASSUME NEW p, NEW u \in Int, NEW d \in Int, NEW n \in Nat, Works(p, u, d, n), 4 <= n,
           NEW steps, NEW a \in Int, NEW b \in Int, Runs(steps, a, b), p.depth - (d - b) <= DepthLimit
    PROVE  Works(Do(p, steps), u - a, d - b, n) /\ \A v, m : Handy(p, v, m) => Handy(Do(p, steps), v, m)
<1> DEFINE q == Do(p, steps)
           T == Len(p.todo)
           S == Len(steps)
           level == Len(p.open) - u
           depth == p.depth - d
<1>1. /\ Ready(p, level, depth) /\ T \in Nat /\ Len(p.open) \in Nat /\ p.depth \in Nat /\ DOMAIN p = Attributes /\ IsSeq(p.todo)
      /\ EndsRight(p.todo) /\ n <= T
  BY PendingFacts DEF Works, Ready, Shape
<1>2. PICK r, e : Course(steps, r, e) /\ r[Len(steps)] = a /\ e[Len(steps)] = b
  BY DEF Runs
<1>3. \A k \in 1..S : MarkersOf(Left(steps, k)) = {}
  BY DEF Runs
<1>4. IsSeq(steps) /\ S \in Nat
  BY <1>2, SeqFacts DEF Course
<1>5. SameBut(p, q, {"todo"}) /\ q.todo = steps \o p.todo
  BY <1>1 DEF SameBut, Attributes, Do
<1>6. Precede(steps, p.todo, q.todo)
  BY <1>1, <1>4, <1>5, ConcatLeft
<1>7. /\ Len(q.todo) = S + T
      /\ \A k \in 1..T : Left(q.todo, k) = Left(p.todo, k)
      /\ \A k \in 1..S : Left(q.todo, T + k) = Left(steps, k)
  BY <1>6 DEF Precede
<1>8. EndsRight(q.todo)
  <2>1. 1 \in 1..T /\ 2 \in 1..T /\ 3 \in 1..T /\ 4 \in 1..T /\ 1 <= T /\ 2 <= T /\ 3 <= T /\ 4 <= T
    BY <1>1
  <2>2. QED
    BY <1>1, <1>7, <2>1 DEF EndsRight
<1>9. 1 <= T
  BY <1>1
<1> HIDE DEF q, level, depth
<1>10. Ready(q, level + r[Len(steps)], depth + e[Len(steps)])
  <2>1. \A k \in 1..Len(steps) : \A m \in MarkersOf(Left(steps, k)) :
             r[k] = 0 /\ Fits(p, level, m) /\ (\A o \in Marked(p.todo) : o <= m) /\ Ordered(steps, k, m)
    BY <1>3
  <2>2. QED
    BY <1>1, <1>2, <1>5, <1>8, <1>9, <2>1, DoReady DEF q
<1>11. q.open = p.open /\ q.depth = p.depth /\ q.built = p.built /\ q.tokens = p.tokens /\ q.pos = p.pos
  BY <1>5 DEF SameBut, Attributes
<1>12. level + a = Len(q.open) - (u - a) /\ depth + b = q.depth - (d - b)
  BY <1>1, <1>11 DEF level, depth
<1>13. n <= Len(q.todo)
  BY <1>1, <1>4, <1>7
<1>14. Works(q, u - a, d - b, n)
  BY <1>2, <1>10, <1>11, <1>12, <1>13 DEF Works
<1>15. Marked(q.todo) \subseteq Marked(p.todo)
  <2> SUFFICES ASSUME NEW o \in Marked(q.todo) PROVE o \in Marked(p.todo)
    OBVIOUS
  <2>1. PICK k \in 1..Len(q.todo) : o \in MarkersOf(Left(q.todo, k))
    BY DEF Marked
  <2>2. CASE k \in 1..T
    BY <1>7, <2>1, <2>2 DEF Marked
  <2>3. CASE ~(k \in 1..T)
    <3>1. k - T \in 1..S /\ k = T + (k - T)
      <4> HIDE DEF T, S
      <4>1. QED
        BY <1>1, <1>4, <1>7, <2>3
    <3>2. MarkersOf(Left(q.todo, k)) = {}
      BY <1>3, <1>7, <3>1
    <3>3. QED
      BY <2>1, <3>2
  <2>4. QED
    BY <2>2, <2>3
<1>16. \A l, m : Fits(p, l, m) => Fits(q, l, m)
  BY <1>11 DEF Fits, Clean
<1>17. \A v, m : Handy(p, v, m) => Handy(q, v, m)
  BY <1>11, <1>15, <1>16 DEF Handy
<1>18. QED
  BY <1>14, <1>17 DEF q

\* A list of one step, from its end.
LEMMA OneStep ==
    ASSUME NEW s
    PROVE  IsSeq(<<s>>) /\ Len(<<s>>) = 1 /\ Left(<<s>>, 1) = s
<1>1. <<s>> \in Seq({s})
  OBVIOUS
<1>2. IsSeq(<<s>>)
  <2>1. \E T : <<s>> \in Seq(T)
    BY <1>1
  <2>2. QED
    BY <2>1 DEF IsSeq
<1>3. Len(<<s>>) = 1 /\ <<s>>[1] = s /\ 1 + 1 - 1 = 1
  OBVIOUS
<1>4. QED
  BY <1>2, <1>3 DEF Left

\* A step with markers.
Marking == {"AFTERFIRST", "CLIMB", "SUFFIXES", "CHAIN", "LINK"}
\* A step with markers may be given while they fit.
LEMMA MarkWorks ==
    ASSUME NEW p, NEW u \in Int, NEW d \in Int, NEW n \in Nat, Works(p, u, d, n), 4 <= n,
           NEW step, step[1] \in Marking, Typed(step), \A m \in MarkersOf(step) : Handy(p, u, m)
    PROVE  /\ Works(Do(p, <<step>>), u, d, n)
           /\ \A v, o : Handy(p, v, o) /\ (\A m \in MarkersOf(step) : m <= o) => Handy(Do(p, <<step>>), v, o)
<1> DEFINE q == Do(p, <<step>>)
           T == Len(p.todo)
           level == Len(p.open) - u
           depth == p.depth - d
           z == [k \in Nat |-> 0]
<1>1. /\ Ready(p, level, depth) /\ T \in Nat /\ Len(p.open) \in Nat /\ p.depth \in Nat /\ DOMAIN p = Attributes /\ IsSeq(p.todo)
      /\ EndsRight(p.todo) /\ n <= T /\ level \in Nat /\ depth \in Nat
  BY PendingFacts DEF Works, Ready, Shape
<1>2. IsSeq(<<step>>) /\ Len(<<step>>) = 1 /\ Left(<<step>>, 1) = step
  BY OneStep
<1>3. Course(<<step>>, z, z)
  <2>1. z \in [Nat -> Nat] /\ \A k \in Nat : z[k] = 0
    OBVIOUS
  <2> HIDE DEF z
  <2>2. Falls(step, z[1], z[0], z[1], z[0])
    BY <2>1 DEF Falls, Marking
  <2>3. \A k \in 1..1 : k = 1 /\ k - 1 = 0
    OBVIOUS
  <2>4. QED
    BY <1>2, <2>1, <2>2, <2>3 DEF Course
<1>4. z[1] = 0
  OBVIOUS
<1>5. SameBut(p, q, {"todo"}) /\ q.todo = <<step>> \o p.todo
  BY <1>1 DEF SameBut, Attributes, Do
<1>6. Precede(<<step>>, p.todo, q.todo)
  BY <1>1, <1>2, <1>5, ConcatLeft
<1>7. /\ Len(q.todo) = 1 + T
      /\ \A k \in 1..T : Left(q.todo, k) = Left(p.todo, k)
      /\ Left(q.todo, T + 1) = step
  BY <1>2, <1>6 DEF Precede
<1>8. EndsRight(q.todo)
  <2>1. 1 \in 1..T /\ 2 \in 1..T /\ 3 \in 1..T /\ 4 \in 1..T /\ 1 <= T /\ 2 <= T /\ 3 <= T /\ 4 <= T
    BY <1>1
  <2>2. QED
    BY <1>1, <1>7, <2>1 DEF EndsRight
<1>9. 1 <= T
  BY <1>1
<1> HIDE DEF q, depth, z
<1>10. Ready(q, level + z[Len(<<step>>)], depth + z[Len(<<step>>)])
  <2>1. \A k \in 1..Len(<<step>>) : \A m \in MarkersOf(Left(<<step>>, k)) :
             z[k] = 0 /\ Fits(p, level, m) /\ (\A o \in Marked(p.todo) : o <= m) /\ Ordered(<<step>>, k, m)
    <3>1. \A k \in 1..1 : k = 1 /\ ~ \E j : j \in 1..(k - 1)
      OBVIOUS
    <3>2. QED
      BY <1>2, <1>4, <3>1 DEF Handy, Ordered
  <2> HIDE DEF level
  <2>2. QED
    BY <1>1, <1>3, <1>5, <1>8, <1>9, <2>1, DoReady DEF q
<1>11. q.open = p.open /\ q.depth = p.depth /\ q.built = p.built /\ q.tokens = p.tokens /\ q.pos = p.pos
  BY <1>5 DEF SameBut, Attributes
<1>12. Works(q, u, d, n)
  <2>1. n <= Len(q.todo)
    BY <1>1, <1>7
  <2>2. level + 0 = level /\ depth + 0 = depth
    BY <1>1
  <2>3. QED
    BY <1>2, <1>4, <1>10, <1>11, <2>1, <2>2 DEF Works, depth
<1>13. Marked(q.todo) \subseteq Marked(p.todo) \cup MarkersOf(step)
  <2> SUFFICES ASSUME NEW o \in Marked(q.todo) PROVE o \in Marked(p.todo) \cup MarkersOf(step)
    OBVIOUS
  <2>1. PICK k \in 1..Len(q.todo) : o \in MarkersOf(Left(q.todo, k))
    BY DEF Marked
  <2>2. CASE k \in 1..T
    BY <1>7, <2>1, <2>2 DEF Marked
  <2>3. CASE k = T + 1
    BY <1>7, <2>1, <2>3
  <2>4. k \in 1..T \/ k = T + 1
    <3> HIDE DEF T
    <3>1. QED
      BY <1>1, <1>7
  <2>5. QED
    BY <2>2, <2>3, <2>4
<1>14. \A l, m : Fits(p, l, m) => Fits(q, l, m)
  BY <1>11 DEF Fits, Clean
<1>15. \A v, o : Handy(p, v, o) /\ (\A m \in MarkersOf(step) : m <= o) => Handy(q, v, o)
  BY <1>11, <1>13, <1>14 DEF Handy
<1>16. QED
  BY <1>12, <1>15 DEF q

------------------------------------------------------------------------------
\* Sequences with the same elements, and one element more.
LEMMA SeqSame ==
    ASSUME NEW P, NEW s \in Seq(P), NEW t \in Seq(P), Len(s) = Len(t), \A i \in 1..Len(s) : s[i] = t[i]
    PROVE  s = t
OBVIOUS

\* One element at the end, two ways.
LEMMA OneMore ==
    ASSUME NEW P, NEW s \in Seq(P), NEW c \in P
    PROVE  s \o <<c>> = Append(s, c)
OBVIOUS

\* Lists written out, put together one element at a time.
LEMMA Two == ASSUME NEW a, NEW b PROVE <<a>> \o <<b>> = <<a, b>>
<1> DEFINE P == {a, b}
           s == Append(<<a>>, b)
<1>1. s \in Seq(P) /\ <<a, b>> \in Seq(P)
  OBVIOUS
<1>2. Len(s) = 2 /\ Len(<<a, b>>) = 2 /\ \A i \in 1..2 : s[i] = <<a, b>>[i]
  OBVIOUS
<1>3. s = <<a, b>>
  BY <1>1, <1>2, SeqSame
<1>4. <<a>> \in Seq(P) /\ b \in P
  OBVIOUS
<1>5. QED
  BY <1>3, <1>4, OneMore

\* Of three.
LEMMA Three == ASSUME NEW a, NEW b, NEW c PROVE <<a, b>> \o <<c>> = <<a, b, c>>
<1> DEFINE P == {a, b, c}
           s == Append(<<a, b>>, c)
<1>1. s \in Seq(P) /\ <<a, b, c>> \in Seq(P)
  OBVIOUS
<1>2. Len(s) = 3 /\ Len(<<a, b, c>>) = 3 /\ \A i \in 1..3 : s[i] = <<a, b, c>>[i]
  OBVIOUS
<1>3. s = <<a, b, c>>
  BY <1>1, <1>2, SeqSame
<1>4. <<a, b>> \in Seq(P) /\ c \in P
  OBVIOUS
<1>5. QED
  BY <1>3, <1>4, OneMore

\* Of four.
LEMMA Four == ASSUME NEW a, NEW b, NEW c, NEW d PROVE <<a, b, c>> \o <<d>> = <<a, b, c, d>>
<1> DEFINE P == {a, b, c, d}
           s == Append(<<a, b, c>>, d)
<1>1. s \in Seq(P) /\ <<a, b, c, d>> \in Seq(P)
  OBVIOUS
<1>2. Len(s) = 4 /\ Len(<<a, b, c, d>>) = 4 /\ \A i \in 1..4 : s[i] = <<a, b, c, d>>[i]
  OBVIOUS
<1>3. s = <<a, b, c, d>>
  BY <1>1, <1>2, SeqSame
<1>4. <<a, b, c>> \in Seq(P) /\ d \in P
  OBVIOUS
<1>5. QED
  BY <1>3, <1>4, OneMore

\* Of five.
LEMMA Five == ASSUME NEW a, NEW b, NEW c, NEW d, NEW e PROVE <<a, b, c, d>> \o <<e>> = <<a, b, c, d, e>>
<1> DEFINE P == {a, b, c, d, e}
           s == Append(<<a, b, c, d>>, e)
<1>1. s \in Seq(P) /\ <<a, b, c, d, e>> \in Seq(P)
  OBVIOUS
<1>2. Len(s) = 5 /\ Len(<<a, b, c, d, e>>) = 5 /\ \A i \in 1..5 : s[i] = <<a, b, c, d, e>>[i]
  OBVIOUS
<1>3. s = <<a, b, c, d, e>>
  BY <1>1, <1>2, SeqSame
<1>4. <<a, b, c, d>> \in Seq(P) /\ e \in P
  OBVIOUS
<1>5. QED
  BY <1>3, <1>4, OneMore

\* Of six.
LEMMA Six == ASSUME NEW a, NEW b, NEW c, NEW d, NEW e, NEW f PROVE <<a, b, c, d, e>> \o <<f>> = <<a, b, c, d, e, f>>
<1> DEFINE P == {a, b, c, d, e, f}
           s == Append(<<a, b, c, d, e>>, f)
<1>1. s \in Seq(P) /\ <<a, b, c, d, e, f>> \in Seq(P)
  OBVIOUS
<1>2. Len(s) = 6 /\ Len(<<a, b, c, d, e, f>>) = 6 /\ \A i \in 1..6 : s[i] = <<a, b, c, d, e, f>>[i]
  OBVIOUS
<1>3. s = <<a, b, c, d, e, f>>
  BY <1>1, <1>2, SeqSame
<1>4. <<a, b, c, d, e>> \in Seq(P) /\ f \in P
  OBVIOUS
<1>5. QED
  BY <1>3, <1>4, OneMore

\* Three lists may be put together in either order.
LEMMA ConcatAssoc ==
    ASSUME NEW s, NEW t, NEW w, IsSeq(s), IsSeq(t), IsSeq(w)
    PROVE  (s \o t) \o w = s \o (t \o w)
<1>1. PICK A : s \in Seq(A)
  BY DEF IsSeq
<1>2. PICK B : t \in Seq(B)
  BY DEF IsSeq
<1>3. PICK D : w \in Seq(D)
  BY DEF IsSeq
<1> DEFINE P == A \cup B \cup D
<1>4. s \in Seq(P) /\ t \in Seq(P) /\ w \in Seq(P)
  BY <1>1, <1>2, <1>3
<1> HIDE DEF P
<1>5. QED
  BY <1>4

------------------------------------------------------------------------------
\* Runs of steps, put together.
LEMMA RunsSeq ==
    ASSUME NEW s, NEW a, NEW b, Runs(s, a, b)
    PROVE  IsSeq(s) /\ Len(s) \in Nat /\ a \in Nat /\ b \in Nat
<1>1. PICK r, e : Course(s, r, e) /\ r[Len(s)] = a /\ e[Len(s)] = b
  BY DEF Runs
<1>2. IsSeq(s) /\ r \in [Nat -> Nat] /\ e \in [Nat -> Nat]
  BY <1>1 DEF Course
<1>3. QED
  BY <1>1, <1>2, SeqFacts

\* Steps that start nothing, finish nothing and wrap nothing leave all that alone.
LEMMA QuietRuns ==
    ASSUME NEW s, IsSeq(s), \A i \in 1..Len(s) : s[i][1] \notin Special
    PROVE  Runs(s, 0, 0)
<1> DEFINE z == [k \in Nat |-> 0]
<1>1. Len(s) \in Nat
  BY SeqFacts
<1>2. \A k \in 1..Len(s) : Left(s, k)[1] \notin Special
  <2> SUFFICES ASSUME NEW k \in 1..Len(s) PROVE Left(s, k)[1] \notin Special
    OBVIOUS
  <2>1. Len(s) + 1 - k \in 1..Len(s)
    BY <1>1
  <2>2. QED
    BY <2>1 DEF Left
<1>3. z \in [Nat -> Nat] /\ \A k \in Nat : z[k] = 0
  OBVIOUS
<1> HIDE DEF z
<1>4. \A x : x[1] \notin Special => Typed(x) /\ Falls(x, 0, 0, 0, 0) /\ MarkersOf(x) = {}
  BY DEF Typed, Falls, MarkersOf, Special
<1>5. \A k \in 1..Len(s) : z[k] = 0 /\ z[k - 1] = 0
  BY <1>1, <1>3
<1>6. Course(s, z, z)
  BY <1>2, <1>3, <1>4, <1>5 DEF Course
<1>7. z[Len(s)] = 0
  BY <1>1, <1>3
<1>8. QED
  BY <1>2, <1>4, <1>6, <1>7 DEF Runs

\* One list after the other finishes and gives back what both do.
LEMMA ConcatRuns ==
    ASSUME NEW s, NEW a, NEW b, Runs(s, a, b), NEW t, NEW c, NEW d, Runs(t, c, d)
    PROVE  Runs(s \o t, a + c, b + d)
<1> DEFINE m == Len(s)
           n == Len(t)
           w == s \o t
<1>1. PICK r, e : Course(s, r, e) /\ r[m] = a /\ e[m] = b
  BY DEF Runs
<1>2. PICK rr, ee : Course(t, rr, ee) /\ rr[n] = c /\ ee[n] = d
  BY DEF Runs
<1>3. Precede(s, t, w)
  BY <1>1, <1>2, ConcatLeft DEF Course
<1>4. /\ m \in Nat /\ n \in Nat /\ IsSeq(w) /\ Len(w) = m + n
      /\ \A k \in 1..n : Left(w, k) = Left(t, k)
      /\ \A k \in 1..m : Left(w, n + k) = Left(s, k)
  BY <1>3 DEF Precede
<1>5. a \in Nat /\ b \in Nat /\ c \in Nat /\ d \in Nat
  BY RunsSeq
<1>6. /\ r \in [Nat -> Nat] /\ e \in [Nat -> Nat] /\ r[0] = 0 /\ e[0] = 0
      /\ \A k \in 1..m : Typed(Left(s, k)) /\ Falls(Left(s, k), r[k], r[k - 1], e[k], e[k - 1])
  BY <1>1 DEF Course
<1>7. /\ rr \in [Nat -> Nat] /\ ee \in [Nat -> Nat] /\ rr[0] = 0 /\ ee[0] = 0
      /\ \A k \in 1..n : Typed(Left(t, k)) /\ Falls(Left(t, k), rr[k], rr[k - 1], ee[k], ee[k - 1])
  BY <1>2 DEF Course
<1>8. /\ \A k \in 1..m : MarkersOf(Left(s, k)) = {}
      /\ \A k \in 1..n : MarkersOf(Left(t, k)) = {}
  BY DEF Runs
<1> DEFINE x == [k \in Nat |-> IF k <= n THEN rr[k] ELSE c + r[k - n]]
           y == [k \in Nat |-> IF k <= n THEN ee[k] ELSE d + e[k - n]]
<1> HIDE DEF m, n, w
<1>9. \A k \in Nat : ~(k <= n) => r[k - n] \in Nat /\ e[k - n] \in Nat
  <2>1. \A k \in Nat : ~(k <= n) => k - n \in Nat
    BY <1>4
  <2>2. QED
    BY <1>6, <2>1
<1>10. x \in [Nat -> Nat] /\ y \in [Nat -> Nat]
  <2>1. \A k \in Nat : ~(k <= n) => c + r[k - n] \in Nat /\ d + e[k - n] \in Nat
    BY <1>5, <1>9, SumIs
  <2>2. QED
    BY <1>7, <2>1
<1>11. \A k \in 0..n : x[k] = rr[k] /\ y[k] = ee[k]
  BY <1>4
<1>12. \A j \in 0..m : x[n + j] = c + r[j] /\ y[n + j] = d + e[j]
  <2> SUFFICES ASSUME NEW j \in 0..m PROVE x[n + j] = c + r[j] /\ y[n + j] = d + e[j]
    OBVIOUS
  <2>0. n + j \in Nat /\ n \in 0..n
    BY <1>4
  <2>1. CASE j = 0
    <3>1. n + j = n /\ c + 0 = c /\ d + 0 = d
      BY <1>4, <1>5, <2>1
    <3>4. rr[n] = c /\ ee[n] = d
      BY <1>2 DEF n
    <3>2. x[n] = c /\ y[n] = d
      BY <1>11, <2>0, <3>4
    <3>3. QED
      BY <1>6, <2>0, <2>1, <3>1, <3>2
  <2>2. CASE j # 0
    <3>1. ~(n + j <= n) /\ n + j - n = j
      BY <1>4, <2>2
    <3>2. QED
      BY <2>0, <3>1
  <2>3. QED
    BY <2>1, <2>2
<1> HIDE DEF x, y
<1>13. ASSUME NEW k \in 1..(m + n)
       PROVE  /\ Typed(Left(w, k)) /\ Falls(Left(w, k), x[k], x[k - 1], y[k], y[k - 1])
              /\ MarkersOf(Left(w, k)) = {}
  <2>1. CASE k \in 1..n
    <3>1. k \in 0..n /\ k - 1 \in 0..n
      BY <1>4, <2>1
    <3>2. QED
      BY <1>4, <1>7, <1>8, <1>11, <2>1, <3>1
  <2>2. CASE ~(k \in 1..n)
    <3> DEFINE j == k - n
    <3>1. j \in 1..m /\ k = n + j /\ j - 1 \in 0..m /\ j \in 0..m /\ k - 1 = n + (j - 1)
      BY <1>4, <2>2
    <3> HIDE DEF j
    <3>2. /\ x[k] = c + r[j] /\ x[k - 1] = c + r[j - 1] /\ y[k] = d + e[j] /\ y[k - 1] = d + e[j - 1]
          /\ Left(w, k) = Left(s, j)
      BY <1>4, <1>12, <3>1
    <3>7. j \in Nat /\ j - 1 \in Nat
      BY <1>4, <3>1
    <3>3. r[j] \in Nat /\ r[j - 1] \in Nat /\ e[j] \in Nat /\ e[j - 1] \in Nat
      BY <1>6, <3>7
    <3>4. Typed(Left(s, j)) /\ Falls(Left(s, j), r[j], r[j - 1], e[j], e[j - 1]) /\ MarkersOf(Left(s, j)) = {}
      BY <1>6, <1>8, <3>1
    <3>5. Falls(Left(s, j), c + r[j], c + r[j - 1], d + e[j], d + e[j - 1])
      <4>1. r[j - 1] = r[j] + 1 => c + r[j - 1] = c + r[j] + 1
        BY <1>5, <3>3
      <4>2. r[j] = r[j - 1] + 1 => c + r[j] = c + r[j - 1] + 1
        BY <1>5, <3>3
      <4>3. e[j] = e[j - 1] + 1 => d + e[j] = d + e[j - 1] + 1
        BY <1>5, <3>3
      <4>4. QED
        BY <3>4, <4>1, <4>2, <4>3 DEF Falls
    <3>6. QED
      BY <3>2, <3>4, <3>5
  <2>3. QED
    BY <2>1, <2>2
<1>14. x[0] = 0 /\ y[0] = 0 /\ x[m + n] = a + c /\ y[m + n] = b + d
  <2>1. 0 \in 0..n /\ m \in 0..m /\ m + n = n + m
    BY <1>4
  <2>2. x[0] = 0 /\ y[0] = 0 /\ x[m + n] = c + r[m] /\ y[m + n] = d + e[m]
    BY <1>7, <1>11, <1>12, <2>1
  <2>3. r[m] = a /\ e[m] = b /\ c + a = a + c /\ d + b = b + d
    BY <1>1, <1>5 DEF m
  <2>4. QED
    BY <2>2, <2>3
<1>15. Course(w, x, y)
  BY <1>4, <1>10, <1>13, <1>14 DEF Course
<1>16. QED
  BY <1>4, <1>13, <1>14, <1>15 DEF Runs, w

\* FINISH finishes one node.
LEMMA FinishRuns == Runs(<< <<"FINISH">> >>, 1, 0)
<1> DEFINE s == << <<"FINISH">> >>
           r == [k \in Nat |-> k]
           z == [k \in Nat |-> 0]
<1>1. IsSeq(s) /\ Len(s) = 1 /\ Left(s, 1) = <<"FINISH">>
  BY OneStep
<1>2. r \in [Nat -> Nat] /\ z \in [Nat -> Nat] /\ r[0] = 0 /\ r[1] = 1 /\ z[0] = 0 /\ z[1] = 0
  OBVIOUS
<1> HIDE DEF r, z, s
<1>3. \A k \in 1..1 : k = 1 /\ k - 1 = 0
  OBVIOUS
<1>4. Typed(<<"FINISH">>) /\ Falls(<<"FINISH">>, 1, 0, 0, 0) /\ MarkersOf(<<"FINISH">>) = {}
  BY DEF Typed, Falls, MarkersOf
<1>5. Course(s, r, z)
  BY <1>1, <1>2, <1>3, <1>4 DEF Course
<1>6. Runs(s, 1, 0)
  BY <1>1, <1>2, <1>3, <1>4, <1>5 DEF Runs
<1>7. QED
  BY <1>6 DEF s

\* LEAVE gives back one level of depth.
LEMMA LeaveRuns == Runs(<< <<"LEAVE">> >>, 0, 1)
<1> DEFINE s == << <<"LEAVE">> >>
           r == [k \in Nat |-> k]
           z == [k \in Nat |-> 0]
<1>1. IsSeq(s) /\ Len(s) = 1 /\ Left(s, 1) = <<"LEAVE">>
  BY OneStep
<1>2. r \in [Nat -> Nat] /\ z \in [Nat -> Nat] /\ r[0] = 0 /\ r[1] = 1 /\ z[0] = 0 /\ z[1] = 0
  OBVIOUS
<1> HIDE DEF r, z, s
<1>3. \A k \in 1..1 : k = 1 /\ k - 1 = 0
  OBVIOUS
<1>4. Typed(<<"LEAVE">>) /\ Falls(<<"LEAVE">>, 0, 0, 1, 0) /\ MarkersOf(<<"LEAVE">>) = {}
  BY DEF Typed, Falls, MarkersOf
<1>5. Course(s, z, r)
  BY <1>1, <1>2, <1>3, <1>4 DEF Course
<1>6. Runs(s, 0, 1)
  BY <1>1, <1>2, <1>3, <1>4, <1>5 DEF Runs
<1>7. QED
  BY <1>6 DEF s

\* START opens one of those finished behind it.
LEMMA StartRuns ==
    ASSUME NEW kind \in Kinds, NEW t, NEW a, NEW b, Runs(t, a, b), 1 <= a
    PROVE  Runs(<< <<"START", kind>> >> \o t, a - 1, b)
<1> DEFINE step == <<"START", kind>>
           n == Len(t)
           w == <<step>> \o t
<1>1. IsSeq(<<step>>) /\ Len(<<step>>) = 1 /\ Left(<<step>>, 1) = step
  BY OneStep
<1>2. PICK rr, ee : Course(t, rr, ee) /\ rr[n] = a /\ ee[n] = b
  BY DEF Runs
<1>3. Precede(<<step>>, t, w)
  BY <1>1, <1>2, ConcatLeft DEF Course
<1>4. /\ n \in Nat /\ IsSeq(w) /\ Len(w) = 1 + n /\ (\A k \in 1..n : Left(w, k) = Left(t, k)) /\ Left(w, n + 1) = step
  BY <1>1, <1>3 DEF Precede
<1>5. a \in Nat /\ b \in Nat
  BY RunsSeq
<1>6. /\ rr \in [Nat -> Nat] /\ ee \in [Nat -> Nat] /\ rr[0] = 0 /\ ee[0] = 0
      /\ \A k \in 1..n : Typed(Left(t, k)) /\ Falls(Left(t, k), rr[k], rr[k - 1], ee[k], ee[k - 1])
  BY <1>2 DEF Course
<1>7. \A k \in 1..n : MarkersOf(Left(t, k)) = {}
  BY DEF Runs
<1> DEFINE x == [k \in Nat |-> IF k <= n THEN rr[k] ELSE a - 1]
           y == [k \in Nat |-> IF k <= n THEN ee[k] ELSE b]
<1>15. step[1] = "START" /\ step[2] = kind
  OBVIOUS
<1>16. rr[n] = a /\ ee[n] = b
  BY <1>2
<1> HIDE DEF step, n, w
<1>8. x \in [Nat -> Nat] /\ y \in [Nat -> Nat]
  <2>1. a - 1 \in Nat
    BY <1>5
  <2>2. QED
    BY <1>5, <1>6, <2>1
<1>9. \A k \in 0..n : x[k] = rr[k] /\ y[k] = ee[k]
  BY <1>4
<1>10. x[n + 1] = a - 1 /\ y[n + 1] = b
  <2>1. n + 1 \in Nat /\ ~(n + 1 <= n)
    BY <1>4
  <2>2. QED
    BY <2>1
<1> HIDE DEF x, y
<1>11. ASSUME NEW k \in 1..(1 + n)
       PROVE  /\ Typed(Left(w, k)) /\ Falls(Left(w, k), x[k], x[k - 1], y[k], y[k - 1])
              /\ MarkersOf(Left(w, k)) = {}
  <2>1. CASE k \in 1..n
    <3>1. k \in 0..n /\ k - 1 \in 0..n
      BY <1>4, <2>1
    <3>2. QED
      BY <1>4, <1>6, <1>7, <1>9, <2>1, <3>1
  <2>2. CASE k = n + 1
    <3>1. k - 1 = n /\ n \in 0..n
      BY <1>4, <2>2
    <3>2. x[k] = a - 1 /\ x[k - 1] = a /\ y[k] = b /\ y[k - 1] = b /\ Left(w, k) = step
      BY <1>4, <1>9, <1>10, <1>16, <2>2, <3>1
    <3>3. a = a - 1 + 1
      BY <1>5
    <3>4. Typed(step) /\ Falls(step, a - 1, a, b, b) /\ MarkersOf(step) = {}
      BY <1>15, <3>3 DEF Typed, Falls, MarkersOf
    <3>5. QED
      BY <3>2, <3>4
  <2>3. QED
    BY <1>4, <2>1, <2>2
<1>12. x[0] = 0 /\ y[0] = 0 /\ x[Len(w)] = a - 1 /\ y[Len(w)] = b
  <2>1. 0 \in 0..n /\ Len(w) = n + 1
    BY <1>4
  <2>2. QED
    BY <1>6, <1>9, <1>10, <2>1
<1>13. Course(w, x, y)
  BY <1>4, <1>8, <1>11, <1>12 DEF Course
<1>14. Runs(w, a - 1, b)
  BY <1>4, <1>11, <1>12, <1>13 DEF Runs
<1>17. QED
  BY <1>14 DEF w, step

\* A node around steps that leave all alone leaves all alone.
LEMMA WithinRuns ==
    ASSUME NEW kind \in Kinds, NEW s, Runs(s, 0, 0)
    PROVE  Runs(Within(kind, s), 0, 0)
<1> DEFINE start == << <<"START", kind>> >>
           finish == << <<"FINISH">> >>
<1>1. IsSeq(start) /\ IsSeq(s) /\ IsSeq(finish)
  BY OneStep, RunsSeq
<1>2. Within(kind, s) = start \o s \o finish
  BY DEF Within, Finish
<1>3. (start \o s) \o finish = start \o (s \o finish)
  <2> HIDE DEF start, finish
  <2>1. QED
    BY <1>1, ConcatAssoc
<1>4. Runs(finish, 1, 0)
  BY FinishRuns
<1>5. Runs(s \o finish, 0 + 1, 0 + 0)
  <2> HIDE DEF finish
  <2>1. QED
    BY <1>4, ConcatRuns
<1>6. Runs(s \o finish, 1, 0)
  <2> HIDE DEF finish
  <2>1. 0 + 1 = 1 /\ 0 + 0 = 0
    OBVIOUS
  <2>2. QED
    BY <1>5, <2>1
<1>7. Runs(start \o (s \o finish), 1 - 1, 0)
  <2> HIDE DEF finish
  <2>1. QED
    BY <1>6, StartRuns
<1>8. 1 - 1 = 0
  OBVIOUS
<1> HIDE DEF start, finish
<1>9. QED
  BY <1>2, <1>3, <1>7, <1>8

\* Two lists that leave all alone do so together.
LEMMA BothRun ==
    ASSUME NEW s, NEW t, Runs(s, 0, 0), Runs(t, 0, 0)
    PROVE  Runs(s \o t, 0, 0)
<1>1. Runs(s \o t, 0 + 0, 0 + 0)
  BY ConcatRuns
<1>2. 0 + 0 = 0
  OBVIOUS
<1>3. QED
  BY <1>1, <1>2

\* The words of a rule start, finish and wrap nothing.
LEMMA WordsAreQuiet == \A w \in Words : w \notin Special
BY DEF Words, Special

\* Nor does a list of words,
LEMMA PlainRuns ==
    ASSUME NEW names \in Seq(Words)
    PROVE  Runs(Plain(names), 0, 0)
<1> DEFINE s == Plain(names)
           n == Len(names)
<1>1. n \in Nat /\ DOMAIN names = 1..n /\ \A i \in 1..n : names[i] \in Words
  OBVIOUS
<1>2. s = [i \in 1..n |-> <<names[i]>>]
  BY <1>1 DEF Plain
<1>3. IsSeq(s) /\ Len(s) = n
  <2>1. s = [i \in 1..n |-> s[i]]
    BY <1>2
  <2> HIDE DEF s, n
  <2>2. QED
    BY <1>1, <2>1, TableFacts
<1>4. \A i \in 1..n : s[i][1] \notin Special
  <2> SUFFICES ASSUME NEW i \in 1..n PROVE s[i][1] \notin Special
    OBVIOUS
  <2>1. s[i] = <<names[i]>>
    BY <1>2
  <2>2. s[i][1] = names[i]
    BY <2>1
  <2>3. QED
    BY <1>1, <2>2, WordsAreQuiet
<1>5. QED
  BY <1>3, <1>4, QuietRuns

\* one step of that kind,
LEMMA OneRuns ==
    ASSUME NEW x, x[1] \notin Special
    PROVE  Runs(<<x>>, 0, 0)
<1>1. IsSeq(<<x>>) /\ Len(<<x>>) = 1
  BY OneStep
<1>2. \A i \in 1..1 : <<x>>[i] = x
  OBVIOUS
<1>3. QED
  BY <1>1, <1>2, QuietRuns

\* or a whole rule,
LEMMA RuleRuns ==
    ASSUME NEW kind \in Kinds, NEW names \in Seq(Words)
    PROVE  Runs(Rule(kind, names), 0, 0)
BY PlainRuns, WithinRuns DEF Rule

\* inside a node.
LEMMA NodeRuns ==
    ASSUME NEW kind \in Kinds, NEW names \in Seq(Words)
    PROVE  Runs(Node(kind, names), 0, 0)
<1>1. <<"GOT", kind>>[1] = "GOT"
  OBVIOUS
<1>2. "GOT" \notin Special
  BY DEF Special
<1>3. Runs(<< <<"GOT", kind>> >>, 0, 0)
  BY <1>1, <1>2, OneRuns
<1>4. QED
  BY <1>3, RuleRuns, BothRun DEF Node

\* A few steps that leave all that alone.
LEMMA TwoRun ==
    ASSUME NEW a, NEW b, a[1] \notin Special, b[1] \notin Special
    PROVE  Runs(<<a, b>>, 0, 0)
<1>1. Runs(<<a>> \o <<b>>, 0, 0)
  BY OneRuns, BothRun
<1>2. QED
  BY <1>1, Two

\* Of three steps.
LEMMA ThreeRun ==
    ASSUME NEW a, NEW b, NEW c, a[1] \notin Special, b[1] \notin Special, c[1] \notin Special
    PROVE  Runs(<<a, b, c>>, 0, 0)
<1>1. Runs(<<a, b>> \o <<c>>, 0, 0)
  BY OneRuns, TwoRun, BothRun
<1>2. QED
  BY <1>1, Three

------------------------------------------------------------------------------
(***************************************************************************)
(* The operations the rules of the grammar are made of.                    *)
(***************************************************************************)
LEMMA StartWorks ==
    ASSUME NEW p, NEW u \in Int, NEW d \in Int, NEW n \in Nat, Works(p, u, d, n), NEW kind \in Kinds
    PROVE  Works(StartNode(p, kind), u + 1, d, n) /\ StartNode(p, kind).todo = p.todo
<1> DEFINE f == FlushTrivia(p)
<1>1. p.open # <<>>
  BY PendingFacts DEF Works, Shape
<1>2. StartNode(p, kind) = StartNodeAt(f, Len(f.built), kind)
  BY <1>1 DEF StartNode, StartFlushed
<1>3. Works(f, u, d, n) /\ Handy(f, 0, Len(f.built)) /\ f.todo = p.todo
  BY BumpWorks
<1> HIDE DEF f
<1>4. QED
  BY <1>2, <1>3, StartAtWorks

\* expect, whether the token is there or not.
LEMMA ExpectWorks ==
    ASSUME NEW p, NEW u \in Int, NEW d \in Int, NEW n \in Nat, Works(p, u, d, n), NEW k
    PROVE  Works(Expect(p, k), u, d, n)
<1>1. Works(Bump(p), u, d, n)
  BY BumpWorks
<1>2. Works(Error(p, k), u, d, n)
  BY SayWorks
<1>3. QED
  BY <1>1, <1>2 DEF Expect

\* Steps that leave all alone may be given at any time.
LEMMA DoQuiet ==
    ASSUME NEW p, NEW u \in Int, NEW d \in Int, NEW n \in Nat, Works(p, u, d, n), 4 <= n, NEW steps, Runs(steps, 0, 0)
    PROVE  Works(Do(p, steps), u, d, n) /\ \A v, m : Handy(p, v, m) => Handy(Do(p, steps), v, m)
<1>1. d - 0 = d /\ u - 0 = u /\ 0 \in Int
  OBVIOUS
<1>2. p.depth - d <= DepthLimit
  BY DEF Works
<1>3. p.depth - (d - 0) <= DepthLimit
  BY <1>1, <1>2
<1>4. /\ Works(Do(p, steps), u - 0, d - 0, n)
      /\ \A v, m : Handy(p, v, m) => Handy(Do(p, steps), v, m)
  BY <1>1, <1>3, DoWorks
<1>5. QED
  BY <1>1, <1>4

\* Steps that finish so many nodes.
LEMMA DoFinish ==
    ASSUME NEW p, NEW u \in Int, NEW d \in Int, NEW n \in Nat, Works(p, u, d, n), 4 <= n, NEW steps, Runs(steps, u, 0)
    PROVE  Works(Do(p, steps), 0, d, n)
<1>1. d - 0 = d /\ u - u = 0 /\ 0 \in Int
  OBVIOUS
<1>2. p.depth - d <= DepthLimit
  BY DEF Works
<1>3. p.depth - (d - 0) <= DepthLimit
  BY <1>1, <1>2
<1>4. Works(Do(p, steps), u - u, d - 0, n)
  BY <1>1, <1>3, DoWorks
<1>5. QED
  BY <1>1, <1>4

\* Words given only before a token of one kind.
LEMMA IfWorks ==
    ASSUME NEW p, NEW u \in Int, NEW d \in Int, NEW n \in Nat, Works(p, u, d, n), 4 <= n, NEW k, NEW names \in Seq(Words)
    PROVE  Works(If(p, k, names), u, d, n)
<1>1. Works(Bump(p), u, d, n)
  BY BumpWorks
<1>2. Runs(Plain(names), 0, 0)
  BY PlainRuns
<1>3. Works(Do(Bump(p), Plain(names)), u, d, n)
  BY <1>1, <1>2, DoQuiet
<1>4. QED
  BY <1>3 DEF If

\* bump_into_error_node starts a node and finishes it.
LEMMA ErrorNodeWorks ==
    ASSUME NEW p, NEW d \in Int, NEW n \in Nat, Works(p, 0, d, n), 1 <= n
    PROVE  Works(BumpIntoErrorNode(p), 0, d, n) /\ BumpIntoErrorNode(p).todo = p.todo
<1> DEFINE s == StartNode(p, "ERROR_NODE")
           b == Bump(s)
           f == FinishNode(b)
<1>1. "ERROR_NODE" \in Kinds
  BY DEF Kinds
<1>2. 0 + 1 = 1 /\ 1 - 1 = 0
  OBVIOUS
<1>3. Works(s, 1, d, n) /\ s.todo = p.todo
  BY <1>1, <1>2, StartWorks
<1> HIDE DEF s
<1>4. Works(b, 1, d, n) /\ b.todo = p.todo
  BY <1>3, BumpWorks
<1> HIDE DEF b
<1>5. Works(f, 0, d, n) /\ SameBut(b, f, {"open", "built", "heights"})
  BY <1>2, <1>4, FinishWorks
<1>6. f.todo = p.todo
  BY <1>4, <1>5 DEF SameBut, Attributes
<1>7. QED
  BY <1>5, <1>6 DEF BumpIntoErrorNode, b, s

\* error_and_bump, with the error reported first.
LEMMA ErrorAndBumpWorks ==
    ASSUME NEW p, NEW d \in Int, NEW n \in Nat, Works(p, 0, d, n), 1 <= n
    PROVE  Works(ErrorAndBump(p), 0, d, n) /\ ErrorAndBump(p).todo = p.todo
<1>1. Works(Error(p, "unexpected"), 0, d, n) /\ Error(p, "unexpected").todo = p.todo
  BY SayWorks
<1>2. QED
  BY <1>1, ErrorNodeWorks DEF ErrorAndBump

\* depth_error reports once, and consumes a token.
LEMMA DepthErrorWorks ==
    ASSUME NEW p, NEW d \in Int, NEW n \in Nat, Works(p, 0, d, n), 1 <= n
    PROVE  Works(DepthError(p), 0, d, n)
<1> DEFINE said == "nestingLimit"
           e == Error(p, said)
           q == [e EXCEPT !.depthReported = TRUE]
<1> HIDE DEF said
<1>1. Works(e, 0, d, n)
  BY SayWorks
<1> HIDE DEF e
<1>2. DOMAIN e = Attributes
  BY <1>1, PendingFacts DEF Works
<1>3. SameBut(e, q, Said)
  BY <1>2 DEF SameBut, Attributes, Said
<1> HIDE DEF q
<1>4. Works(q, 0, d, n)
  BY <1>1, <1>3, QuietWorks
<1>5. Works(BumpIntoErrorNode(q), 0, d, n) /\ Works(BumpIntoErrorNode(p), 0, d, n)
  BY <1>4, ErrorNodeWorks
<1>6. DepthError(p) = BumpIntoErrorNode(IF p.depthReported THEN p ELSE q)
  BY Zenon DEF DepthError, q, e, said
<1>7. QED
  BY <1>5, <1>6


------------------------------------------------------------------------------
(***************************************************************************)
(* Between two operations of a step: what is open is finished and the      *)
(* depth taken given back by the steps left, the last four among them.     *)
(***************************************************************************)
Fine(p) == Works(p, 0, 0, 4)

\* The operations that open and finish nothing are fine.
LEMMA FineFacts ==
    ASSUME NEW p, Fine(p)
    PROVE  /\ Fine(Bump(p)) /\ Fine(FlushTrivia(p)) /\ Fine(TooComplex(p)) /\ Fine(ErrorAndBump(p))
           /\ \A w : Fine(Error(p, w)) /\ Fine(Got(p, w)) /\ Fine(Expect(p, w))
           /\ Handy(FlushTrivia(p), 0, Len(FlushTrivia(p).built))
<1>0. 0 \in Int /\ 4 \in Nat /\ 1 <= 4
  OBVIOUS
<1>1. Works(p, 0, 0, 4)
  BY DEF Fine
<1>2. Works(Bump(p), 0, 0, 4) /\ Works(FlushTrivia(p), 0, 0, 4) /\ Handy(FlushTrivia(p), 0, Len(FlushTrivia(p).built))
  BY <1>0, <1>1, BumpWorks
<1>3. ASSUME NEW w PROVE Works(Error(p, w), 0, 0, 4) /\ Works(Got(p, w), 0, 0, 4) /\ Works(TooComplex(p), 0, 0, 4)
  BY <1>0, <1>1, SayWorks
<1>4. ASSUME NEW w PROVE Works(Expect(p, w), 0, 0, 4)
  BY <1>0, <1>1, ExpectWorks
<1>5. Works(ErrorAndBump(p), 0, 0, 4)
  BY <1>0, <1>1, ErrorAndBumpWorks
<1>6. QED
  BY <1>2, <1>3, <1>4, <1>5, Zenon DEF Fine

\* Fine steps to do are as fine as the parser they are given.
LEMMA FineDo ==
    ASSUME NEW p, Fine(p), NEW steps, Runs(steps, 0, 0)
    PROVE  Fine(Do(p, steps))
<1>0. 0 \in Int /\ 4 \in Nat /\ 4 <= 4
  OBVIOUS
<1>1. Works(p, 0, 0, 4)
  BY DEF Fine
<1>2. Works(Do(p, steps), 0, 0, 4)
  BY <1>0, <1>1, DoQuiet
<1>3. QED
  BY <1>2 DEF Fine

\* So is giving words before a token of one kind.
LEMMA FineIf ==
    ASSUME NEW p, Fine(p), NEW k, NEW names \in Seq(Words)
    PROVE  Fine(If(p, k, names))
<1>0. 0 \in Int /\ 4 \in Nat /\ 4 <= 4
  OBVIOUS
<1>1. Works(p, 0, 0, 4)
  BY DEF Fine
<1>2. Works(If(p, k, names), 0, 0, 4)
  BY <1>0, <1>1, IfWorks
<1>3. QED
  BY <1>2 DEF Fine

\* Two lists of steps are given one after the other.
LEMMA DoTwice ==
    ASSUME NEW p, NEW u, NEW d, NEW n, Works(p, u, d, n), NEW s, NEW t, IsSeq(s), IsSeq(t)
    PROVE  Do(p, s \o t) = Do(Do(p, t), s)
<1>1. DOMAIN p = Attributes /\ IsSeq(p.todo)
  BY PendingFacts DEF Works, Shape, Ready
<1> DEFINE a == Do(p, s \o t)
           q == Do(p, t)
           b == Do(q, s)
<1>2. a = [p EXCEPT !.todo = (s \o t) \o p.todo]
  BY DEF Do
<1>3. q = [p EXCEPT !.todo = t \o p.todo]
  BY DEF Do
<1>4. q.todo = t \o p.todo /\ DOMAIN q = Attributes
  BY <1>1, <1>3 DEF Attributes
<1>5. b = [q EXCEPT !.todo = s \o (t \o p.todo)]
  BY <1>4 DEF Do
<1>6. (s \o t) \o p.todo = s \o (t \o p.todo)
  <2> DEFINE w == p.todo
  <2>1. IsSeq(w)
    BY <1>1
  <2> HIDE DEF w
  <2>2. (s \o t) \o w = s \o (t \o w)
    BY <2>1, ConcatAssoc
  <2>3. QED
    BY <2>2 DEF w
<1> DEFINE x == s \o (t \o p.todo)
           y == t \o p.todo
<1>7. a = [p EXCEPT !.todo = x] /\ q = [p EXCEPT !.todo = y] /\ b = [q EXCEPT !.todo = x]
  BY <1>2, <1>3, <1>5, <1>6
<1> HIDE DEF x, y, a, b, q
<1>8. a = b
  BY <1>1, <1>7 DEF Attributes
<1>9. QED
  BY <1>8 DEF a, b, q

\* A step with markers, given behind steps that finish so many nodes.
LEMMA MarkedDo ==
    ASSUME NEW p, NEW u \in Int, NEW d \in Int, NEW n \in Nat, Works(p, u, d, n), 4 <= n,
           NEW step, step[1] \in Marking, Typed(step), \A m \in MarkersOf(step) : Handy(p, u, m),
           NEW steps, Runs(steps, u, 0)
    PROVE  Works(Do(p, steps \o <<step>>), 0, d, n)
<1> DEFINE q == Do(p, <<step>>)
<1>1. Works(q, u, d, n)
  BY MarkWorks
<1>2. IsSeq(<<step>>) /\ IsSeq(steps)
  BY OneStep, RunsSeq
<1>3. Do(p, steps \o <<step>>) = Do(q, steps)
  BY <1>2, DoTwice
<1> HIDE DEF q
<1>4. Works(Do(q, steps), 0, d, n)
  BY <1>1, DoFinish
<1>5. QED
  BY <1>3, <1>4

\* A step with markers that fit, behind steps that leave all alone.
LEMMA FineMarked ==
    ASSUME NEW p, Fine(p), NEW step, step[1] \in Marking, Typed(step), \A m \in MarkersOf(step) : Handy(p, 0, m),
           NEW steps, Runs(steps, 0, 0)
    PROVE  Fine(Do(p, steps \o <<step>>))
<1>0. 0 \in Int /\ 4 \in Nat /\ 4 <= 4
  OBVIOUS
<1>1. Works(p, 0, 0, 4)
  BY DEF Fine
<1>2. Works(Do(p, steps \o <<step>>), 0, 0, 4)
  BY <1>0, <1>1, MarkedDo
<1>3. QED
  BY <1>2 DEF Fine

\* A node is opened at a marker, and finished by the steps in front of another
\* step with that marker.
LEMMA FineWrapped ==
    ASSUME NEW p, Fine(p), NEW m, Handy(p, 0, m), NEW kind \in Kinds,
           NEW step, step[1] \in Marking, Typed(step), MarkersOf(step) = {m},
           NEW steps, Runs(steps, 1, 0)
    PROVE  Fine(Do(StartNodeAt(p, m, kind), steps \o <<step>>))
<1> DEFINE q == StartNodeAt(p, m, kind)
<1>0. 0 \in Int /\ 1 \in Int /\ 4 \in Nat /\ 4 <= 4 /\ 0 + 1 = 1
  OBVIOUS
<1>1. Works(p, 0, 0, 4)
  BY DEF Fine
<1>2. Works(q, 1, 0, 4) /\ Handy(q, 1, m)
  BY <1>0, <1>1, StartAtWorks
<1> HIDE DEF q
<1>3. \A o \in MarkersOf(step) : Handy(q, 1, o)
  BY <1>2
<1>4. Works(Do(q, steps \o <<step>>), 0, 0, 4)
  BY <1>0, <1>2, <1>3, MarkedDo
<1>5. QED
  BY <1>4 DEF Fine, q

\* What the markers of a step are.
LEMMA MarkersAre ==
    ASSUME NEW m \in Nat, NEW a, NEW b, NEW c
    PROVE  /\ Typed(<<"AFTERFIRST", m>>) /\ MarkersOf(<<"AFTERFIRST", m>>) = {m}
           /\ Typed(<<"CLIMB", m, a, b>>) /\ MarkersOf(<<"CLIMB", m, a, b>>) = {m}
           /\ Typed(<<"SUFFIXES", m, a>>) /\ MarkersOf(<<"SUFFIXES", m, a>>) = {m}
<1>1. Typed(<<"AFTERFIRST", m>>) /\ MarkersOf(<<"AFTERFIRST", m>>) = {m}
  BY DEF Typed, MarkersOf
<1>2. Typed(<<"CLIMB", m, a, b>>) /\ MarkersOf(<<"CLIMB", m, a, b>>) = {m}
  BY DEF Typed, MarkersOf
<1>3. Typed(<<"SUFFIXES", m, a>>) /\ MarkersOf(<<"SUFFIXES", m, a>>) = {m}
  BY DEF Typed, MarkersOf
<1>4. QED
  BY <1>1, <1>2, <1>3

------------------------------------------------------------------------------
(***************************************************************************)
(* The steps of statements.                                                *)
(***************************************************************************)
LEMMA BlockFine ==
    ASSUME NEW p, Fine(p), NEW top
    PROVE  Fine(Do(p, BlockOf(top)))
<1>1. Runs(<< <<"STATEMENTS", top, FALSE>> >>, 0, 0)
  <2>1. <<"STATEMENTS", top, FALSE>>[1] \notin Special
    BY DEF Special
  <2>2. QED
    BY <2>1, OneRuns
<1>2. "BLOCK" \in Kinds
  BY DEF Kinds
<1>3. Runs(BlockOf(top), 0, 0)
  BY <1>1, <1>2, WithinRuns DEF BlockOf
<1>4. QED
  BY <1>3, FineDo

\* function_body: parameters, a block and its end.
LEMMA BodyFine ==
    ASSUME NEW p, Fine(p)
    PROVE  Fine(Do(p, FunctionBody))
<1>1. <<"PARAMLIST", "BLOCK", "end">> \in Seq(Words)
  BY DEF Words
<1>2. QED
  BY <1>1, PlainRuns, FineDo DEF FunctionBody

\* block_statements, at the top of a file and inside a block.
LEMMA StatementsFine ==
    ASSUME NEW p, Fine(p), NEW top, NEW after
    PROVE  Fine(Statements(p, top, after))
<1> DEFINE again == << <<"STATEMENTS", top, after>> >>
           once(a) == << <<"STATEMENT">>, <<"STATEMENTS", top, a>> >>
           r == IF after THEN Error(p, "afterReturn") ELSE p
<1>1. Runs(again, 0, 0)
  <2>1. <<"STATEMENTS", top, after>>[1] \notin Special
    BY DEF Special
  <2>2. QED
    BY <2>1, OneRuns
<1>2. ASSUME NEW a PROVE Runs(once(a), 0, 0)
  <2>1. <<"STATEMENT">>[1] \notin Special /\ <<"STATEMENTS", top, a>>[1] \notin Special
    BY DEF Special
  <2>2. QED
    BY <2>1, TwoRun
<1> DEFINE a == At(p, "return") /\ ~TooDeep(p)
<1> DEFINE last == Do(r, once(a))
<1>3. \/ Statements(p, top, after) = p
      \/ Statements(p, top, after) = Do(ErrorAndBump(p), again)
      \/ Statements(p, top, after) = Do(Bump(p), again)
      \/ Statements(p, top, after) = last
  <2>1. Statements(p, top, after) =
          CASE At(p, Eof) -> p
            [] Current(p) \in BlockEnds -> IF top THEN Do(ErrorAndBump(p), again) ELSE p
            [] At(p, ";") -> Do(Bump(p), again)
            [] OTHER -> last
    BY Zenon DEF Statements
  <2> HIDE DEF again, last
  <2>2. QED
    BY <2>1
<1> HIDE DEF again, once, a
<1>4. Fine(r)
  BY FineFacts
<1>5. Fine(Do(ErrorAndBump(p), again)) /\ Fine(Do(Bump(p), again))
  BY <1>1, FineFacts, FineDo
<1> HIDE DEF r
<1>6. Fine(Do(r, once(a)))
  BY <1>2, <1>4, FineDo
<1>7. QED
  BY <1>3, <1>5, <1>6, Zenon

\* recover, from a token no statement starts with.
LEMMA RecoverFine ==
    ASSUME NEW p, Fine(p)
    PROVE  Fine(Recover(p))
<1>1. Runs(<< <<"RECOVER">> >>, 0, 0)
  <2>1. <<"RECOVER">>[1] \notin Special
    BY DEF Special
  <2>2. QED
    BY <2>1, OneRuns
<1>2. Fine(Do(Bump(p), << <<"RECOVER">> >>))
  BY <1>1, FineFacts, FineDo
<1>3. QED
  BY <1>2, Zenon DEF Recover

\* local_stmt's names and attributes.
LEMMA LocalNamesFine ==
    ASSUME NEW p, Fine(p)
    PROVE  Fine(LocalNames(p))
<1>1. Runs(<< <<"BUMP">> >>, 0, 0) /\ Runs(<< <<"NEXTLOCAL">> >>, 0, 0)
  <2>1. <<"BUMP">>[1] \notin Special /\ <<"NEXTLOCAL">>[1] \notin Special
    BY DEF Special
  <2>2. QED
    BY <2>1, OneRuns
<1>2. <<"BUMP", "name", ">">> \in Seq(Words) /\ <<"BUMP">> \in Seq(Words) /\ "NAME_ATTRIB" \in Kinds /\ "LOCAL_NAME" \in Kinds
  BY DEF Words, Kinds
<1> DEFINE attrib == Rule("NAME_ATTRIB", <<"BUMP", "name", ">">>)
<1>3. Runs(attrib, 0, 0) /\ Runs(Rule("LOCAL_NAME", <<"BUMP">>), 0, 0)
  BY <1>2, RuleRuns
<1> HIDE DEF attrib
<1>4. Runs(<< <<"BUMP">> >> \o attrib, 0, 0)
  BY <1>1, <1>3, BothRun
<1>5. Runs(Within("LOCAL_NAME", << <<"BUMP">> >> \o attrib), 0, 0)
  BY <1>2, <1>4, WithinRuns
<1>6. Runs(LocalName(p), 0, 0)
  BY <1>3, <1>5 DEF LocalName, attrib
<1>7. Runs(LocalName(p) \o << <<"NEXTLOCAL">> >>, 0, 0)
  BY <1>1, <1>6, BothRun
<1>8. Fine(Do(p, LocalName(p) \o << <<"NEXTLOCAL">> >>))
  BY <1>7, FineDo
<1>9. QED
  BY <1>8, FineFacts DEF LocalNames

\* if_stmt's clauses, before and after an else.
LEMMA ClausesFine ==
    ASSUME NEW p, Fine(p), NEW seen
    PROVE  Fine(Clauses(p, seen))
<1> DEFINE r == IF seen THEN Error(p, "duplicateElse") ELSE p
           x == Rule("ELSEIF_CLAUSE", <<"BUMP", "EXPR", "then", "BLOCK">>) \o << <<"CLAUSES", seen>> >>
           y == Rule("ELSE_CLAUSE", <<"BUMP", "BLOCK">>) \o << <<"CLAUSES", TRUE>> >>
<1>1. ASSUME NEW a PROVE Runs(<< <<"CLAUSES", a>> >>, 0, 0)
  <2>1. <<"CLAUSES", a>>[1] \notin Special
    BY DEF Special
  <2>2. QED
    BY <2>1, OneRuns
<1>2. /\ <<"BUMP", "EXPR", "then", "BLOCK">> \in Seq(Words) /\ <<"BUMP", "BLOCK">> \in Seq(Words)
      /\ "ELSEIF_CLAUSE" \in Kinds /\ "ELSE_CLAUSE" \in Kinds
  BY DEF Words, Kinds
<1>3. Runs(x, 0, 0) /\ Runs(y, 0, 0)
  BY <1>1, <1>2, RuleRuns, BothRun
<1>4. \/ Clauses(p, seen) = p
      \/ Clauses(p, seen) = Do(p, x)
      \/ Clauses(p, seen) = Do(r, y)
  BY DEF Clauses
<1> HIDE DEF x, y
<1>5. Fine(r)
  BY FineFacts
<1> HIDE DEF r
<1>6. Fine(Do(p, x)) /\ Fine(Do(r, y))
  BY <1>3, <1>5, FineDo
<1>7. QED
  BY <1>4, <1>6, Zenon

\* Names with a separator between them.
LEMMA NamesFine ==
    ASSUME NEW p, Fine(p), NEW separator
    PROVE  Fine(Names(p, separator))
<1>1. Runs(<< <<"name">>, <<"NAMES", separator>> >>, 0, 0)
  <2>1. <<"name">>[1] \notin Special /\ <<"NAMES", separator>>[1] \notin Special
    BY DEF Special
  <2>2. QED
    BY <2>1, TwoRun
<1>2. Fine(Do(Bump(p), << <<"name">>, <<"NAMES", separator>> >>))
  BY <1>1, FineFacts, FineDo
<1>3. QED
  BY <1>2 DEF Names

\* A node is started, and finished at once or by what is left.
LEMMA FineOpens ==
    ASSUME NEW p, Fine(p), NEW kind \in Kinds
    PROVE  /\ Works(StartNode(p, kind), 1, 0, 4)
           /\ \A m : Handy(p, 0, m) => LET q == StartNodeAt(p, m, kind) IN Works(q, 1, 0, 4) /\ Handy(q, 0, m)
<1>0. 0 \in Int /\ 4 \in Nat /\ 0 + 1 = 1
  OBVIOUS
<1>1. Works(p, 0, 0, 4)
  BY DEF Fine
<1>2. Works(StartNode(p, kind), 1, 0, 4)
  BY <1>0, <1>1, StartWorks
<1>3. ASSUME NEW m, Handy(p, 0, m)
      PROVE  Works(StartNodeAt(p, m, kind), 1, 0, 4) /\ Handy(StartNodeAt(p, m, kind), 0, m)
  BY <1>0, <1>1, <1>3, StartAtWorks
<1>4. QED
  BY <1>2, <1>3

\* And finished, by the operations here or the steps left.
LEMMA FineEnds ==
    ASSUME NEW p, NEW u \in Nat, Works(p, u, 0, 4)
    PROVE  /\ u = 1 => Fine(FinishNode(p)) /\ \A w : Fine(FinishNode(Error(p, w)))
           /\ \A steps : Runs(steps, u, 0) => Fine(Do(p, steps))
<1>0. 0 \in Int /\ 1 \in Int /\ u \in Int /\ 4 \in Nat /\ 1 <= 1 /\ 1 <= 4 /\ 4 <= 4 /\ 1 - 1 = 0
  OBVIOUS
<1>1. ASSUME NEW q, Works(q, 1, 0, 4) PROVE Works(FinishNode(q), 0, 0, 4)
  BY <1>0, <1>1, FinishWorks
<1>2. ASSUME NEW w PROVE Works(Error(p, w), u, 0, 4)
  BY <1>0, SayWorks
<1>3. ASSUME NEW steps, Runs(steps, u, 0) PROVE Works(Do(p, steps), 0, 0, 4)
  BY <1>0, <1>3, DoFinish
<1>4. QED
  BY <1>1, <1>2, <1>3 DEF Fine

\* Steps that leave all alone, and FINISH, finish one node.
LEMMA ThenFinish ==
    ASSUME NEW s, Runs(s, 0, 0)
    PROVE  Runs(s \o Finish, 1, 0)
<1>1. 0 + 1 = 1 /\ 0 + 0 = 0
  OBVIOUS
<1>2. Runs(s \o << <<"FINISH">> >>, 0 + 1, 0 + 0)
  BY FinishRuns, ConcatRuns
<1>3. QED
  BY <1>1, <1>2 DEF Finish

\* param_list.
LEMMA ParamListFine ==
    ASSUME NEW p, Fine(p)
    PROVE  Fine(ParamList(p))
<1> DEFINE q == StartNode(p, "PARAM_LIST")
           two == << <<"BUMP">>, <<"PARAMS">> >>
<1>1. "PARAM_LIST" \in Kinds /\ <<"BUMP">>[1] \notin Special /\ <<"PARAMS">>[1] \notin Special
  BY DEF Kinds, Special
<1>2. Works(q, 1, 0, 4)
  BY <1>1, FineOpens
<1>3. Runs(two, 0, 0)
  BY <1>1, TwoRun
<1> HIDE DEF q, two
<1>4. Runs(two \o Finish, 1, 0)
  BY <1>3, ThenFinish
<1>5. 1 \in Nat
  OBVIOUS
<1>6. Fine(Do(q, two \o Finish)) /\ Fine(FinishNode(Error(q, "(")))
  BY <1>2, <1>4, <1>5, FineEnds
<1>7. QED
  BY <1>6 DEF ParamList, q, two

\* Its parameters, one after the other.
LEMMA ParamsFine ==
    ASSUME NEW p, Fine(p)
    PROVE  Fine(Params(p)) /\ Fine(NextParam(p))
<1>1. "PARAM" \in Kinds /\ <<"BUMP">> \in Seq(Words) /\ <<"NEXTPARAM">>[1] \notin Special /\ <<"PARAMS">>[1] \notin Special
  BY DEF Kinds, Words, Special
<1>2. Runs(Rule("PARAM", <<"BUMP">>) \o << <<"NEXTPARAM">> >>, 0, 0)
  BY <1>1, RuleRuns, OneRuns, BothRun
<1>3. Runs(<< <<"PARAMS">> >>, 0, 0)
  BY <1>1, OneRuns
<1>4. Fine(Do(p, Rule("PARAM", <<"BUMP">>) \o << <<"NEXTPARAM">> >>))
  BY <1>2, FineDo
<1>5. Fine(Do(Bump(p), << <<"PARAMS">> >>))
  BY <1>3, FineFacts, FineDo
<1>6. QED
  BY <1>4, <1>5, FineFacts DEF Params, NextParam

\* A marker is a number of children.
LEMMA HandyIsNat == \A p, u, m : Handy(p, u, m) => m \in Nat
BY DEF Handy, Fits

\* expr_stmt: the node starts where trivia has been flushed.
LEMMA ExprStmtFine ==
    ASSUME NEW p, Fine(p)
    PROVE  Fine(ExprStmt(FlushTrivia(p)))
<1> DEFINE f == FlushTrivia(p)
           m == Len(f.built)
<1>1. Fine(f) /\ Handy(f, 0, m)
  BY FineFacts
<1> HIDE DEF f, m
<1>2. m \in Nat
  BY <1>1, HandyIsNat
<1>3. Typed(<<"AFTERFIRST", m>>) /\ MarkersOf(<<"AFTERFIRST", m>>) = {m} /\ <<"AFTERFIRST", m>>[1] \in Marking
  BY <1>2, MarkersAre DEF Marking
<1>4. <<"EXPRBP", 0>>[1] \notin Special
  BY DEF Special
<1>5. Runs(<< <<"EXPRBP", 0>> >>, 0, 0)
  BY <1>4, OneRuns
<1>6. Fine(Do(f, << <<"EXPRBP", 0>> >> \o << <<"AFTERFIRST", m>> >>))
  BY <1>1, <1>3, <1>5, FineMarked
<1>7. << <<"EXPRBP", 0>> >> \o << <<"AFTERFIRST", m>> >> = << <<"EXPRBP", 0>>, <<"AFTERFIRST", m>> >>
  BY Two
<1>8. QED
  BY <1>6, <1>7 DEF ExprStmt, f, m

\* Behind the first expression of a statement: an assignment or a call, wrapped at its marker.
LEMMA AfterFirstFine ==
    ASSUME NEW p, Fine(p), NEW m, Handy(p, 0, m)
    PROVE  Fine(AfterFirst(p, m))
<1> DEFINE a == StartNodeAt(p, m, "ASSIGN_STMT")
           b == StartNodeAt(a, m, "EXPR_LIST")
           c == StartNodeAt(p, m, "CALL_STMT")
           steps == << <<"TARGETS">>, <<"FINISH">>, <<"=">>, <<"EXPRS">>, <<"FINISH">> >>
<1>0. /\ 0 \in Int /\ 1 \in Int /\ 4 \in Nat /\ 1 + 1 = 2 /\ 0 + 0 = 0 /\ 0 + 1 = 1 /\ 1 + 0 = 1
      /\ 1 \in Nat /\ 2 \in Nat
  OBVIOUS
<1>1. "ASSIGN_STMT" \in Kinds /\ "EXPR_LIST" \in Kinds /\ "CALL_STMT" \in Kinds
  BY DEF Kinds
<1>2. Works(a, 1, 0, 4) /\ Handy(a, 0, m) /\ Works(c, 1, 0, 4)
  BY <1>1, FineOpens
<1> HIDE DEF a, c
<1>3. Works(b, 2, 0, 4)
  BY <1>0, <1>1, <1>2, StartAtWorks
<1> HIDE DEF b
<1>4. Runs(steps, 2, 0)
  <2>1. <<"TARGETS">>[1] \notin Special /\ <<"=">>[1] \notin Special /\ <<"EXPRS">>[1] \notin Special
    BY DEF Special
  <2> DEFINE f == <<"FINISH">> t == <<"TARGETS">> e == <<"=">> x == <<"EXPRS">>
  <2>2. Runs(<<f>>, 1, 0) /\ Runs(<<t>>, 0, 0) /\ Runs(<<e>>, 0, 0) /\ Runs(<<x>>, 0, 0)
    BY <2>1, FinishRuns, OneRuns
  <2> HIDE DEF f, t, e, x
  <2>3. Runs(<<t>> \o <<f>>, 1, 0)
    BY <1>0, <2>2, ConcatRuns
  <2>4. Runs(<<t, f>> \o <<e>>, 1, 0)
    BY <1>0, <2>2, <2>3, ConcatRuns, Two
  <2>5. Runs(<<t, f, e>> \o <<x>>, 1, 0)
    BY <1>0, <2>2, <2>4, ConcatRuns, Three
  <2>6. Runs(<<t, f, e, x>> \o <<f>>, 2, 0)
    BY <1>0, <2>2, <2>5, ConcatRuns, Four
  <2>7. Runs(<<t, f, e, x, f>>, 2, 0)
    BY <2>6, Five
  <2>8. QED
    BY <2>7 DEF f, t, e, x
<1> HIDE DEF steps
<1>5. Fine(Do(b, steps)) /\ Fine(FinishNode(c)) /\ Fine(FinishNode(Error(c, "assignmentOrCall")))
  BY <1>0, <1>2, <1>3, <1>4, FineEnds
<1>6. QED
  BY <1>5 DEF AfterFirst, a, b, c, steps

\* The further targets of an assignment.
LEMMA TargetsFine ==
    ASSUME NEW p, Fine(p)
    PROVE  /\ Fine(AfterTarget(p))
           /\ Fine(Do(Bump(p), << <<"EXPRBP", 0>>, <<"AFTERTARGET">> >>))
<1>1. <<"TARGETS">>[1] \notin Special /\ <<"EXPRBP", 0>>[1] \notin Special /\ <<"AFTERTARGET">>[1] \notin Special
  BY DEF Special
<1>2. Runs(<< <<"TARGETS">> >>, 0, 0) /\ Runs(<< <<"EXPRBP", 0>>, <<"AFTERTARGET">> >>, 0, 0)
  BY <1>1, OneRuns, TwoRun
<1>3. Fine(Do(p, << <<"TARGETS">> >>)) /\ Fine(Do(Bump(p), << <<"EXPRBP", 0>>, <<"AFTERTARGET">> >>))
  BY <1>2, FineFacts, FineDo
<1>4. QED
  BY <1>3, FineFacts DEF AfterTarget

\* Lists of four, five and six steps that leave all alone.
LEMMA SixRun ==
    ASSUME NEW a, NEW b, NEW c, NEW d, NEW e, NEW f,
           a[1] \notin Special, b[1] \notin Special, c[1] \notin Special,
           d[1] \notin Special, e[1] \notin Special, f[1] \notin Special
    PROVE  Runs(<<a, b, c, d>>, 0, 0) /\ Runs(<<a, b, c, d, e>>, 0, 0) /\ Runs(<<a, b, c, d, e, f>>, 0, 0)
<1>1. Runs(<<a, b, c>> \o <<d>>, 0, 0)
  BY OneRuns, ThreeRun, BothRun
<1>2. Runs(<<a, b, c, d>> \o <<e>>, 0, 0)
  BY <1>1, Four, OneRuns, BothRun
<1>3. Runs(<<a, b, c, d, e>> \o <<f>>, 0, 0)
  BY <1>2, Five, OneRuns, BothRun
<1>4. Runs(<<a, b, c, d>>, 0, 0)
  BY <1>1, Four
<1>5. Runs(<<a, b, c, d, e>>, 0, 0)
  BY <1>2, Five
<1>6. Runs(<<a, b, c, d, e, f>>, 0, 0)
  BY <1>3, Six
<1>7. QED
  BY <1>4, <1>5, <1>6

\* statement_inner, each keyword's rule.
LEMMA StatementRuns ==
    ASSUME NEW p
    PROVE  Runs(StatementInner(p), 0, 0)
<1> DEFINE expr == << <<"EXPRSTMT">> >>
<1>1. Runs(LocalFunctionStmt, 0, 0) /\ Runs(LocalStmt, 0, 0)
  <2>1. <<"BUMP", "BUMP", "name", "BODY">> \in Seq(Words) /\ <<"BUMP", "LOCALNAMES", "INIT">> \in Seq(Words)
    BY DEF Words
  <2>2. "LOCAL_FUNCTION_STMT" \in Kinds /\ "LOCAL_STMT" \in Kinds
    BY DEF Kinds
  <2>3. QED
    BY <2>1, <2>2, RuleRuns DEF LocalFunctionStmt, LocalStmt
<1>2. Runs(IfStmt, 0, 0)
  <2>1. /\ <<"BUMP">>[1] \notin Special /\ <<"EXPR">>[1] \notin Special /\ <<"then">>[1] \notin Special
        /\ <<"BLOCK">>[1] \notin Special /\ <<"CLAUSES", FALSE>>[1] \notin Special /\ <<"end">>[1] \notin Special
    BY DEF Special
  <2>2. Runs(<< <<"BUMP">>, <<"EXPR">>, <<"then">>, <<"BLOCK">>, <<"CLAUSES", FALSE>>, <<"end">> >>, 0, 0)
    BY <2>1, SixRun
  <2>3. "IF_STMT" \in Kinds
    BY DEF Kinds
  <2>4. QED
    BY <2>2, <2>3, WithinRuns DEF IfStmt
<1>3. Runs(WhileStmt, 0, 0) /\ Runs(DoStmt, 0, 0)
  <2>1. <<"BUMP", "EXPR", "do", "BLOCK", "end">> \in Seq(Words) /\ <<"BUMP", "BLOCK", "end">> \in Seq(Words)
    BY DEF Words
  <2>2. "WHILE_STMT" \in Kinds /\ "DO_STMT" \in Kinds
    BY DEF Kinds
  <2>3. QED
    BY <2>1, <2>2, RuleRuns DEF WhileStmt, DoStmt
<1>4. Runs(NumericForStmt, 0, 0)
  <2>1. <<"BUMP", "BUMP", "BUMP", "EXPR", ",", "EXPR", "STEP", "do", "BLOCK", "end">> \in Seq(Words)
    BY DEF Words
  <2>2. "NUMERIC_FOR_STMT" \in Kinds
    BY DEF Kinds
  <2>3. QED
    BY <2>1, <2>2, RuleRuns DEF NumericForStmt
<1>5. Runs(GenericForStmt, 0, 0)
  <2>1. <<"BUMP">>[1] \notin Special /\ <<"name">>[1] \notin Special /\ <<"NAMES", ",">>[1] \notin Special
    BY DEF Special
  <2>2. Runs(<< <<"BUMP">>, <<"name">>, <<"NAMES", ",">> >>, 0, 0)
    BY <2>1, ThreeRun
  <2>3. <<"in", "EXPRS", "do", "BLOCK", "end">> \in Seq(Words) /\ "GENERIC_FOR_STMT" \in Kinds
    BY DEF Words, Kinds
  <2>4. Runs(<< <<"BUMP">>, <<"name">>, <<"NAMES", ",">> >> \o Plain(<<"in", "EXPRS", "do", "BLOCK", "end">>), 0, 0)
    BY <2>2, <2>3, PlainRuns, BothRun
  <2>5. QED
    BY <2>3, <2>4, WithinRuns DEF GenericForStmt
<1>6. Runs(RepeatStmt, 0, 0) /\ Runs(ReturnStmt, 0, 0)
  <2>1. <<"BUMP", "BLOCK", "until", "EXPR">> \in Seq(Words) /\ <<"BUMP", "RESULTS", "SEMICOLON">> \in Seq(Words)
    BY DEF Words
  <2>2. "REPEAT_STMT" \in Kinds /\ "RETURN_STMT" \in Kinds
    BY DEF Kinds
  <2>3. QED
    BY <2>1, <2>2, RuleRuns DEF RepeatStmt, ReturnStmt
<1>7. Runs(FunctionDeclStmt, 0, 0)
  <2> DEFINE named == << <<"name">>, <<"NAMES", ".">>, <<"METHODNAME">> >>
             name == Within("FUNCTION_NAME", named)
  <2>1. /\ <<"name">>[1] \notin Special /\ <<"NAMES", ".">>[1] \notin Special /\ <<"METHODNAME">>[1] \notin Special
        /\ <<"BUMP">>[1] \notin Special /\ <<"BODY">>[1] \notin Special
    BY DEF Special
  <2>2. "FUNCTION_NAME" \in Kinds /\ "FUNCTION_DECL_STMT" \in Kinds
    BY DEF Kinds
  <2>3. Runs(named, 0, 0) /\ Runs(<< <<"BUMP">> >>, 0, 0) /\ Runs(<< <<"BODY">> >>, 0, 0)
    BY <2>1, ThreeRun, OneRuns
  <2> HIDE DEF named
  <2>4. Runs(name, 0, 0)
    BY <2>2, <2>3, WithinRuns
  <2> HIDE DEF name
  <2>5. Runs(<< <<"BUMP">> >> \o name, 0, 0)
    BY <2>3, <2>4, BothRun
  <2>6. Runs(<< <<"BUMP">> >> \o name \o << <<"BODY">> >>, 0, 0)
    BY <2>3, <2>5, BothRun
  <2>7. Runs(Within("FUNCTION_DECL_STMT", << <<"BUMP">> >> \o name \o << <<"BODY">> >>), 0, 0)
    BY <2>2, <2>6, WithinRuns
  <2>8. QED
    BY <2>7 DEF FunctionDeclStmt, name, named
<1>8. Runs(BreakStmt, 0, 0) /\ Runs(GotoStmt, 0, 0) /\ Runs(LabelStmt, 0, 0)
  <2>1. <<"BUMP">> \in Seq(Words) /\ <<"BUMP", "name">> \in Seq(Words) /\ <<"BUMP", "name", "::">> \in Seq(Words)
    BY DEF Words
  <2>2. "BREAK_STMT" \in Kinds /\ "GOTO_STMT" \in Kinds /\ "LABEL_STMT" \in Kinds
    BY DEF Kinds
  <2>3. QED
    BY <2>1, <2>2, RuleRuns DEF BreakStmt, GotoStmt, LabelStmt
<1>9. Runs(expr, 0, 0) /\ Runs(RecoverStmt, 0, 0)
  <2>1. <<"EXPRSTMT">>[1] \notin Special /\ <<"ERROR", "unexpected">>[1] \notin Special
    BY DEF Special
  <2>2. <<"RECOVER">> \in Seq(Words) /\ "ERROR_NODE" \in Kinds
    BY DEF Words, Kinds
  <2>3. Runs(<< <<"ERROR", "unexpected">> >>, 0, 0) /\ Runs(Rule("ERROR_NODE", <<"RECOVER">>), 0, 0)
    BY <2>1, <2>2, OneRuns, RuleRuns
  <2>4. QED
    BY <2>1, <2>3, OneRuns, BothRun DEF RecoverStmt
<1> DEFINE Good == {LocalFunctionStmt, LocalStmt, IfStmt, WhileStmt, DoStmt, NumericForStmt, GenericForStmt, RepeatStmt,
                    FunctionDeclStmt, ReturnStmt, BreakStmt, GotoStmt, LabelStmt, expr, RecoverStmt}
<1>10. StatementInner(p) \in Good
  BY DEF StatementInner
<1> HIDE DEF expr
<1>11. QED
  BY <1>1, <1>2, <1>3, <1>4, <1>5, <1>6, <1>7, <1>8, <1>9, <1>10

\* The depth is taken within the limit, and given back.
LEMMA FineDeep ==
    ASSUME NEW p, Fine(p)
    PROVE  /\ Works(Enter(p), 0, 1, 4)
           /\ ~TooDeep(p) => Enter(p).depth <= DepthLimit /\ Enter(p).depth \in Nat
<1>0. 0 \in Int /\ 4 \in Nat /\ 0 + 1 = 1
  OBVIOUS
<1>1. Works(p, 0, 0, 4)
  BY DEF Fine
<1>2. Works(Enter(p), 0, 1, 4) /\ Enter(p).depth = p.depth + 1
  BY <1>0, <1>1, DepthWorks
<1>3. p.depth \in Nat /\ p.maxDepth = DepthLimit /\ DepthLimit \in Nat
  BY <1>1, PendingFacts DEF Works, Shape
<1>4. ~TooDeep(p) => p.depth + 1 <= DepthLimit
  BY <1>3 DEF TooDeep
<1>5. QED
  BY <1>2, <1>3, <1>4

\* And given back within one operation.
LEMMA FineLeaves ==
    ASSUME NEW p, Works(p, 0, 1, 4)
    PROVE  Fine(Leave(p)) /\ \A w : Fine(Leave(Got(p, w)))
<1>0. 0 \in Int /\ 1 \in Int /\ 4 \in Nat /\ 1 <= 1 /\ 1 - 1 = 0
  OBVIOUS
<1>1. ASSUME NEW q, Works(q, 0, 1, 4) PROVE Works(Leave(q), 0, 0, 4)
  BY <1>0, <1>1, DepthWorks
<1>2. ASSUME NEW w PROVE Works(Got(p, w), 0, 1, 4)
  BY <1>0, SayWorks
<1>3. QED
  BY <1>1, <1>2 DEF Fine

\* Steps to do until the depth is given back.
LEMMA LeaveLast ==
    ASSUME NEW p, Works(p, 0, 1, 4), p.depth \in Nat, p.depth <= DepthLimit, NEW steps, IsSeq(steps)
    PROVE  LET q == Do(p, << <<"LEAVE">> >>)
           IN  /\ Fine(q) /\ Do(p, steps \o << <<"LEAVE">> >>) = Do(q, steps)
               /\ \A v, m : Handy(p, v, m) => Handy(q, v, m)
<1> DEFINE q == Do(p, << <<"LEAVE">> >>)
<1>0. 0 \in Int /\ 1 \in Int /\ 4 \in Nat /\ 4 <= 4 /\ 1 - 1 = 0 /\ 0 - 0 = 0
  OBVIOUS
<1>1. p.depth - (1 - 1) <= DepthLimit
  OBVIOUS
<1>2. Works(q, 0 - 0, 1 - 1, 4) /\ \A v, m : Handy(p, v, m) => Handy(q, v, m)
  BY <1>0, <1>1, LeaveRuns, DoWorks
<1>3. IsSeq(<< <<"LEAVE">> >>)
  BY OneStep
<1>4. Do(p, steps \o << <<"LEAVE">> >>) = Do(q, steps)
  BY <1>3, DoTwice
<1>5. Fine(q)
  BY <1>0, <1>2 DEF Fine
<1>6. QED
  BY <1>2, <1>4, <1>5

\* statement: the depth is taken around it, or the budget reported.
LEMMA StatementFine ==
    ASSUME NEW p, Fine(p)
    PROVE  Fine(Statement(p))
<1> DEFINE e == Enter(p)
           steps == StatementInner(p)
           q == Do(e, << <<"LEAVE">> >>)
<1>0. 1 \in Int /\ 4 \in Nat /\ 1 <= 4
  OBVIOUS
<1>1. Works(e, 0, 1, 4) /\ (~TooDeep(p) => e.depth <= DepthLimit /\ e.depth \in Nat)
  BY FineDeep
<1>2. Runs(steps, 0, 0)
  BY StatementRuns
<1> HIDE DEF e, steps
<1>3. IsSeq(steps)
  BY <1>2, RunsSeq
<1>4. Works(DepthError(e), 0, 1, 4)
  BY <1>0, <1>1, DepthErrorWorks
<1>5. Fine(Leave(DepthError(e)))
  BY <1>4, FineLeaves
<1>6. ASSUME ~TooDeep(p)
      PROVE  Fine(Do(e, steps \o << <<"LEAVE">> >>))
  <2>1. Fine(q) /\ Do(e, steps \o << <<"LEAVE">> >>) = Do(q, steps)
    BY <1>1, <1>3, <1>6, LeaveLast
  <2> HIDE DEF q
  <2>2. Fine(Do(q, steps))
    BY <1>2, <2>1, FineDo
  <2>3. QED
    BY <2>1, <2>2
<1>7. QED
  BY <1>5, <1>6 DEF Statement, e, steps

------------------------------------------------------------------------------
(***************************************************************************)
(* The steps of expressions.                                               *)
(***************************************************************************)
LEMMA FineListFirst ==
    ASSUME NEW p, Fine(p), NEW names \in Seq(Words), NEW kind \in Kinds
    PROVE  Fine(Do(p, Node(kind, names))) /\ Fine(Do(p, Plain(names)))
BY NodeRuns, PlainRuns, FineDo

\* expr_list, and what is required of an expression.
LEMMA ExprListFine ==
    ASSUME NEW p, Fine(p)
    PROVE  /\ Fine(ExprList(p)) /\ Fine(NextExpr(p)) /\ Fine(AfterExpr(p)) /\ Fine(Required(p))
           /\ Fine(Do(p, << <<"EXPRBP", 0>>, <<"REQUIRED">> >>))
<1> DEFINE q == StartNode(p, "EXPR_LIST")
<1>1. /\ "EXPR_LIST" \in Kinds /\ <<"NEXTEXPR">> \in Seq(Words) /\ <<"NEXTEXPR">>[1] \notin Special
      /\ <<"EXPRBP", 0>>[1] \notin Special /\ <<"AFTEREXPR">>[1] \notin Special /\ <<"REQUIRED">>[1] \notin Special
  BY DEF Kinds, Words, Special
<1>2. /\ Runs(<< <<"NEXTEXPR">> >>, 0, 0) /\ Runs(<< <<"EXPRBP", 0>>, <<"AFTEREXPR">> >>, 0, 0)
      /\ Runs(<< <<"EXPRBP", 0>>, <<"REQUIRED">> >>, 0, 0)
  BY <1>1, OneRuns, TwoRun
<1>3. Runs(<< <<"NEXTEXPR">> >> \o Finish, 1, 0)
  BY <1>2, ThenFinish
<1>4. Works(q, 1, 0, 4) /\ 1 \in Nat
  BY <1>1, FineOpens
<1> HIDE DEF q
<1>5. Fine(Do(q, << <<"NEXTEXPR">> >> \o Finish))
  BY <1>3, <1>4, FineEnds
<1>6. Fine(Do(p, << <<"EXPRBP", 0>>, <<"AFTEREXPR">> >>)) /\ Fine(Do(p, << <<"EXPRBP", 0>>, <<"REQUIRED">> >>))
  BY <1>2, FineDo
<1>7. Fine(If(p, ",", <<"NEXTEXPR">>))
  BY <1>1, FineIf
<1>8. Fine(Error(p, "expression"))
  BY FineFacts
<1>9. Fine(ExprList(p)) /\ Fine(NextExpr(p))
  BY <1>5, <1>6 DEF ExprList, NextExpr, q
<1>10. QED
  BY <1>6, <1>7, <1>8, <1>9 DEF AfterExpr, Required

\* expr_bp's first operand: a prefix operator, or a simple expression.
LEMMA FirstRuns ==
    ASSUME NEW p
    PROVE  Runs(IF Current(p) \in UnaryOps
                THEN Within("PREFIX_EXPR", << <<"BUMP">>, <<"EXPRBP", UnaryPower>>, <<"REQUIRED">> >>)
                       \o << <<"GOT", "PREFIX_EXPR">> >>
                ELSE << <<"SIMPLE">> >>, 0, 0)
<1> DEFINE inner == << <<"BUMP">>, <<"EXPRBP", UnaryPower>>, <<"REQUIRED">> >>
           within == Within("PREFIX_EXPR", inner)
<1>1. /\ <<"BUMP">>[1] \notin Special /\ <<"EXPRBP", UnaryPower>>[1] \notin Special /\ <<"REQUIRED">>[1] \notin Special
      /\ <<"GOT", "PREFIX_EXPR">>[1] \notin Special /\ <<"SIMPLE">>[1] \notin Special /\ "PREFIX_EXPR" \in Kinds
  BY DEF Kinds, Special
<1>2. Runs(inner, 0, 0) /\ Runs(<< <<"GOT", "PREFIX_EXPR">> >>, 0, 0) /\ Runs(<< <<"SIMPLE">> >>, 0, 0)
  BY <1>1, ThreeRun, OneRuns
<1> HIDE DEF inner
<1>3. Runs(within, 0, 0)
  BY <1>1, <1>2, WithinRuns
<1> HIDE DEF within
<1>4. Runs(within \o << <<"GOT", "PREFIX_EXPR">> >>, 0, 0)
  BY <1>2, <1>3, BothRun
<1>5. QED
  BY <1>2, <1>4 DEF within, inner

\* An expression from where trivia has been flushed, within the depth.
LEMMA ExprFromFine ==
    ASSUME NEW p, Works(p, 0, 1, 4), p.depth \in Nat, p.depth <= DepthLimit, Handy(p, 0, Len(p.built)), NEW limit
    PROVE  Fine(ExprFrom(p, limit))
<1> DEFINE x == IF Current(p) \in UnaryOps
                THEN Within("PREFIX_EXPR", << <<"BUMP">>, <<"EXPRBP", UnaryPower>>, <<"REQUIRED">> >>)
                       \o << <<"GOT", "PREFIX_EXPR">> >>
                ELSE << <<"SIMPLE">> >>
           m == Len(p.built)
           y == <<"CLIMB", m, limit, TRUE>>
           z == <<"LEAVE">>
           q == Do(p, <<z>>)
<1>1. Runs(x, 0, 0)
  BY FirstRuns
<1>2. ExprFrom(p, limit) = Do(p, x \o <<y, z>>)
  BY Zenon DEF ExprFrom
<1> HIDE DEF x
<1>3. IsSeq(x) /\ IsSeq(<<y>>) /\ IsSeq(<<z>>)
  BY <1>1, RunsSeq, OneStep
<1>4. Handy(p, 0, m)
  OBVIOUS
<1> HIDE DEF m
<1>5. m \in Nat
  BY <1>4, HandyIsNat
<1>6. Typed(y) /\ MarkersOf(y) = {m} /\ y[1] \in Marking
  BY <1>5, MarkersAre DEF Marking
<1> HIDE DEF y
<1>7. x \o <<y, z>> = (x \o <<y>>) \o <<z>>
  <2>1. <<y, z>> = <<y>> \o <<z>>
    BY Two
  <2>2. (x \o <<y>>) \o <<z>> = x \o (<<y>> \o <<z>>)
    BY <1>3, ConcatAssoc
  <2>3. QED
    BY <2>1, <2>2
<1>8. IsSeq(x \o <<y>>)
  BY <1>3, ConcatFacts DEF Joined
<1>9. /\ Fine(q) /\ Do(p, (x \o <<y>>) \o <<z>>) = Do(q, x \o <<y>>)
      /\ \A v, o : Handy(p, v, o) => Handy(q, v, o)
  BY <1>8, LeaveLast
<1> HIDE DEF q
<1>10. \A o \in MarkersOf(y) : Handy(q, 0, o)
  BY <1>4, <1>6, <1>9
<1>11. Fine(Do(q, x \o <<y>>))
  BY <1>1, <1>6, <1>9, <1>10, FineMarked
<1>12. QED
  BY <1>2, <1>7, <1>9, <1>11

\* expr_bp: the depth is taken around it, or the budget reported.
LEMMA ExprBpFine ==
    ASSUME NEW p, Fine(p), NEW limit
    PROVE  Fine(ExprBp(p, limit))
<1> DEFINE e == Enter(p)
           f == FlushTrivia(e)
<1>0. 0 \in Int /\ 1 \in Int /\ 4 \in Nat /\ 1 <= 4
  OBVIOUS
<1>1. Works(e, 0, 1, 4) /\ (~TooDeep(p) => e.depth <= DepthLimit /\ e.depth \in Nat)
  BY FineDeep
<1> HIDE DEF e
<1>2. Works(DepthError(e), 0, 1, 4)
  BY <1>0, <1>1, DepthErrorWorks
<1>3. Fine(Leave(Got(DepthError(e), "none")))
  BY <1>2, FineLeaves
<1>4. Works(f, 0, 1, 4) /\ Handy(f, 0, Len(f.built))
  BY <1>0, <1>1, BumpWorks
<1>5. f.depth = e.depth
  <2>1. SkipTriviaFrom(e.tokens, e.pos) \in e.pos..(Len(e.tokens) + 1)
    BY <1>1, SkipWorks
  <2>2. QED
    BY <1>0, <1>1, <2>1, PushWorks DEF FlushTrivia
<1> HIDE DEF f
<1>6. ~TooDeep(p) => Fine(ExprFrom(f, limit))
  BY <1>1, <1>4, <1>5, ExprFromFine
<1>7. QED
  BY <1>3, <1>6 DEF ExprBp, e, f

\* A binary expression wrapped at its left operand's marker.
LEMMA WrappedFine ==
    ASSUME NEW p, Fine(p), NEW m, Handy(p, 0, m), NEW limit, NEW fits
    PROVE  Fine(Wrapped(p, m, limit, fits))
<1> DEFINE q == StartNodeAt(p, m, "BIN_EXPR")
           t == TooComplex(p)
           b == <<"BUMP">>
           e == <<"EXPRBP", Power(Current(p))[2]>>
           r == <<"REQUIRED">>
           f == <<"FINISH">>
           g == <<"GOT", "BIN_EXPR">>
           h == <<"GOT", p.got>>
           c(x) == <<"CLIMB", m, limit, x>>
<1>0. m \in Nat
  BY HandyIsNat
<1>1. /\ b[1] \notin Special /\ e[1] \notin Special /\ r[1] \notin Special /\ g[1] \notin Special /\ h[1] \notin Special
      /\ "BIN_EXPR" \in Kinds
  BY DEF Special, Kinds
<1>2. ASSUME NEW x PROVE Typed(c(x)) /\ MarkersOf(c(x)) = {m} /\ c(x)[1] \in Marking
  BY <1>0, MarkersAre DEF Marking
<1>3. Wrapped(p, m, limit, fits) = IF fits THEN Do(q, <<b, e, r, f, g, c(TRUE)>>) ELSE Do(t, <<b, e, r, h, c(FALSE)>>)
  BY Zenon DEF Wrapped
<1>4. Fine(t) /\ Handy(t, 0, m)
  <2>1. 0 \in Int /\ 4 \in Nat /\ Works(p, 0, 0, 4)
    BY DEF Fine
  <2>2. Handy(t, 0, m)
    BY <2>1, SayWorks
  <2>3. QED
    BY <2>2, FineFacts
<1>5. Runs(<<f>>, 1, 0)
  BY FinishRuns
<1> HIDE DEF b, e, r, f, g, h, c, t
<1>6. Runs(<<b, e, r, f, g>>, 1, 0)
  <2>0. 0 + 1 = 1 /\ 1 + 0 = 1 /\ 0 + 0 = 0
    OBVIOUS
  <2>1. Runs(<<b, e, r>>, 0, 0) /\ Runs(<<g>>, 0, 0)
    BY <1>1, ThreeRun, OneRuns
  <2>2. Runs(<<b, e, r>> \o <<f>>, 1, 0)
    BY <1>5, <2>0, <2>1, ConcatRuns
  <2>3. Runs(<<b, e, r, f>>, 1, 0)
    BY <2>2, Four
  <2>4. Runs(<<b, e, r, f>> \o <<g>>, 1, 0)
    BY <2>0, <2>1, <2>3, ConcatRuns
  <2>5. QED
    BY <2>4, Five
<1>7. Fine(Do(q, <<b, e, r, f, g, c(TRUE)>>))
  <2>1. Fine(Do(q, <<b, e, r, f, g>> \o <<c(TRUE)>>))
    BY <1>1, <1>2, <1>6, FineWrapped
  <2>2. QED
    BY <2>1, Six
<1>8. Fine(Do(t, <<b, e, r, h, c(FALSE)>>))
  <2>1. Runs(<<b, e, r, h>>, 0, 0)
    BY <1>1, SixRun
  <2>2. \A o \in MarkersOf(c(FALSE)) : Handy(t, 0, o)
    BY <1>2, <1>4
  <2>3. Fine(Do(t, <<b, e, r, h>> \o <<c(FALSE)>>))
    BY <1>2, <1>4, <2>1, <2>2, FineMarked
  <2>4. QED
    BY <2>3, Five
<1>9. QED
  BY <1>3, <1>7, <1>8

\* What the markers of a chain are.
LEMMA ChainMarkers ==
    ASSUME NEW starts, NEW op, NEW b
    PROVE  MarkersOf(<<"CHAIN", starts, op, b>>) = {starts[i] : i \in DOMAIN starts}
<1>1. MarkersOf(<<"CHAIN", starts, op, b>>) = ToSet(starts)
  BY DEF MarkersOf
<1>2. QED
  BY <1>1, Zenon DEF ToSet

\* What the markers of a link are.
LEMMA LinkMarkers ==
    ASSUME NEW starts, NEW operand, NEW op, NEW b
    PROVE  MarkersOf(<<"LINK", starts, operand, op, b>>) = {starts[i] : i \in DOMAIN starts} \cup {operand}
<1>1. MarkersOf(<<"LINK", starts, operand, op, b>>) = ToSet(starts) \cup {operand}
  BY DEF MarkersOf
<1>2. QED
  BY <1>1, Zenon DEF ToSet

\* A chain's operands so far, each in the innermost open node and none before
\* the one it follows.
Rising(starts) == starts \in Seq(Nat) /\ starts # <<>> /\ \A i, j \in 1..Len(starts) : i <= j => starts[i] <= starts[j]
Chained(p, starts) == Rising(starts) /\ \A i \in 1..Len(starts) : Handy(p, 0, starts[i])

\* A chain may be given while its markers rise.
LEMMA ChainFine ==
    ASSUME NEW p, Fine(p), NEW starts, Chained(p, starts), NEW op, NEW b
    PROVE  Fine(Do(p, << <<"CHAIN", starts, op, b>> >>))
<1> DEFINE step == <<"CHAIN", starts, op, b>>
<1>0. 0 \in Int /\ 4 \in Nat /\ 4 <= 4
  OBVIOUS
<1>1. Typed(step) /\ step[1] \in Marking
  BY DEF Typed, Marking, Chained, Rising
<1>2. DOMAIN starts = 1..Len(starts)
  BY DEF Chained, Rising
<1>3. MarkersOf(step) = {starts[i] : i \in DOMAIN starts}
  BY ChainMarkers
<1>4. \A m \in MarkersOf(step) : Handy(p, 0, m)
  BY <1>2, <1>3 DEF Chained
<1> HIDE DEF step
<1>5. Works(p, 0, 0, 4)
  BY DEF Fine
<1>6. Works(Do(p, <<step>>), 0, 0, 4)
  BY <1>0, <1>1, <1>4, <1>5, MarkWorks
<1>7. QED
  BY <1>6 DEF Fine, step

\* The loop over the operators of expr_bp.
LEMMA ClimbFine ==
    ASSUME NEW p, Fine(p), NEW m, Handy(p, 0, m), NEW limit, NEW budget
    PROVE  Fine(Climb(p, m, limit, budget))
<1> DEFINE op == Current(p)
           c == <<"CLIMB", m, limit, budget>>
           h == <<"CHAIN", <<m>>, op, TRUE>>
           q == Do(p, <<c>>)
           chained == Do(p, <<h, c>>)
           w == Wrapped(p, m, limit, budget /\ CanWrap(p, m, 1))
<1>0. 0 \in Int /\ 4 \in Nat /\ 4 <= 4 /\ m \in Nat /\ Works(p, 0, 0, 4)
  BY HandyIsNat DEF Fine
<1>1. Typed(c) /\ MarkersOf(c) = {m} /\ c[1] \in Marking
  BY <1>0, MarkersAre DEF Marking
<1>2. Works(q, 0, 0, 4) /\ Handy(q, 0, m)
  <2> HIDE DEF c, q
  <2>1. /\ \A o \in MarkersOf(c) : Handy(p, 0, o)
        /\ \A o \in MarkersOf(c) : o <= m
    BY <1>0, <1>1
  <2>2. QED
    BY <1>0, <1>1, <2>1, MarkWorks DEF q
<1> HIDE DEF q
<1>3. Chained(q, <<m>>) /\ Fine(q)
  <2>1. <<m>> \in Seq(Nat) /\ <<m>> # <<>> /\ Len(<<m>>) = 1 /\ <<m>>[1] = m
    BY <1>0
  <2>2. Rising(<<m>>)
    BY <1>0, <2>1 DEF Rising
  <2>3. \A i \in 1..Len(<<m>>) : i = 1
    BY <2>1
  <2>4. Chained(q, <<m>>)
    BY <1>2, <2>1, <2>2, <2>3 DEF Chained
  <2>5. QED
    BY <1>2, <2>4 DEF Fine
<1>4. Fine(Do(q, <<h>>))
  BY <1>3, ChainFine
<1>5. <<h, c>> = <<h>> \o <<c>> /\ IsSeq(<<h>>) /\ IsSeq(<<c>>)
  BY Two, OneStep
<1>6. Fine(chained)
  <2> HIDE DEF h, c
  <2>1. Do(p, <<h>> \o <<c>>) = Do(q, <<h>>)
    BY <1>0, <1>5, DoTwice DEF q
  <2>2. QED
    BY <1>4, <1>5, <2>1
<1>7. Fine(w)
  BY WrappedFine
<1>8. \/ Climb(p, m, limit, budget) = p
      \/ Climb(p, m, limit, budget) = chained
      \/ Climb(p, m, limit, budget) = w
  <2>1. Climb(p, m, limit, budget) =
          CASE p.got = "none" \/ Power(op)[1] <= limit -> p
            [] p.got # "none" /\ Power(op)[1] > limit /\ RightAssoc(op) -> chained
            [] OTHER -> w
    BY Zenon DEF Climb
  <2> HIDE DEF op, chained, w
  <2>2. QED
    BY <2>1
<1> HIDE DEF chained, w
<1>9. QED
  BY <1>6, <1>7, <1>8

\* The right operand of an operator that associates to the right.
LEMMA OperandFine ==
    ASSUME NEW p, Fine(p), NEW starts, Chained(p, starts), Handy(p, 0, Len(p.built)), NEW op, NEW b
    PROVE  Fine(Operand(p, starts, op, b))
<1> DEFINE m == Len(p.built)
           step == <<"LINK", starts, m, op, b>>
           x == <<"EXPRBP", Power(op)[1]>>
           y == <<"REQUIRED">>
<1>1. m \in Nat /\ \A i \in 1..Len(starts) : starts[i] <= m
  BY HandyIsNat DEF Chained, Handy, Fits
<1>2. DOMAIN starts = 1..Len(starts)
  BY DEF Chained, Rising
<1>3. Handy(p, 0, m)
  OBVIOUS
<1>4. x[1] \notin Special /\ y[1] \notin Special
  BY DEF Special
<1>5. Operand(p, starts, op, b) = Do(p, <<x, y, step>>)
  BY Zenon DEF Operand
<1> HIDE DEF m, x, y
<1>6. Typed(step) /\ step[1] \in Marking
  BY <1>1 DEF Typed, Marking, Chained, Rising
<1>7. MarkersOf(step) = {starts[i] : i \in DOMAIN starts} \cup {m}
  BY LinkMarkers
<1> HIDE DEF step
<1>8. \A o \in MarkersOf(step) : Handy(p, 0, o)
  BY <1>2, <1>3, <1>7 DEF Chained
<1>9. Runs(<<x, y>>, 0, 0)
  BY <1>4, TwoRun
<1>10. Fine(Do(p, <<x, y>> \o <<step>>))
  BY <1>6, <1>8, <1>9, FineMarked
<1>11. QED
  BY <1>5, <1>10, Three

\* A chain, before each of its operands.
LEMMA ChainStepFine ==
    ASSUME NEW p, Fine(p), NEW starts, Chained(p, starts), NEW op, NEW b
    PROVE  Fine(Chain(p, starts, op, b))
<1> DEFINE q == Bump(p)
           f == FlushTrivia(q)
<1>0. 0 \in Int /\ 4 \in Nat /\ Works(p, 0, 0, 4)
  BY DEF Fine
<1>1. Works(q, 0, 0, 4) /\ \A m : Handy(p, 0, m) => Handy(q, 0, m)
  BY <1>0, BumpWorks
<1> HIDE DEF q
<1>2. Works(f, 0, 0, 4) /\ (\A m : Handy(q, 0, m) => Handy(f, 0, m)) /\ Handy(f, 0, Len(f.built))
  BY <1>0, <1>1, BumpWorks
<1> HIDE DEF f
<1>3. Chained(f, starts) /\ Fine(f)
  BY <1>1, <1>2 DEF Chained, Fine
<1>4. Fine(Operand(f, starts, op, b))
  BY <1>2, <1>3, OperandFine
<1>5. QED
  BY <1>4 DEF Chain, f, q

\* A chain of one more, and of as many when the budget is spent.
LEMMA LinkedFine ==
    ASSUME NEW p, Fine(p), NEW starts, Chained(p, starts), NEW m, Handy(p, 0, m), \A i \in 1..Len(starts) : starts[i] <= m,
           NEW op, NEW fits
    PROVE  Fine(Linked(p, starts, m, op, fits))
<1> DEFINE t == TooComplex(p)
           more == Append(starts, m)
<1>0. 0 \in Int /\ 4 \in Nat /\ Works(p, 0, 0, 4) /\ m \in Nat
  BY HandyIsNat DEF Fine
<1>1. Fine(t) /\ \A o : Handy(p, 0, o) => Handy(t, 0, o)
  BY <1>0, SayWorks, FineFacts
<1>2. Chained(t, starts)
  BY <1>1 DEF Chained
<1>3. Chained(p, more)
  <2>1. starts \in Seq(Nat) /\ Len(starts) \in Nat
    BY DEF Chained, Rising
  <2>2. /\ more \in Seq(Nat) /\ Len(more) = Len(starts) + 1 /\ more # <<>>
        /\ \A i \in 1..Len(starts) : more[i] = starts[i]
        /\ more[Len(starts) + 1] = m
    <3>1. IsSeq(starts)
      BY <2>1 DEF IsSeq
    <3>2. more \in Seq(Nat)
      BY <1>0, <2>1
    <3>3. IsSeq(more) /\ Len(more) = Len(starts) + 1
      BY <3>1, AppendFacts
    <3>4. /\ \A i \in 1..Len(starts) : more[i] = starts[i]
          /\ more[Len(starts) + 1] = m
      BY <3>1, AppendFacts
    <3> HIDE DEF more
    <3>5. more # <<>>
      BY <2>1, <3>3, SeqFacts
    <3>6. QED
      BY <3>2, <3>3, <3>4, <3>5
  <2> DEFINE n == Len(starts)
  <2> HIDE DEF more, n
  <2>3. \A i \in 1..(n + 1) : i \in 1..n \/ i = n + 1
    BY <2>1 DEF n
  <2>4. \A i, j \in 1..(n + 1) : i <= j => more[i] <= more[j]
    <3>1. TAKE i, j \in 1..(n + 1)
    <3>2. HAVE i <= j
    <3>3. CASE j \in 1..n
      <4>1. i \in 1..n
        BY <2>1, <3>2, <3>3 DEF n
      <4>2. QED
        BY <2>2, <3>2, <3>3, <4>1 DEF n, Chained, Rising
    <3>4. CASE j = n + 1 /\ i \in 1..n
      BY <2>2, <3>4 DEF n
    <3>5. CASE j = n + 1 /\ i = n + 1
      BY <1>0, <2>2, <3>5 DEF n
    <3>6. QED
      BY <2>3, <3>3, <3>4, <3>5
  <2>5. \A i \in 1..(n + 1) : Handy(p, 0, more[i])
    BY <2>2, <2>3 DEF n, Chained
  <2>6. Len(more) = n + 1
    BY <2>2 DEF n
  <2>7. QED
    BY <2>2, <2>4, <2>5, <2>6 DEF Chained, Rising
<1> HIDE DEF t, more
<1>4. Fine(Do(p, << <<"CHAIN", more, op, fits>> >>)) /\ Fine(Do(t, << <<"CHAIN", starts, op, fits>> >>))
  BY <1>1, <1>2, <1>3, ChainFine
<1>5. CASE fits
  BY <1>4, <1>5 DEF Linked, more
<1>6. CASE ~fits
  BY <1>4, <1>6 DEF Linked, t
<1>7. QED
  BY <1>5, <1>6

\* The nodes of a chain, so many of them.
Levels(starts, n) == [i \in 1..n |-> [kind |-> "BIN_EXPR", first |-> starts[i]]]
OpenedBy(p, starts, n) == [p EXCEPT !.open = @ \o Levels(starts, n)]

\* An inner node may still start behind the one just opened.
LEMMA StartAtHandy ==
    ASSUME NEW p, NEW u, NEW d, NEW n, Works(p, u, d, n), NEW m, Handy(p, 0, m), NEW o, Handy(p, 0, o), m <= o, NEW kind
    PROVE  Handy(StartNodeAt(p, m, kind), 0, o)
<1> DEFINE q == StartNodeAt(p, m, kind)
           x == [kind |-> kind, first |-> m]
           k == Len(p.open)
<1>1. DOMAIN p = Attributes /\ p.open \in Seq(Opener) /\ k \in Nat
  BY PendingFacts DEF Works, Shape
<1>2. q = [p EXCEPT !.open = Append(p.open, x)]
  BY DEF StartNodeAt
<1>3. /\ q.open = Append(p.open, x) /\ q.built = p.built /\ q.tokens = p.tokens /\ q.pos = p.pos /\ q.todo = p.todo
  BY <1>1, <1>2 DEF Attributes
<1>4. IsSeq(p.open)
  BY <1>1 DEF IsSeq
<1>5. Len(q.open) = k + 1 /\ q.open[k + 1] = x
  BY <1>3, <1>4, AppendFacts
<1>6. x.first = m
  OBVIOUS
<1> HIDE DEF q, x, k
<1>7. o \in Nat /\ o <= Len(p.built) /\ Clean(p, o) /\ \A w \in Marked(p.todo) : w <= o
  BY DEF Handy, Fits
<1>8. Clean(q, o)
  BY <1>3, <1>7 DEF Clean
<1>9. k + 1 - 0 = k + 1 /\ k + 1 \in 1..(k + 1) /\ ~(k + 1 < k + 1)
  BY <1>1
<1>10. Fits(q, Len(q.open) - 0, o)
  BY <1>3, <1>5, <1>6, <1>7, <1>8, <1>9 DEF Fits
<1>11. QED
  BY <1>3, <1>7, <1>10 DEF Handy, q

\* A marker is not disturbed by what is reported.
LEMMA QuietHandy ==
    ASSUME NEW p, NEW q, SameBut(p, q, Said), NEW v, NEW m, Handy(p, v, m)
    PROVE  Handy(q, v, m)
<1>1. q.open = p.open /\ q.built = p.built /\ q.tokens = p.tokens /\ q.pos = p.pos /\ q.todo = p.todo
  BY DEF SameBut, Attributes, Said
<1>2. QED
  BY <1>1 DEF Handy, Fits, Clean

\* The nodes of a chain, at their starts.
LEMMA LevelFacts ==
    ASSUME NEW starts \in Seq(Nat), NEW n \in 0..Len(starts)
    PROVE  /\ Levels(starts, n) \in Seq(Opener) /\ Len(Levels(starts, n)) = n
           /\ \A i \in 1..n : Levels(starts, n)[i] = [kind |-> "BIN_EXPR", first |-> starts[i]]
<1>1. n \in Nat /\ \A i \in 1..n : starts[i] \in Nat
  OBVIOUS
<1>2. "BIN_EXPR" \in Kinds
  BY DEF Kinds
<1>3. \A i \in 1..n : [kind |-> "BIN_EXPR", first |-> starts[i]] \in Opener
  BY <1>1, <1>2 DEF Opener
<1>4. Levels(starts, n) \in [1..n -> Opener]
  BY <1>3 DEF Levels
<1>5. QED
  BY <1>1, <1>4 DEF Levels

\* Opening the nodes of a chain is opening them one by one.
LEMMA OpenedNext ==
    ASSUME NEW p, NEW u, NEW d, NEW k, Works(p, u, d, k), NEW starts \in Seq(Nat), NEW n \in 1..Len(starts)
    PROVE  OpenedBy(p, starts, n) = StartNodeAt(OpenedBy(p, starts, n - 1), starts[n], "BIN_EXPR")
<1> DEFINE a == OpenedBy(p, starts, n - 1)
           x == [kind |-> "BIN_EXPR", first |-> starts[n]]
           s == Levels(starts, n - 1)
           t == Levels(starts, n)
<1>1. DOMAIN p = Attributes /\ p.open \in Seq(Opener)
  BY PendingFacts DEF Works, Shape
<1>2. n - 1 \in 0..Len(starts) /\ n \in 0..Len(starts) /\ n \in Nat /\ starts[n] \in Nat /\ (n - 1) + 1 = n
  OBVIOUS
<1>3. /\ s \in Seq(Opener) /\ Len(s) = n - 1 /\ \A i \in 1..(n - 1) : s[i] = [kind |-> "BIN_EXPR", first |-> starts[i]]
      /\ t \in Seq(Opener) /\ Len(t) = n /\ \A i \in 1..n : t[i] = [kind |-> "BIN_EXPR", first |-> starts[i]]
  BY <1>2, LevelFacts
<1>4. x \in Opener
  <2>1. "BIN_EXPR" \in Kinds
    BY DEF Kinds
  <2>2. QED
    BY <1>2, <2>1 DEF Opener
<1> HIDE DEF s
<1>5. Append(s, x) = t
  <2>1. IsSeq(s)
    BY <1>3 DEF IsSeq
  <2>2. Len(Append(s, x)) = n /\ Append(s, x)[n] = x /\ \A i \in 1..(n - 1) : Append(s, x)[i] = s[i]
    BY <1>2, <1>3, <2>1, AppendFacts
  <2>3. Append(s, x) \in Seq(Opener)
    BY <1>3, <1>4
  <2>4. ASSUME NEW i \in 1..n PROVE Append(s, x)[i] = t[i]
    <3>1. CASE i = n
      BY <1>3, <2>2, <3>1
    <3>2. CASE i \in 1..(n - 1)
      <4>1. Append(s, x)[i] = s[i]
        BY <2>2, <3>2
      <4>2. s[i] = [kind |-> "BIN_EXPR", first |-> starts[i]]
        BY <1>3, <3>2
      <4>3. t[i] = [kind |-> "BIN_EXPR", first |-> starts[i]]
        BY <1>3, <2>4
      <4>4. QED
        BY <4>1, <4>2, <4>3
    <3>3. n \in Nat /\ i \in 1..n
      BY <1>2
    <3>4. i = n \/ i \in 1..(n - 1)
      BY <3>3
    <3>5. QED
      BY <3>1, <3>2, <3>4
  <2> HIDE DEF t, x
  <2>5. QED
    BY <1>3, <2>2, <2>3, <2>4, SeqSame
<1>6. Append(p.open \o s, x) = p.open \o t
  <2> DEFINE o == p.open
             w == <<x>>
  <2> HIDE DEF o, x
  <2>1. o \in Seq(Opener)
    BY <1>1 DEF o
  <2>2. IsSeq(o) /\ IsSeq(s) /\ IsSeq(w)
    BY <1>3, <2>1, OneStep DEF IsSeq
  <2>3. o \o s \in Seq(Opener)
    BY <1>3, <2>1
  <2>4. Append(o \o s, x) = (o \o s) \o <<x>>
    BY <1>4, <2>3, OneMore
  <2>5. (o \o s) \o w = o \o (s \o w)
    <3> HIDE DEF w
    <3>1. QED
      BY <2>2, ConcatAssoc
  <2>6. s \o <<x>> = Append(s, x)
    BY <1>3, <1>4, OneMore
  <2>7. QED
    BY <1>5, <2>4, <2>5, <2>6 DEF o
<1>7. a = [p EXCEPT !.open = p.open \o s]
  BY DEF OpenedBy, s
<1>8. a.open = p.open \o s /\ DOMAIN a = Attributes
  BY <1>1, <1>7 DEF Attributes
<1>9. StartNodeAt(a, starts[n], "BIN_EXPR") = [a EXCEPT !.open = p.open \o t]
  BY <1>6, <1>8 DEF StartNodeAt
<1>10. OpenedBy(p, starts, n) = [p EXCEPT !.open = p.open \o t]
  BY DEF OpenedBy
<1> DEFINE y == p.open \o s
           z == p.open \o t
<1>11. a = [p EXCEPT !.open = y]
  BY <1>7
<1>12. StartNodeAt(a, starts[n], "BIN_EXPR") = [a EXCEPT !.open = z] /\ OpenedBy(p, starts, n) = [p EXCEPT !.open = z]
  BY <1>9, <1>10
<1> HIDE DEF a, y, z, t
<1>13. [a EXCEPT !.open = z] = [p EXCEPT !.open = z]
  BY <1>1, <1>11 DEF Attributes
<1>14. QED
  BY <1>12, <1>13 DEF a

\* All nodes of a chain may be opened,
LEMMA OpenedFine ==
    ASSUME NEW p, Fine(p), NEW starts, Chained(p, starts)
    PROVE  Works(OpenedBy(p, starts, Len(starts)), Len(starts), 0, 4)
<1> DEFINE k == Len(starts)
           T == {n \in Nat : n <= k => /\ Works(OpenedBy(p, starts, n), n, 0, 4)
                                       /\ \A i \in 1..k : n + 1 <= i => Handy(OpenedBy(p, starts, n), 0, starts[i])}
<1>0. 0 \in Int /\ 4 \in Nat /\ Works(p, 0, 0, 4)
  BY DEF Fine
<1>1. starts \in Seq(Nat) /\ k \in Nat /\ \A i, j \in 1..k : i <= j => starts[i] <= starts[j]
  BY DEF Chained, Rising
<1>2. 0 \in T
  <2> DEFINE q == OpenedBy(p, starts, 0)
  <2>1. SameBut(p, q, Said)
    <3>1. 0 \in 0..Len(starts)
      BY <1>1
    <3>2. Levels(starts, 0) \in Seq(Opener) /\ Len(Levels(starts, 0)) = 0
      BY <1>1, <3>1, LevelFacts
    <3>3. Levels(starts, 0) = <<>>
      BY <3>2
    <3>4. DOMAIN p = Attributes /\ p.open \in Seq(Opener)
      BY <1>0, PendingFacts DEF Works, Shape
    <3>5. p.open \o <<>> = p.open
      BY <3>4
    <3>6. OpenedBy(p, starts, 0) = [p EXCEPT !.open = p.open]
      BY <3>3, <3>5 DEF OpenedBy
    <3>7. QED
      BY <3>4, <3>6 DEF SameBut, Attributes, Said
  <2> HIDE DEF q
  <2>2. Works(q, 0, 0, 4)
    BY <1>0, <2>1, QuietWorks
  <2>3. \A i \in 1..k : Handy(p, 0, starts[i])
    BY DEF Chained
  <2>4. ASSUME NEW v, NEW m, Handy(p, v, m) PROVE Handy(q, v, m)
    BY <2>1, <2>4, QuietHandy
  <2>5. \A i \in 1..k : Handy(q, 0, starts[i])
    BY <2>3, <2>4
  <2> HIDE DEF k
  <2>6. QED
    BY <2>2, <2>5 DEF q
<1>3. ASSUME NEW n \in 1..k, n - 1 \in T PROVE n \in T
  <2> DEFINE a == OpenedBy(p, starts, n - 1)
             b == OpenedBy(p, starts, n)
  <2>1. n - 1 <= k /\ n - 1 \in Int /\ (n - 1) + 1 = n /\ n <= n /\ n \in Nat
    BY <1>1
  <2>2. Works(a, n - 1, 0, 4) /\ \A i \in 1..k : n <= i => Handy(a, 0, starts[i])
    BY <1>3, <2>1
  <2>3. b = StartNodeAt(a, starts[n], "BIN_EXPR")
    BY <1>0, <1>1, OpenedNext
  <2> HIDE DEF a, b
  <2>4. Handy(a, 0, starts[n]) /\ "BIN_EXPR" \in Kinds
    BY <2>1, <2>2 DEF Kinds
  <2>5. Works(b, (n - 1) + 1, 0, 4)
    BY <1>0, <2>1, <2>2, <2>3, <2>4, StartAtWorks
  <2>6. ASSUME NEW i \in 1..k, n + 1 <= i PROVE Handy(b, 0, starts[i])
    <3>1. n <= i /\ starts[n] <= starts[i]
      BY <1>1, <2>1, <2>6
    <3>2. Handy(a, 0, starts[i])
      BY <2>2, <3>1
    <3>3. QED
      BY <2>2, <2>3, <2>4, <3>1, <3>2, StartAtHandy
  <2>7. QED
    BY <2>1, <2>5, <2>6 DEF b
<1> HIDE DEF T, k
<1>4. 0..k \subseteq T
  BY <1>1, <1>2, <1>3, CountUp
<1>5. k \in T
  BY <1>1, <1>4
<1>6. QED
  BY <1>1, <1>5 DEF T, k

\* and are finished again, innermost first.
LEMMA ClosedFine ==
    ASSUME NEW p, Fine(p), NEW starts, Chained(p, starts)
    PROVE  Fine(Closed(p, starts))
<1> DEFINE k == Len(starts)
           q == OpenedBy(p, starts, k)
           f == [i \in 1..k |-> <<"FINISH">>]
           g == << <<"GOT", "BIN_EXPR">> >>
<1>1. starts \in Seq(Nat) /\ k \in Nat /\ DOMAIN starts = 1..k
  BY DEF Chained, Rising
<1>2. Works(q, k, 0, 4)
  BY OpenedFine
<1>3. Runs(f, k, 0)
  <2> DEFINE r == [j \in Nat |-> j]
             e == [j \in Nat |-> 0]
  <2>1. IsSeq(f) /\ Len(f) = k
    BY <1>1, TableFacts
  <2>2. \A j \in 1..k : Left(f, j) = <<"FINISH">>
    BY <1>1, <2>1 DEF Left
  <2>3. r \in [Nat -> Nat] /\ e \in [Nat -> Nat] /\ r[0] = 0 /\ e[0] = 0 /\ r[k] = k /\ e[k] = 0
    BY <1>1
  <2>4. \A j \in 1..k : r[j] = j /\ r[j - 1] = j - 1 /\ e[j] = 0 /\ e[j - 1] = 0
    BY <1>1
  <2> HIDE DEF r, e, f
  <2>5. ASSUME NEW j \in 1..k PROVE Typed(Left(f, j)) /\ Falls(Left(f, j), r[j], r[j - 1], e[j], e[j - 1])
    <3>1. Left(f, j) = <<"FINISH">> /\ Left(f, j)[1] = "FINISH"
      BY <2>2
    <3>2. Typed(Left(f, j))
      BY <3>1 DEF Typed
    <3>3. Falls(Left(f, j), j, j - 1, 0, 0)
      BY <3>1 DEF Falls
    <3>4. QED
      BY <2>4, <3>2, <3>3
  <2>6. Course(f, r, e)
    BY <2>1, <2>3, <2>5 DEF Course
  <2>7. \A j \in 1..k : MarkersOf(Left(f, j)) = {}
    BY <2>2 DEF MarkersOf
  <2>8. QED
    BY <2>1, <2>3, <2>6, <2>7 DEF Runs
<1>4. <<"GOT", "BIN_EXPR">>[1] \notin Special
  BY DEF Special
<1>5. Runs(g, 0, 0)
  BY <1>4, OneRuns
<1> HIDE DEF f, g, k
<1>6. Runs(f \o g, k, 0)
  <2>1. k + 0 = k /\ 0 + 0 = 0
    BY <1>1
  <2>2. Runs(f \o g, k + 0, 0 + 0)
    BY <1>3, <1>5, ConcatRuns
  <2>3. QED
    BY <2>1, <2>2
<1>7. Fine(Do(q, f \o g))
  BY <1>1, <1>2, <1>6, FineEnds
<1>8. Closed(p, starts) = Do(q, f \o g)
  <2>1. DOMAIN p = Attributes
    BY PendingFacts DEF Fine, Works
  <2> DEFINE o == p.open \o Levels(starts, k)
             w == (f \o g) \o p.todo
  <2>2. Closed(p, starts) = [p EXCEPT !.open = o, !.todo = w]
    <3>1. Levels(starts, k) = [i \in DOMAIN starts |-> [kind |-> "BIN_EXPR", first |-> starts[i]]]
      BY <1>1 DEF Levels
    <3>2. f = [i \in DOMAIN starts |-> <<"FINISH">>]
      BY <1>1 DEF f
    <3>3. QED
      BY <3>1, <3>2, Zenon DEF Closed, g
  <2>3. q = [p EXCEPT !.open = o]
    BY DEF OpenedBy
  <2> HIDE DEF q, o
  <2>4. q.todo = p.todo
    BY <2>1, <2>3 DEF Attributes
  <2>5. Do(q, f \o g) = [q EXCEPT !.todo = w]
    BY <2>4 DEF Do
  <2> HIDE DEF w
  <2>6. [q EXCEPT !.todo = w] = [p EXCEPT !.open = o, !.todo = w]
    BY <2>1, <2>3 DEF Attributes
  <2>7. QED
    BY <2>2, <2>5, <2>6
<1>9. QED
  BY <1>7, <1>8

\* A link of a chain: another operand, or its end.
LEMMA LinkFine ==
    ASSUME NEW p, Fine(p), NEW starts, Chained(p, starts), NEW m, Handy(p, 0, m), \A i \in 1..Len(starts) : starts[i] <= m,
           NEW op, NEW b
    PROVE  Fine(Link(p, starts, m, op, b))
BY LinkedFine, ClosedFine DEF Link

\* Suffixes of a name or of an expression in parentheses.
LEMMA SuffixKinds == \A k \in DOMAIN SuffixOf : SuffixOf[k] \in Kinds
<1>1. ASSUME NEW k \in {".", "[", ":", "(", "str", "{"} PROVE SuffixOf[k] \in Kinds
  BY DEF SuffixOf, Kinds
<1>2. DOMAIN SuffixOf = {".", "[", ":", "(", "str", "{"}
  BY DEF SuffixOf
<1>3. QED
  BY <1>1, <1>2

\* A suffix, inside its node.
LEMMA SuffixRuns ==
    ASSUME NEW k
    PROVE  Runs(Suffix(k), 0, 0)
<1>1. /\ <<"BUMP", "name">> \in Seq(Words) /\ <<"BUMP", "EXPR", "]">> \in Seq(Words)
      /\ <<"BUMP", "name", "ARGS">> \in Seq(Words) /\ <<"ARGS">> \in Seq(Words)
  BY DEF Words
<1>2. /\ Runs(Plain(<<"BUMP", "name">>), 0, 0) /\ Runs(Plain(<<"BUMP", "EXPR", "]">>), 0, 0)
      /\ Runs(Plain(<<"BUMP", "name", "ARGS">>), 0, 0) /\ Runs(Plain(<<"ARGS">>), 0, 0)
  BY <1>1, PlainRuns
<1>3. QED
  BY <1>2 DEF Suffix

\* An expression wrapped as the base of a suffix.
LEMMA SuffixedFine ==
    ASSUME NEW p, Fine(p), NEW m, Handy(p, 0, m), NEW k \in DOMAIN SuffixOf, NEW fits
    PROVE  Fine(Suffixed(p, m, k, fits))
<1> DEFINE kind == SuffixOf[k]
           q == StartNodeAt(p, m, kind)
           t == TooComplex(p)
           s == Suffix(k)
           f == <<"FINISH">>
           g == <<"GOT", kind>>
           h == <<"GOT", p.got>>
           c(x) == <<"SUFFIXES", m, x>>
<1>0. m \in Nat /\ kind \in Kinds
  BY HandyIsNat, SuffixKinds
<1>1. g[1] \notin Special /\ h[1] \notin Special
  BY DEF Special
<1>2. ASSUME NEW x PROVE Typed(c(x)) /\ MarkersOf(c(x)) = {m} /\ c(x)[1] \in Marking
  BY <1>0, MarkersAre DEF Marking
<1>3. Suffixed(p, m, k, fits) = IF fits THEN Do(q, s \o <<f, g, c(TRUE)>>) ELSE Do(t, s \o <<h, c(FALSE)>>)
  BY Zenon DEF Suffixed
<1>4. Fine(t) /\ Handy(t, 0, m)
  <2>1. 0 \in Int /\ 4 \in Nat /\ Works(p, 0, 0, 4)
    BY DEF Fine
  <2>2. Handy(t, 0, m)
    BY <2>1, SayWorks
  <2>3. QED
    BY <2>2, FineFacts
<1>5. Runs(s, 0, 0) /\ Runs(<<f>>, 1, 0) /\ IsSeq(<<c(TRUE)>>) /\ IsSeq(<<c(FALSE)>>)
  BY SuffixRuns, FinishRuns, OneStep
<1> HIDE DEF s, f, g, h, c, t, kind
<1>6. Runs(<<f, g>>, 1, 0) /\ Runs(<<h>>, 0, 0)
  <2>0. 1 + 0 = 1 /\ 0 + 0 = 0
    OBVIOUS
  <2>1. Runs(<<g>>, 0, 0) /\ Runs(<<h>>, 0, 0)
    BY <1>1, OneRuns
  <2>2. Runs(<<f>> \o <<g>>, 1, 0)
    BY <1>5, <2>0, <2>1, ConcatRuns
  <2>3. QED
    BY <2>1, <2>2, Two
<1>7. Fine(Do(q, s \o <<f, g, c(TRUE)>>))
  <2> DEFINE a == <<f, g>> z == <<c(TRUE)>> w == c(TRUE)
  <2>0. 0 + 1 = 1 /\ 0 + 0 = 0
    OBVIOUS
  <2>1. a \o z = <<f, g, c(TRUE)>>
    BY Three
  <2>2. Runs(a, 1, 0)
    BY <1>6
  <2> HIDE DEF a, z
  <2>3. Runs(s \o a, 1, 0)
    BY <1>5, <2>0, <2>2, ConcatRuns
  <2>4. IsSeq(s) /\ IsSeq(a) /\ IsSeq(z)
    BY <1>5, <2>2, RunsSeq DEF z
  <2>5. s \o (a \o z) = (s \o a) \o z
    BY <2>4, ConcatAssoc
  <2>6. Typed(w) /\ MarkersOf(w) = {m} /\ w[1] \in Marking
    BY <1>2
  <2> HIDE DEF w
  <2>7. Fine(Do(q, (s \o a) \o <<w>>))
    BY <1>0, <2>3, <2>6, FineWrapped
  <2>8. QED
    BY <2>1, <2>5, <2>7 DEF z, w
<1>8. Fine(Do(t, s \o <<h, c(FALSE)>>))
  <2> DEFINE a == <<h>> z == <<c(FALSE)>> w == c(FALSE)
  <2>1. a \o z = <<h, c(FALSE)>>
    BY Two
  <2>2. Runs(a, 0, 0)
    BY <1>6
  <2> HIDE DEF a, z
  <2>3. Runs(s \o a, 0, 0)
    BY <1>5, <2>2, BothRun
  <2>4. IsSeq(s) /\ IsSeq(a) /\ IsSeq(z)
    BY <1>5, <2>2, RunsSeq DEF z
  <2>5. s \o (a \o z) = (s \o a) \o z
    BY <2>4, ConcatAssoc
  <2>6. Typed(w) /\ MarkersOf(w) = {m} /\ w[1] \in Marking
    BY <1>2
  <2> HIDE DEF w
  <2>7. \A o \in MarkersOf(w) : Handy(t, 0, o)
    BY <1>4, <2>6
  <2>8. Fine(Do(t, (s \o a) \o <<w>>))
    BY <1>4, <2>3, <2>6, <2>7, FineMarked
  <2>9. QED
    BY <2>1, <2>5, <2>8 DEF z, w
<1>9. QED
  BY <1>3, <1>7, <1>8

\* suffix_loop, within the budget of height and beyond it.
LEMMA SuffixLoopFine ==
    ASSUME NEW p, Fine(p), NEW m, Handy(p, 0, m), NEW budget
    PROVE  Fine(SuffixLoop(p, m, budget))
<1>1. CASE Current(p) \in DOMAIN SuffixOf
  <2>1. Fine(Suffixed(p, m, Current(p), budget /\ CanWrap(p, m, 1)))
    BY <1>1, SuffixedFine
  <2>2. QED
    BY <1>1, <2>1, Zenon DEF SuffixLoop
<1>2. CASE Current(p) \notin DOMAIN SuffixOf
  BY <1>2, Zenon DEF SuffixLoop
<1>3. QED
  BY <1>1, <1>2

\* A node that has suffixes, where it may start.
LEMMA HeadFine ==
    ASSUME NEW p, Fine(p), NEW steps, Runs(steps, 0, 0), Handy(p, 0, Len(p.built))
    PROVE  Fine(Do(p, steps \o << <<"SUFFIXES", Len(p.built), TRUE>> >>))
<1> DEFINE m == Len(p.built)
           s == <<"SUFFIXES", m, TRUE>>
<1>1. Handy(p, 0, m)
  OBVIOUS
<1> HIDE DEF m
<1>2. m \in Nat
  BY <1>1, HandyIsNat
<1>3. Typed(s) /\ MarkersOf(s) = {m} /\ s[1] \in Marking
  BY <1>2, MarkersAre DEF Marking
<1> HIDE DEF s
<1>4. \A o \in MarkersOf(s) : Handy(p, 0, o)
  BY <1>1, <1>3
<1>5. Fine(Do(p, steps \o <<s>>))
  BY <1>3, <1>4, FineMarked
<1>6. QED
  BY <1>5 DEF s, m

\* simple_expr, where trivia has been flushed.
LEMMA SimpleFlushedFine ==
    ASSUME NEW p, Fine(p), Current(p) \in {"name", "("} => Handy(p, 0, Len(p.built))
    PROVE  Fine(SimpleFlushed(p))
<1> DEFINE literal == Node("LITERAL_EXPR", <<"BUMP">>)
           vararg == Node("VARARG_EXPR", <<"BUMP">>)
           function == Node("FUNCTION_EXPR", <<"BUMP", "BODY">>)
           table == << <<"TABLE">>, <<"GOT", "TABLE_EXPR">> >>
           s == <<"SUFFIXES", Len(p.built), TRUE>>
           nameNode == Node("NAME_EXPR", <<"BUMP">>)
           parenNode == Node("PAREN_EXPR", <<"BUMP", "EXPR", ")">>)
           name == nameNode \o <<s>>
           paren == parenNode \o <<s>>
           none == << <<"GOT", "none">> >>
           Good == {literal, vararg, function, table, none}
<1>1. /\ <<"BUMP">> \in Seq(Words) /\ <<"BUMP", "BODY">> \in Seq(Words) /\ <<"BUMP", "EXPR", ")">> \in Seq(Words)
      /\ "LITERAL_EXPR" \in Kinds /\ "VARARG_EXPR" \in Kinds /\ "FUNCTION_EXPR" \in Kinds
      /\ "NAME_EXPR" \in Kinds /\ "PAREN_EXPR" \in Kinds
      /\ <<"TABLE">>[1] \notin Special /\ <<"GOT", "TABLE_EXPR">>[1] \notin Special /\ <<"GOT", "none">>[1] \notin Special
  BY DEF Words, Kinds, Special
<1>2. /\ Runs(literal, 0, 0) /\ Runs(vararg, 0, 0) /\ Runs(function, 0, 0) /\ Runs(table, 0, 0) /\ Runs(none, 0, 0)
      /\ Runs(nameNode, 0, 0) /\ Runs(parenNode, 0, 0)
  BY <1>1, NodeRuns, TwoRun, OneRuns
<1>3. \/ \E x \in Good : SimpleFlushed(p) = Do(p, x)
      \/ Current(p) \in {"name", "("} /\ (SimpleFlushed(p) = Do(p, name) \/ SimpleFlushed(p) = Do(p, paren))
  <2>1. SimpleFlushed(p) =
          Do(p, CASE Current(p) \in Literals -> literal
                    [] At(p, "...") -> vararg
                    [] At(p, "function") -> function
                    [] At(p, "{") -> table
                    [] At(p, "name") -> name
                    [] At(p, "(") -> paren
                    [] OTHER -> none)
    BY Zenon DEF SimpleFlushed
  <2> HIDE DEF literal, vararg, function, table, name, paren, none
  <2>2. QED
    BY <2>1 DEF At
<1> HIDE DEF literal, vararg, function, table, none, nameNode, parenNode
<1>4. \A x \in Good : Fine(Do(p, x))
  BY <1>2, FineDo
<1> HIDE DEF Good
<1>5. Current(p) \in {"name", "("} => Fine(Do(p, name)) /\ Fine(Do(p, paren))
  BY <1>2, HeadFine
<1> HIDE DEF name, paren
<1>6. QED
  BY <1>3, <1>4, <1>5

\* simple_expr.
LEMMA SimpleFine ==
    ASSUME NEW p, Fine(p)
    PROVE  Fine(SimpleExpr(p))
<1> DEFINE f == FlushTrivia(p)
<1>1. Fine(f) /\ Handy(f, 0, Len(f.built))
  BY FineFacts
<1> HIDE DEF f
<1>2. Fine(SimpleFlushed(f))
  BY <1>1, SimpleFlushedFine
<1>3. Current(p) \notin {"name", "("} => Fine(SimpleFlushed(p))
  BY SimpleFlushedFine
<1>4. SimpleExpr(p) = IF Current(p) \in {"name", "("} THEN SimpleFlushed(f) ELSE SimpleFlushed(p)
  BY DEF SimpleExpr, f
<1>5. QED
  BY <1>2, <1>3, <1>4

\* call_args, in their three forms.
LEMMA ArgsFine ==
    ASSUME NEW p, Fine(p)
    PROVE  Fine(CallArgs(p))
<1> DEFINE q == StartNode(p, "ARG_LIST")
           text == Plain(<<"BUMP">>)
           table == Plain(<<"TABLE">>)
           list == Plain(<<"BUMP", "RESULTS", ")">>)
           none == << <<"ERROR", "arguments">> >>
           x == CASE At(p, "str") -> text [] At(p, "{") -> table [] At(p, "(") -> list [] OTHER -> none
<1>1. /\ <<"BUMP">> \in Seq(Words) /\ <<"TABLE">> \in Seq(Words) /\ <<"BUMP", "RESULTS", ")">> \in Seq(Words)
      /\ <<"ERROR", "arguments">>[1] \notin Special /\ "ARG_LIST" \in Kinds
  BY DEF Words, Special, Kinds
<1>2. Runs(text, 0, 0) /\ Runs(table, 0, 0) /\ Runs(list, 0, 0) /\ Runs(none, 0, 0)
  BY <1>1, PlainRuns, OneRuns
<1>3. CallArgs(p) = Do(q, x \o Finish)
  BY Zenon DEF CallArgs
<1>4. Works(q, 1, 0, 4) /\ 1 \in Nat
  BY <1>1, FineOpens
<1> HIDE DEF q, text, table, list, none
<1>5. Runs(x, 0, 0)
  BY <1>2
<1> HIDE DEF x
<1>6. Runs(x \o Finish, 1, 0)
  BY <1>5, ThenFinish
<1>7. Fine(Do(q, x \o Finish))
  BY <1>4, <1>6, FineEnds
<1>8. QED
  BY <1>3, <1>7

\* table_expr.
LEMMA TableFine ==
    ASSUME NEW p, Fine(p)
    PROVE  Fine(Do(p, TableExpr))
<1>1. <<"BUMP">>[1] \notin Special /\ <<"FIELDS", FALSE>>[1] \notin Special /\ "TABLE_EXPR" \in Kinds
  BY DEF Special, Kinds
<1>2. Runs(<< <<"BUMP">>, <<"FIELDS", FALSE>> >>, 0, 0)
  BY <1>1, TwoRun
<1>3. QED
  BY <1>1, <1>2, WithinRuns, FineDo DEF TableExpr

\* One field of a table.
LEMMA FieldFine ==
    ASSUME NEW p, Fine(p), NEW needs, NEW rule, Runs(rule, 0, 0)
    PROVE  Fine(AddField(p, needs, rule))
<1> DEFINE q == IF needs THEN Error(p, "separator") ELSE p
           s == << <<"FIELDS", TRUE>> >>
<1>1. <<"FIELDS", TRUE>>[1] \notin Special
  BY DEF Special
<1>2. Runs(s, 0, 0)
  BY <1>1, OneRuns
<1>3. Fine(q)
  BY FineFacts
<1>4. AddField(p, needs, rule) = Do(q, rule \o s)
  BY Zenon DEF AddField
<1> HIDE DEF q, s
<1>5. Runs(rule \o s, 0, 0)
  BY <1>2, BothRun
<1>6. QED
  BY <1>3, <1>4, <1>5, FineDo

\* Its fields and their separators.
LEMMA FieldsFine ==
    ASSUME NEW p, Fine(p), NEW needs
    PROVE  Fine(Fields(p, needs))
<1> DEFINE again(x) == << <<"FIELDS", x>> >>
           Good == {Bump(p), Do(Bump(p), again(FALSE)), AddField(p, needs, TableKeyField), AddField(p, needs, TableNameField),
                    AddField(p, needs, TableItemField), Error(p, "}"), Do(ErrorAndBump(p), again(needs))}
<1>1. /\ <<"BUMP", "EXPR", "]", "=", "EXPR">> \in Seq(Words) /\ <<"BUMP", "BUMP", "EXPR">> \in Seq(Words)
      /\ <<"EXPR">> \in Seq(Words)
      /\ "TABLE_KEY_FIELD" \in Kinds /\ "TABLE_NAME_FIELD" \in Kinds /\ "TABLE_ITEM_FIELD" \in Kinds
  BY DEF Words, Kinds
<1>2. Runs(TableKeyField, 0, 0) /\ Runs(TableNameField, 0, 0) /\ Runs(TableItemField, 0, 0)
  BY <1>1, RuleRuns DEF TableKeyField, TableNameField, TableItemField
<1>3. ASSUME NEW x PROVE Runs(again(x), 0, 0)
  <2>1. <<"FIELDS", x>>[1] \notin Special
    BY DEF Special
  <2>2. QED
    BY <2>1, OneRuns
<1>4. Fields(p, needs) \in Good
  <2> DEFINE a == Bump(p)
             b == Do(Bump(p), again(FALSE))
             c == AddField(p, needs, TableKeyField)
             d == AddField(p, needs, TableNameField)
             e == AddField(p, needs, TableItemField)
             f == Error(p, "}")
             g == Do(ErrorAndBump(p), again(needs))
  <2>1. Fields(p, needs) =
          CASE At(p, "}") -> a
            [] Current(p) \in {",", ";"} -> b
            [] At(p, "[") -> c
            [] At(p, "name") /\ Second(p) = "=" -> d
            [] Current(p) \in CanStartExpr /\ ~(At(p, "name") /\ Second(p) = "=") -> e
            [] Current(p) \in (BlockEnds \cup CanStartStmt \cup {Eof}) \ (CanStartExpr \cup {";"}) -> f
            [] OTHER -> g
    BY Zenon DEF Fields
  <2> HIDE DEF a, b, c, d, e, f, g
  <2>2. Fields(p, needs) \in {a, b, c, d, e, f, g}
    BY <2>1
  <2>3. QED
    BY <2>2, Zenon DEF a, b, c, d, e, f, g
<1> HIDE DEF again
<1>5. Fine(Do(Bump(p), again(FALSE))) /\ Fine(Do(ErrorAndBump(p), again(needs)))
  BY <1>3, FineFacts, FineDo
<1>6. Fine(AddField(p, needs, TableKeyField)) /\ Fine(AddField(p, needs, TableNameField)) /\ Fine(AddField(p, needs, TableItemField))
  BY <1>2, FieldFine
<1>7. Fine(Bump(p)) /\ Fine(Error(p, "}"))
  BY FineFacts
<1>8. QED
  BY <1>4, <1>5, <1>6, <1>7

------------------------------------------------------------------------------
\* Every step but those that start or finish a node or give back the depth.
LEMMA StepFine ==
    ASSUME NEW p, Fine(p), NEW step, step[1] \notin {"START", "FINISH", "LEAVE"}, Typed(step),
           \A m \in MarkersOf(step) : Handy(p, 0, m)
    PROVE  Fine(Step(p, step))
<1>1. CASE step[1] \in {"AFTERFIRST", "CLIMB", "SUFFIXES"}
  <2>1. Handy(p, 0, step[2])
    BY <1>1 DEF MarkersOf
  <2>2. CASE step[1] = "AFTERFIRST"
    <3>1. Step(p, step) = AfterFirst(p, step[2])
      BY <2>2 DEF Step
    <3>2. QED
      BY <2>1, <3>1, AfterFirstFine
  <2>3. CASE step[1] = "CLIMB"
    <3>1. Step(p, step) = Climb(p, step[2], step[3], step[4])
      BY <2>3 DEF Step
    <3>2. QED
      BY <2>1, <3>1, ClimbFine
  <2>4. CASE step[1] = "SUFFIXES"
    <3>1. Step(p, step) = SuffixLoop(p, step[2], step[3])
      BY <2>4 DEF Step
    <3>2. QED
      BY <2>1, <3>1, SuffixLoopFine
  <2>5. QED
    BY <1>1, <2>2, <2>3, <2>4
<1>2. CASE step[1] \in {"CHAIN", "LINK"}
  <2> DEFINE starts == step[2]
  <2>1. Rising(starts)
    BY <1>2 DEF Typed, Rising
  <2>2. DOMAIN starts = 1..Len(starts)
    BY <2>1 DEF Rising
  <2>3. ToSet(starts) \subseteq MarkersOf(step)
    BY <1>2 DEF MarkersOf
  <2>4. \A i \in 1..Len(starts) : starts[i] \in ToSet(starts)
    BY <2>2 DEF ToSet
  <2>5. Chained(p, starts)
    BY <2>1, <2>3, <2>4 DEF Chained
  <2>6. CASE step[1] = "CHAIN"
    <3>1. Step(p, step) = Chain(p, starts, step[3], step[4])
      BY <2>6 DEF Step
    <3>2. QED
      BY <2>5, <3>1, ChainStepFine
  <2>7. CASE step[1] = "LINK"
    <3>1. Step(p, step) = Link(p, starts, step[3], step[4], step[5])
      BY <2>7 DEF Step
    <3>2. step[3] \in MarkersOf(step) /\ \A i \in 1..Len(starts) : starts[i] <= step[3]
      BY <2>7 DEF MarkersOf, Typed
    <3>3. QED
      BY <2>5, <3>1, <3>2, LinkFine
  <2>8. QED
    BY <1>2, <2>6, <2>7
<1>3. CASE step[1] \in {"BUMP", "GOT", "ERROR", "TRIVIA", "BLOCK", "BODY", "STATEMENTS", "STATEMENT", "RECOVER", "LOCALNAMES"}
  <2>1. /\ Fine(Bump(p)) /\ Fine(Got(p, step[2])) /\ Fine(Error(p, step[2])) /\ Fine(FlushTrivia(p))
    BY FineFacts
  <2>2. /\ Fine(Do(p, BlockOf(FALSE))) /\ Fine(Do(p, FunctionBody))
        /\ Fine(Statements(p, step[2], step[3])) /\ Fine(Statement(p)) /\ Fine(Recover(p)) /\ Fine(LocalNames(p))
    BY BlockFine, BodyFine, StatementsFine, StatementFine, RecoverFine, LocalNamesFine
  <2>3. QED
    BY <1>3, <2>1, <2>2 DEF Step
<1>4. CASE step[1] \in {"NEXTLOCAL", "INIT", "STEP", "METHODNAME", "SEMICOLON", "CLAUSES", "NAMES", "PARAMLIST", "PARAMS", "NEXTPARAM"}
  <2>1. <<"LOCALNAMES">> \in Seq(Words) /\ <<"EXPRS">> \in Seq(Words) /\ <<"EXPR">> \in Seq(Words) /\ <<"name">> \in Seq(Words)
        /\ <<>> \in Seq(Words)
    BY DEF Words
  <2>2. /\ Fine(If(p, ",", <<"LOCALNAMES">>)) /\ Fine(If(p, "=", <<"EXPRS">>)) /\ Fine(If(p, ",", <<"EXPR">>))
        /\ Fine(If(p, ":", <<"name">>)) /\ Fine(If(p, ";", <<>>))
    BY <2>1, FineIf
  <2>3. /\ Fine(Clauses(p, step[2])) /\ Fine(Names(p, step[2])) /\ Fine(ParamList(p)) /\ Fine(Params(p)) /\ Fine(NextParam(p))
    BY ClausesFine, NamesFine, ParamListFine, ParamsFine
  <2>4. QED
    BY <1>4, <2>2, <2>3 DEF Step
<1>5. CASE step[1] \in {"RESULTS", "EXPRSTMT", "TARGETS", "AFTERTARGET", "EXPR", "EXPRBP", "REQUIRED", "EXPRS", "NEXTEXPR", "AFTEREXPR"}
  <2>1. /\ Fine(ExprList(p)) /\ Fine(ExprStmt(FlushTrivia(p))) /\ Fine(AfterTarget(p)) /\ Fine(Required(p))
        /\ Fine(NextExpr(p)) /\ Fine(AfterExpr(p)) /\ Fine(ExprBp(p, step[2]))
        /\ Fine(Do(Bump(p), << <<"EXPRBP", 0>>, <<"AFTERTARGET">> >>))
        /\ Fine(Do(p, << <<"EXPRBP", 0>>, <<"REQUIRED">> >>))
    BY ExprListFine, ExprStmtFine, TargetsFine, ExprBpFine
  <2>2. QED
    BY <1>5, <2>1 DEF Step
<1>6. CASE step[1] \in {"SIMPLE", "ARGS", "TABLE", "FIELDS"}
  <2>1. /\ Fine(SimpleExpr(p)) /\ Fine(CallArgs(p)) /\ Fine(Fields(p, step[2]))
        /\ Fine(Do(p, TableExpr))
    BY SimpleFine, ArgsFine, FieldsFine, TableFine
  <2>2. QED
    BY <1>6, <2>1 DEF Step
<1>7. CASE Step(p, step) = Expect(p, step[1])
  BY <1>7, FineFacts
<1>8. \/ step[1] \in {"AFTERFIRST", "CLIMB", "SUFFIXES", "CHAIN", "LINK"}
      \/ step[1] \in {"BUMP", "GOT", "ERROR", "TRIVIA", "BLOCK", "BODY", "STATEMENTS", "STATEMENT", "RECOVER", "LOCALNAMES"}
      \/ step[1] \in {"NEXTLOCAL", "INIT", "STEP", "METHODNAME", "SEMICOLON", "CLAUSES", "NAMES", "PARAMLIST", "PARAMS", "NEXTPARAM"}
      \/ step[1] \in {"RESULTS", "EXPRSTMT", "TARGETS", "AFTERTARGET", "EXPR", "EXPRBP", "REQUIRED", "EXPRS", "NEXTEXPR", "AFTEREXPR"}
      \/ step[1] \in {"SIMPLE", "ARGS", "TABLE", "FIELDS"}
      \/ Step(p, step) = Expect(p, step[1])
  BY DEF Step
<1>9. QED
  BY <1>1, <1>2, <1>3, <1>4, <1>5, <1>6, <1>7, <1>8

------------------------------------------------------------------------------
(***************************************************************************)
(* One step of the parser after the other.                                 *)
(***************************************************************************)
\* Taking the next step from those to do.
LEMMA PopFields ==
    ASSUME NEW p, Shape(p), p.todo # <<>>
    PROVE  LET q == [p EXCEPT !.todo = Tail(@)]
           IN  /\ SameBut(p, q, {"todo"}) /\ IsSeq(q.todo) /\ Len(q.todo) = Len(p.todo) - 1 /\ Len(p.todo) \in Nat
               /\ 1 <= Len(p.todo) /\ Left(p.todo, Len(p.todo)) = Head(p.todo)
               /\ \A k \in 1..Len(q.todo) : Left(q.todo, k) = Left(p.todo, k)
<1> DEFINE q == [p EXCEPT !.todo = Tail(@)]
           t == p.todo
           n == Len(t)
<1>1. DOMAIN p = Attributes /\ IsSeq(t)
  BY DEF Shape
<1>2. n \in Nat /\ n # 0
  BY <1>1, SeqFacts
<1>3. q.todo = Tail(t) /\ SameBut(p, q, {"todo"})
  BY <1>1 DEF SameBut, Attributes
<1>4. /\ IsSeq(Tail(t)) /\ Len(Tail(t)) = n - 1 /\ Head(t) = t[1]
      /\ \A i \in 1..(n - 1) : Tail(t)[i] = t[i + 1]
  BY <1>1, TailFacts
<1> DEFINE w == Tail(t)
<1> HIDE DEF n, t, w
<1>5. Left(t, n) = t[1]
  <2>1. n + 1 - n = 1
    BY <1>2
  <2>2. QED
    BY <2>1 DEF Left, n
<1>6. ASSUME NEW k \in 1..(n - 1) PROVE Left(w, k) = Left(t, k)
  <2>1. (n - 1) + 1 - k \in 1..(n - 1) /\ ((n - 1) + 1 - k) + 1 = n + 1 - k
    BY <1>2
  <2>2. Left(w, k) = w[(n - 1) + 1 - k] /\ Left(t, k) = t[n + 1 - k]
    BY <1>4 DEF Left, n, w
  <2>3. QED
    BY <1>4, <2>1, <2>2 DEF w
<1>7. 1 <= n
  BY <1>2
<1>8. QED
  BY <1>2, <1>3, <1>4, <1>5, <1>6, <1>7 DEF n, t, w

\* What the next step finishes, gives back and wraps is taken from what is left.
LEMMA PopReady ==
    ASSUME NEW p, Ready(p, Len(p.open), p.depth), p.todo # <<>>
    PROVE  LET q == [p EXCEPT !.todo = Tail(@)] s == Head(p.todo)
           IN  \E level, depth \in Nat :
                 /\ Ready(q, level, depth) /\ Typed(s) /\ Falls(s, Len(p.open), level, p.depth, depth)
                 /\ \A m \in MarkersOf(s) : Handy(q, 0, m)
<1> DEFINE q == [p EXCEPT !.todo = Tail(@)]
           s == Head(p.todo)
           t == p.todo
           w == q.todo
           n == Len(t)
           k == Len(p.open)
<1>1. Shape(p)
  BY DEF Ready
<1>2. /\ SameBut(p, q, {"todo"}) /\ IsSeq(w) /\ Len(w) = n - 1 /\ n \in Nat /\ 1 <= n /\ Left(t, n) = s
      /\ \A j \in 1..Len(w) : Left(w, j) = Left(t, j)
  BY <1>1, PopFields
<1> HIDE DEF q, s, n, t, w
<1>3. /\ q.tokens = p.tokens /\ q.pos = p.pos /\ q.built = p.built /\ q.heights = p.heights /\ q.open = p.open
      /\ q.depth = p.depth /\ q.deepest = p.deepest /\ q.maxDepth = p.maxDepth /\ DOMAIN q = Attributes
  BY <1>2 DEF SameBut, Attributes
<1>4. Shape(q)
  BY <1>1, <1>2, <1>3 DEF Shape, w
<1>5. Opened(q)
  BY <1>3 DEF Opened, Clean, Ready
<1>6. Spelled(q)
  BY <1>3 DEF Ready, Spelled, Spans
<1>7. EndsRight(w)
  <2>1. /\ 1 <= n => Left(t, 1) = <<"FINISH">>
        /\ 2 <= n => Left(t, 2) = <<"TRIVIA">>
        /\ 3 <= n => Left(t, 3) = <<"FINISH">>
        /\ 4 <= n => Left(t, 4)[1] = "STATEMENTS" /\ Left(t, 4)[2] = TRUE
    BY DEF Ready, EndsRight, t, n
  <2>2. \A j \in 1..(n - 1) : Left(w, j) = Left(t, j)
    BY <1>2
  <2>3. /\ 1 <= n - 1 => Left(w, 1) = Left(t, 1)
        /\ 2 <= n - 1 => Left(w, 2) = Left(t, 2)
        /\ 3 <= n - 1 => Left(w, 3) = Left(t, 3)
        /\ 4 <= n - 1 => Left(w, 4) = Left(t, 4)
    BY <1>2, <2>2
  <2>4. Len(w) = n - 1
    BY <1>2
  <2>5. QED
    BY <1>2, <2>1, <2>3, <2>4 DEF EndsRight
<1>8. PICK lv, dp : Balanced(p, k, p.depth, lv, dp)
  BY DEF Ready, Pending
<1>9. /\ lv \in [Nat -> Nat] /\ dp \in [Nat -> Nat] /\ lv[0] = 0 /\ dp[0] = 0 /\ lv[n] = k /\ dp[n] = p.depth
      /\ \A j \in 1..n :
           /\ 1 <= lv[j] /\ Typed(Left(t, j)) /\ Falls(Left(t, j), lv[j], lv[j - 1], dp[j], dp[j - 1])
           /\ \A m \in MarkersOf(Left(t, j)) :
                Fits(p, lv[j], m) /\ Ordered(t, j, m) /\ \A i \in j..n : lv[j] <= lv[i]
  BY <1>8 DEF Balanced, n, t
<1>10. Len(w) = n - 1 /\ n - 1 \in Nat /\ n \in 1..n /\ \A j \in 1..(n - 1) : j \in 1..n
  BY <1>2
<1>11. \A level, m : Fits(p, level, m) => Fits(q, level, m)
  BY <1>3 DEF Fits, Clean
<1>12. ASSUME NEW j \in 1..(n - 1), NEW m, Ordered(t, j, m) PROVE Ordered(w, j, m)
  <2>1. \A i \in 1..(j - 1) : i \in 1..(n - 1)
    BY <1>10
  <2>2. \A i \in 1..(j - 1) : Left(w, i) = Left(t, i)
    BY <1>2, <1>10, <2>1
  <2>3. QED
    BY <1>12, <2>2 DEF Ordered
<1>13. Balanced(q, lv[n - 1], dp[n - 1], lv, dp)
  <2>1. ASSUME NEW j \in 1..(n - 1)
        PROVE  /\ 1 <= lv[j] /\ Typed(Left(w, j)) /\ Falls(Left(w, j), lv[j], lv[j - 1], dp[j], dp[j - 1])
               /\ \A m \in MarkersOf(Left(w, j)) :
                    Fits(q, lv[j], m) /\ Ordered(w, j, m) /\ \A i \in j..(n - 1) : lv[j] <= lv[i]
    <3>1. j \in 1..n /\ Left(w, j) = Left(t, j) /\ \A i \in j..(n - 1) : i \in j..n
      BY <1>2, <1>10
    <3>2. QED
      BY <1>9, <1>11, <1>12, <3>1
  <2>2. Len(q.todo) = n - 1
    BY <1>10 DEF w
  <2>3. QED
    BY <1>9, <2>1, <2>2 DEF Balanced, w
<1>14. lv[n - 1] \in Nat /\ dp[n - 1] \in Nat
  BY <1>9, <1>10
<1>15. Ready(q, lv[n - 1], dp[n - 1])
  BY <1>4, <1>5, <1>6, <1>7, <1>13 DEF Ready, Pending, w
<1>16. Typed(s) /\ Falls(s, k, lv[n - 1], p.depth, dp[n - 1])
  BY <1>2, <1>9, <1>10
<1>17. ASSUME NEW m \in MarkersOf(s) PROVE Handy(q, 0, m)
  <2>1. Fits(p, k, m) /\ Ordered(t, n, m)
    BY <1>2, <1>9, <1>10
  <2>2. k \in Nat
    BY PendingFacts
  <2>3. Len(q.open) - 0 = k
    BY <1>3, <2>2
  <2>4. Fits(q, Len(q.open) - 0, m)
    BY <1>11, <2>1, <2>3
  <2>5. ASSUME NEW o \in Marked(w) PROVE o <= m
    <3>1. PICK j \in 1..Len(w) : o \in MarkersOf(Left(w, j))
      BY DEF Marked
    <3>2. o \in MarkersOf(Left(t, j)) /\ j \in 1..(n - 1)
      BY <1>2, <1>10, <3>1
    <3>3. QED
      BY <2>1, <3>2 DEF Ordered
  <2>6. QED
    BY <2>4, <2>5 DEF Handy, w
<1>18. QED
  BY <1>14, <1>15, <1>16, <1>17 DEF q, s

\* At work on a text: the last steps are taken where it ends.
Busy(p) ==
    /\ Ready(p, Len(p.open), p.depth) /\ p.depth <= DepthLimit /\ p.todo # <<>>
    /\ Len(p.todo) <= 3 => At(p, Eof)
    /\ Len(p.todo) <= 1 => p.pos = Len(p.tokens) + 1

\* Between two steps a parser is ready for those left.
LEMMA WorksReady ==
    ASSUME NEW p, NEW n \in Nat, Works(p, 0, 0, n)
    PROVE  Ready(p, Len(p.open), p.depth) /\ p.depth <= DepthLimit /\ n <= Len(p.todo) /\ Len(p.todo) \in Nat /\ Shape(p)
<1> DEFINE k == Len(p.open) d == p.depth
<1>1. Ready(p, k - 0, d - 0) /\ d - 0 <= DepthLimit /\ n <= Len(p.todo)
  BY DEF Works
<1>2. k \in Nat /\ d \in Nat /\ Len(p.todo) \in Nat /\ Shape(p)
  BY <1>1, PendingFacts
<1> HIDE DEF k, d
<1>3. k - 0 = k /\ d - 0 = d
  BY <1>2
<1>4. QED
  BY <1>1, <1>2, <1>3 DEF k, d

\* A fine parser is at work,
LEMMA FineBusy ==
    ASSUME NEW p, Fine(p)
    PROVE  Busy(p)
<1>1. Works(p, 0, 0, 4) /\ 4 \in Nat
  BY DEF Fine
<1>2. Ready(p, Len(p.open), p.depth) /\ p.depth <= DepthLimit /\ 4 <= Len(p.todo) /\ Len(p.todo) \in Nat /\ Shape(p)
  BY <1>1, WorksReady
<1>3. IsSeq(p.todo)
  BY <1>2 DEF Shape
<1>4. p.todo # <<>>
  BY <1>2, <1>3, SeqFacts
<1>5. ~(Len(p.todo) <= 3) /\ ~(Len(p.todo) <= 1)
  BY <1>2
<1>6. QED
  BY <1>2, <1>4, <1>5 DEF Busy

\* and when it takes a step from the list, that step may be done.
LEMMA PopWorks ==
    ASSUME NEW p, Busy(p)
    PROVE  LET q == [p EXCEPT !.todo = Tail(@)] s == Head(p.todo) n == Len(p.todo) - 1
           IN  /\ n \in Nat /\ Len(q.todo) = n
               /\ Typed(s) /\ \A m \in MarkersOf(s) : Handy(q, 0, m)
               /\ s[1] = "START" => Works(q, -1, 0, n)
               /\ s[1] = "FINISH" => Works(q, 1, 0, n)
               /\ s[1] = "LEAVE" => Works(q, 0, 1, n)
               /\ s[1] \notin {"START", "FINISH", "LEAVE"} => Works(q, 0, 0, n)
<1> DEFINE q == [p EXCEPT !.todo = Tail(@)]
           s == Head(p.todo)
           n == Len(p.todo) - 1
           k == Len(p.open)
           d == p.depth
<1>1. PICK level, depth \in Nat :
        /\ Ready(q, level, depth) /\ Typed(s) /\ Falls(s, k, level, d, depth)
        /\ \A m \in MarkersOf(s) : Handy(q, 0, m)
  BY PopReady DEF Busy
<1>2. /\ k \in Nat /\ d \in Nat /\ d <= DepthLimit /\ DepthLimit \in Nat /\ Shape(p) /\ Len(p.todo) \in Nat
  BY PendingFacts DEF Busy, Shape
<1>3. SameBut(p, q, {"todo"}) /\ IsSeq(q.todo) /\ Len(q.todo) = n /\ 1 <= Len(p.todo)
  BY <1>2, PopFields DEF Busy
<1>4. n \in Nat
  BY <1>2, <1>3
<1> HIDE DEF q, s, n
<1>5. q.open = p.open /\ q.depth = d /\ Len(q.open) = k
  BY <1>3 DEF SameBut, Attributes
<1> HIDE DEF k, d
<1>6. ASSUME NEW u \in Int, NEW e \in Int, level = k - u, depth = d - e PROVE Works(q, u, e, n)
  <2>1. depth <= DepthLimit
    BY <1>1, <1>2 DEF Falls
  <2>2. n <= Len(q.todo)
    BY <1>3, <1>4
  <2>3. QED
    BY <1>1, <1>5, <1>6, <2>1, <2>2 DEF Works
<1>7. s[1] = "START" => level = k - (-1) /\ depth = d - 0
  BY <1>1, <1>2 DEF Falls
<1>8. s[1] = "FINISH" => level = k - 1 /\ depth = d - 0
  BY <1>1, <1>2 DEF Falls
<1>9. s[1] = "LEAVE" => level = k - 0 /\ depth = d - 1
  BY <1>1, <1>2 DEF Falls
<1>10. s[1] \notin {"START", "FINISH", "LEAVE"} => level = k - 0 /\ depth = d - 0
  BY <1>1, <1>2 DEF Falls
<1>11. -1 \in Int /\ 0 \in Int /\ 1 \in Int
  OBVIOUS
<1>12. QED
  BY <1>1, <1>3, <1>4, <1>6, <1>7, <1>8, <1>9, <1>10, <1>11 DEF q, s, n

\* With so many steps left there are no fewer.
LEMMA WorksLess ==
    ASSUME NEW p, NEW u, NEW d, NEW n \in Nat, Works(p, u, d, n), NEW k \in Nat, k <= n
    PROVE  Works(p, u, d, k)
<1>1. n <= Len(p.todo) /\ Len(p.todo) \in Nat
  BY PendingFacts DEF Works
<1>2. k <= Len(p.todo)
  BY <1>1
<1>3. QED
  BY <1>2 DEF Works

\* While more than four steps are left.
LEMMA StepBusy ==
    ASSUME NEW p, Busy(p), 5 <= Len(p.todo)
    PROVE  Busy(Step([p EXCEPT !.todo = Tail(@)], Head(p.todo)))
<1> DEFINE q == [p EXCEPT !.todo = Tail(@)]
           s == Head(p.todo)
           n == Len(p.todo) - 1
<1>0. 4 \in Nat /\ -1 \in Int /\ 0 \in Int /\ 1 \in Nat /\ -1 + 1 = 0
  OBVIOUS
<1>1. /\ n \in Nat /\ Typed(s) /\ \A m \in MarkersOf(s) : Handy(q, 0, m)
      /\ s[1] = "START" => Works(q, -1, 0, n)
      /\ s[1] = "FINISH" => Works(q, 1, 0, n)
      /\ s[1] = "LEAVE" => Works(q, 0, 1, n)
      /\ s[1] \notin {"START", "FINISH", "LEAVE"} => Works(q, 0, 0, n)
  BY PopWorks
<1>2. 4 <= n
  BY <1>1
<1> HIDE DEF q, s, n
<1>3. CASE s[1] = "START"
  <2>1. Works(q, -1, 0, 4)
    BY <1>0, <1>1, <1>2, <1>3, WorksLess
  <2>2. s[2] \in Kinds
    BY <1>1, <1>3 DEF Typed
  <2>3. Works(StartNode(q, s[2]), -1 + 1, 0, 4)
    BY <1>0, <2>1, <2>2, StartWorks
  <2>4. Step(q, s) = StartNode(q, s[2])
    BY <1>3 DEF Step
  <2>5. QED
    BY <1>0, <2>3, <2>4, FineBusy DEF Fine, q, s
<1>4. CASE s[1] = "FINISH"
  <2>1. Works(q, 1, 0, 4)
    BY <1>0, <1>1, <1>2, <1>4, WorksLess
  <2>2. Fine(FinishNode(q))
    BY <1>0, <2>1, FineEnds
  <2>3. Step(q, s) = FinishNode(q)
    BY <1>4 DEF Step
  <2>4. QED
    BY <2>2, <2>3, FineBusy DEF q, s
<1>5. CASE s[1] = "LEAVE"
  <2>1. Works(q, 0, 1, 4)
    BY <1>0, <1>1, <1>2, <1>5, WorksLess
  <2>2. Fine(Leave(q))
    BY <2>1, FineLeaves
  <2>3. Step(q, s) = Leave(q)
    BY <1>5 DEF Step
  <2>4. QED
    BY <2>2, <2>3, FineBusy DEF q, s
<1>6. CASE s[1] \notin {"START", "FINISH", "LEAVE"}
  <2>1. Works(q, 0, 0, 4)
    BY <1>0, <1>1, <1>2, <1>6, WorksLess
  <2>2. Fine(q)
    BY <2>1 DEF Fine
  <2>3. Fine(Step(q, s))
    BY <1>1, <1>6, <2>2, StepFine
  <2>4. QED
    BY <2>3, FineBusy DEF q, s
<1>7. QED
  BY <1>3, <1>4, <1>5, <1>6

------------------------------------------------------------------------------
(***************************************************************************)
(* The last four steps, and the first.                                     *)
(***************************************************************************)
\* The statements of a text are left to do behind the next of them.
LEMMA TopDo ==
    ASSUME NEW p, Works(p, 0, 0, 3), Len(p.todo) = 3, NEW steps, Runs(steps, 0, 0), 1 <= Len(steps),
           Left(steps, 1)[1] = "STATEMENTS", Left(steps, 1)[2] = TRUE
    PROVE  Fine(Do(p, steps))
<1> DEFINE q == Do(p, steps)
           n == Len(steps)
           k == Len(p.open)
           d == p.depth
           t == p.todo
<1>0. 3 \in Nat
  OBVIOUS
<1>1. Ready(p, k, d) /\ d <= DepthLimit /\ Shape(p)
  BY <1>0, WorksReady
<1>2. k \in Nat /\ d \in Nat /\ DOMAIN p = Attributes /\ IsSeq(t) /\ EndsRight(t)
  BY <1>1, PendingFacts DEF Ready, Shape
<1>3. PICK r, e : Course(steps, r, e) /\ r[n] = 0 /\ e[n] = 0
  BY DEF Runs
<1>4. IsSeq(steps) /\ n \in Nat /\ \A j \in 1..n : MarkersOf(Left(steps, j)) = {}
  BY <1>3, SeqFacts DEF Course, Runs
<1>5. SameBut(p, q, {"todo"}) /\ q.todo = steps \o t
  BY <1>2 DEF SameBut, Attributes, Do
<1> HIDE DEF q, t
<1>6. Precede(steps, t, steps \o t) /\ Len(t) = 3
  BY <1>2, <1>4, ConcatLeft DEF t
<1> DEFINE w == steps \o t
<1>7. /\ Len(w) = n + 3 /\ Left(w, 1) = Left(t, 1) /\ Left(w, 2) = Left(t, 2) /\ Left(w, 3) = Left(t, 3)
      /\ Left(w, 4) = Left(steps, 1)
  <2>1. 1 \in 1..3 /\ 2 \in 1..3 /\ 3 \in 1..3 /\ 3 + 1 = 4 /\ 1 \in 1..n
    BY <1>4
  <2>2. /\ Len(w) = n + 3 /\ (\A j \in 1..3 : Left(w, j) = Left(t, j)) /\ \A j \in 1..n : Left(w, 3 + j) = Left(steps, j)
    BY <1>6 DEF Precede
  <2> HIDE DEF w
  <2>3. Left(w, 3 + 1) = Left(steps, 1)
    BY <2>1, <2>2
  <2>4. QED
    BY <2>1, <2>2, <2>3
<1> HIDE DEF w
<1>8. EndsRight(w)
  <2>1. 1 <= 3 /\ 2 <= 3 /\ 3 <= 3
    OBVIOUS
  <2>2. Left(t, 1) = <<"FINISH">> /\ Left(t, 2) = <<"TRIVIA">> /\ Left(t, 3) = <<"FINISH">>
    BY <1>2, <1>6, <2>1 DEF EndsRight
  <2>3. QED
    BY <1>7, <2>2 DEF EndsRight
<1>9. \A j \in 1..n : \A m \in MarkersOf(Left(steps, j)) :
        r[j] = 0 /\ Fits(p, k, m) /\ (\A o \in Marked(t) : o <= m) /\ Ordered(steps, j, m)
  BY <1>4
<1>10. EndsRight(steps \o p.todo) /\ 1 <= Len(p.todo)
  BY <1>8 DEF w, t
<1> HIDE DEF k, d
<1>11. Ready(q, k + r[n], d + e[n])
  BY <1>1, <1>3, <1>9, <1>10, DoReady DEF q, t
<1>12. q.open = p.open /\ q.depth = p.depth
  BY <1>5 DEF SameBut, Attributes
<1>13. k + r[n] = k - 0 /\ d + e[n] = d - 0 /\ d - 0 <= DepthLimit
  BY <1>1, <1>2, <1>3
<1>14. 4 <= Len(q.todo)
  BY <1>4, <1>5, <1>7 DEF w
<1>15. QED
  BY <1>11, <1>12, <1>13, <1>14 DEF Works, Fine, k, d, q

\* The statements at the top of a file, before its end.
LEMMA TopStatements ==
    ASSUME NEW p, Works(p, 0, 0, 3), Len(p.todo) = 3, NEW after, ~At(p, Eof)
    PROVE  Fine(Statements(p, TRUE, after))
<1> DEFINE again == << <<"STATEMENTS", TRUE, after>> >>
           once(a) == << <<"STATEMENT">>, <<"STATEMENTS", TRUE, a>> >>
           r == IF after THEN Error(p, "afterReturn") ELSE p
           a == At(p, "return") /\ ~TooDeep(p)
           last == Do(r, once(a))
           e == ErrorAndBump(p)
           b == Bump(p)
<1>0. 0 \in Int /\ 3 \in Nat /\ 1 <= 3
  OBVIOUS
<1>1. /\ Runs(again, 0, 0) /\ 1 <= Len(again) /\ Left(again, 1)[1] = "STATEMENTS" /\ Left(again, 1)[2] = TRUE
  <2> DEFINE s == <<"STATEMENTS", TRUE, after>>
  <2>1. s[1] = "STATEMENTS" /\ s[2] = TRUE /\ s[1] \notin Special
    BY DEF Special
  <2> HIDE DEF s
  <2>2. Runs(<<s>>, 0, 0) /\ Len(<<s>>) = 1 /\ Left(<<s>>, 1) = s
    BY <2>1, OneRuns, OneStep
  <2> DEFINE w == <<s>>
  <2> HIDE DEF w
  <2>3. Runs(w, 0, 0) /\ 1 <= Len(w) /\ Left(w, 1)[1] = "STATEMENTS" /\ Left(w, 1)[2] = TRUE
    BY <2>1, <2>2 DEF w
  <2>4. QED
    BY <2>3 DEF w, s
<1>2. ASSUME NEW x
      PROVE  Runs(once(x), 0, 0) /\ 1 <= Len(once(x)) /\ Left(once(x), 1)[1] = "STATEMENTS" /\ Left(once(x), 1)[2] = TRUE
  <2> DEFINE s == <<"STATEMENTS", TRUE, x>>
             o == <<"STATEMENT">>
             w == <<o, s>>
  <2>1. s[1] = "STATEMENTS" /\ s[2] = TRUE /\ s[1] \notin Special /\ o[1] \notin Special
    BY DEF Special
  <2> HIDE DEF s, o
  <2>2. Runs(w, 0, 0)
    BY <2>1, TwoRun
  <2>3. Len(w) = 2 /\ w[2] = s /\ Left(w, 1) = w[Len(w) + 1 - 1]
    BY DEF Left
  <2> HIDE DEF w
  <2>4. Left(w, 1) = s /\ 1 <= Len(w)
    BY <2>3
  <2>5. QED
    BY <2>1, <2>2, <2>4 DEF w, o, s
<1>3. \/ Statements(p, TRUE, after) = Do(e, again)
      \/ Statements(p, TRUE, after) = Do(b, again)
      \/ Statements(p, TRUE, after) = last
  <2>1. Statements(p, TRUE, after) =
          CASE At(p, Eof) -> p
            [] Current(p) \in BlockEnds -> IF TRUE THEN Do(e, again) ELSE p
            [] At(p, ";") -> Do(b, again)
            [] OTHER -> last
    BY Zenon DEF Statements
  <2> HIDE DEF again, last, e, b
  <2>2. QED
    BY <2>1
<1> HIDE DEF again, once, a
<1>4. Works(r, 0, 0, 3) /\ r.todo = p.todo
  BY <1>0, SayWorks
<1>5. Works(e, 0, 0, 3) /\ e.todo = p.todo
  BY <1>0, ErrorAndBumpWorks
<1>6. Works(b, 0, 0, 3) /\ b.todo = p.todo
  BY <1>0, BumpWorks
<1> HIDE DEF r, e, b
<1>7. Fine(Do(e, again)) /\ Fine(Do(b, again))
  BY <1>1, <1>5, <1>6, TopDo
<1>8. Fine(Do(r, once(a)))
  BY <1>2, <1>4, TopDo
<1>9. QED
  BY <1>3, <1>7, <1>8

\* At the end of the text no statement is left.
LEMMA NoStatements ==
    ASSUME NEW p, At(p, Eof), NEW top, NEW after
    PROVE  Statements(p, top, after) = p
<1> DEFINE ends == IF top THEN Do(ErrorAndBump(p), << <<"STATEMENTS", top, after>> >>) ELSE p
           next == Do(Bump(p), << <<"STATEMENTS", top, after>> >>)
           last == Do(IF after THEN Error(p, "afterReturn") ELSE p,
                        << <<"STATEMENT">>, <<"STATEMENTS", top, At(p, "return") /\ ~TooDeep(p)>> >>)
<1>1. Statements(p, top, after) =
        CASE At(p, Eof) -> p [] Current(p) \in BlockEnds -> ends [] At(p, ";") -> next [] OTHER -> last
  BY Zenon DEF Statements
<1> HIDE DEF ends, next, last
<1>2. ~(Current(p) \in BlockEnds) /\ ~At(p, ";")
  BY DEF At, BlockEnds, Eof
<1>3. QED
  BY <1>1, <1>2

\* A number of steps and the list of them.
LEMMA StepsLeft ==
    ASSUME NEW p, Shape(p), Len(p.todo) # 0
    PROVE  p.todo # <<>>
<1> DEFINE t == p.todo
<1>1. IsSeq(t) /\ Len(t) # 0
  BY DEF Shape
<1> HIDE DEF t
<1>2. t # <<>>
  BY <1>1, SeqFacts
<1>3. QED
  BY <1>2 DEF t

\* The statements, and the end of the block.
LEMMA LastStatements ==
    ASSUME NEW p, Busy(p), Len(p.todo) = 4
    PROVE  Busy(Step([p EXCEPT !.todo = Tail(@)], Head(p.todo)))
<1> DEFINE q == [p EXCEPT !.todo = Tail(@)]
           s == Head(p.todo)
           n == Len(p.todo) - 1
<1>0. 3 \in Nat /\ n = 3 /\ 1 <= 4 /\ 4 <= 4
  OBVIOUS
<1>1. Shape(p) /\ EndsRight(p.todo)
  BY DEF Busy, Ready
<1>2. s[1] = "STATEMENTS" /\ s[2] = TRUE
  <2>1. Left(p.todo, Len(p.todo)) = s
    BY <1>1, PopFields DEF Busy
  <2>2. Left(p.todo, 4)[1] = "STATEMENTS" /\ Left(p.todo, 4)[2] = TRUE
    BY <1>0, <1>1 DEF EndsRight
  <2> HIDE DEF s
  <2>3. QED
    BY <2>1, <2>2
<1>3. Len(q.todo) = n /\ (s[1] \notin {"START", "FINISH", "LEAVE"} => Works(q, 0, 0, n))
  BY PopWorks
<1> HIDE DEF q, s, n
<1>4. Works(q, 0, 0, 3) /\ Len(q.todo) = 3
  BY <1>0, <1>2, <1>3
<1>5. Step(q, s) = Statements(q, TRUE, s[3])
  BY <1>2 DEF Step
<1>6. CASE At(q, Eof)
  <2>1. Statements(q, TRUE, s[3]) = q
    BY <1>6, NoStatements
  <2>2. Ready(q, Len(q.open), q.depth) /\ q.depth <= DepthLimit /\ Shape(q)
    BY <1>0, <1>4, WorksReady
  <2>3. q.todo # <<>>
    BY <1>0, <1>4, <2>2, StepsLeft
  <2>4. ~(Len(q.todo) <= 1)
    BY <1>4
  <2>5. Busy(q)
    BY <1>6, <2>2, <2>3, <2>4 DEF Busy
  <2>6. QED
    BY <1>5, <2>1, <2>5 DEF q, s
<1>7. CASE ~At(q, Eof)
  <2>1. Fine(Statements(q, TRUE, s[3]))
    BY <1>4, <1>7, TopStatements
  <2>2. QED
    BY <1>5, <2>1, FineBusy DEF q, s
<1>8. QED
  BY <1>6, <1>7

\* The end of the block.
LEMMA LastBlock ==
    ASSUME NEW p, Busy(p), Len(p.todo) = 3
    PROVE  Busy(Step([p EXCEPT !.todo = Tail(@)], Head(p.todo)))
<1> DEFINE q == [p EXCEPT !.todo = Tail(@)]
           s == Head(p.todo)
           n == Len(p.todo) - 1
           f == FinishNode(q)
<1>0. 2 \in Nat /\ n = 2 /\ 1 <= 3 /\ 3 <= 3 /\ 1 \in Int /\ 0 \in Int /\ 1 <= 1 /\ 1 <= 2 /\ 1 - 1 = 0
  OBVIOUS
<1>1. Shape(p) /\ EndsRight(p.todo) /\ At(p, Eof)
  BY <1>0 DEF Busy, Ready
<1>2. s[1] = "FINISH" /\ SameBut(p, q, {"todo"})
  <2>1. Left(p.todo, Len(p.todo)) = s /\ SameBut(p, q, {"todo"})
    BY <1>1, PopFields DEF Busy
  <2>2. Left(p.todo, 3) = <<"FINISH">>
    BY <1>0, <1>1 DEF EndsRight
  <2> HIDE DEF s, q
  <2>3. QED
    BY <2>1, <2>2
<1>3. Len(q.todo) = n /\ (s[1] = "FINISH" => Works(q, 1, 0, n))
  BY PopWorks
<1> HIDE DEF q, s, n
<1>4. Works(q, 1, 0, 2) /\ Len(q.todo) = 2
  BY <1>0, <1>2, <1>3
<1>5. Step(q, s) = f
  BY <1>2 DEF Step
<1>6. Works(f, 1 - 1, 0, 2) /\ SameBut(q, f, {"open", "built", "heights"})
  BY <1>0, <1>4, FinishWorks
<1> HIDE DEF f
<1>7. /\ f.tokens = p.tokens /\ f.pos = p.pos /\ f.todo = q.todo
  BY <1>2, <1>6 DEF SameBut, Attributes
<1>8. At(f, Eof)
  BY <1>1, <1>7 DEF At, Current
<1>9. Ready(f, Len(f.open), f.depth) /\ f.depth <= DepthLimit /\ Shape(f)
  BY <1>0, <1>6, WorksReady
<1>10. f.todo # <<>> /\ ~(Len(f.todo) <= 1)
  <2>1. Len(f.todo) = 2
    BY <1>4, <1>7
  <2>2. f.todo # <<>>
    BY <1>9, <2>1, StepsLeft
  <2>3. QED
    BY <2>1, <2>2
<1>11. QED
  BY <1>5, <1>8, <1>9, <1>10 DEF Busy, q, s

\* The trivia at the end of the text.
LEMMA LastTrivia ==
    ASSUME NEW p, Busy(p), Len(p.todo) = 2
    PROVE  Busy(Step([p EXCEPT !.todo = Tail(@)], Head(p.todo)))
<1> DEFINE q == [p EXCEPT !.todo = Tail(@)]
           s == Head(p.todo)
           n == Len(p.todo) - 1
           f == FlushTrivia(q)
<1>0. 1 \in Nat /\ n = 1 /\ 1 <= 2 /\ 2 <= 2 /\ 2 <= 3 /\ 0 \in Int
  OBVIOUS
<1>1. Shape(p) /\ EndsRight(p.todo) /\ At(p, Eof)
  BY <1>0 DEF Busy, Ready
<1>2. s[1] = "TRIVIA" /\ SameBut(p, q, {"todo"})
  <2>1. Left(p.todo, Len(p.todo)) = s /\ SameBut(p, q, {"todo"})
    BY <1>1, PopFields DEF Busy
  <2>2. Left(p.todo, 2) = <<"TRIVIA">>
    BY <1>0, <1>1 DEF EndsRight
  <2> HIDE DEF s, q
  <2>3. QED
    BY <2>1, <2>2
<1>3. Len(q.todo) = n /\ (s[1] \notin {"START", "FINISH", "LEAVE"} => Works(q, 0, 0, n))
  BY PopWorks
<1> HIDE DEF q, s, n
<1>4. Works(q, 0, 0, 1) /\ Len(q.todo) = 1
  BY <1>0, <1>2, <1>3
<1>5. Step(q, s) = f
  BY <1>2 DEF Step
<1>6. /\ Works(f, 0, 0, 1) /\ f.pos = SkipTriviaFrom(q.tokens, q.pos) /\ f.tokens = q.tokens /\ f.todo = q.todo
  BY <1>0, <1>4, BumpWorks
<1> HIDE DEF f
<1>7. q.tokens = p.tokens /\ q.pos = p.pos
  BY <1>2 DEF SameBut, Attributes
<1>8. SkipTriviaFrom(p.tokens, p.pos) = Len(p.tokens) + 1
  BY <1>1, CurrentFacts
<1>9. f.pos = Len(f.tokens) + 1
  BY <1>6, <1>7, <1>8
<1>10. Ready(f, Len(f.open), f.depth) /\ f.depth <= DepthLimit /\ Shape(f)
  BY <1>0, <1>6, WorksReady
<1>11. f.todo # <<>>
  <2>1. Len(f.todo) = 1
    BY <1>4, <1>6
  <2>2. QED
    BY <1>10, <2>1, StepsLeft
<1>12. At(f, Eof)
  <2>1. SkipTriviaFrom(f.tokens, f.pos) = Len(f.tokens) + 1
    <3>1. SkipTriviaFrom(f.tokens, f.pos) \in f.pos..(Len(f.tokens) + 1)
      BY <1>10, CurrentFacts
    <3>2. QED
      BY <1>9, <3>1 DEF Shape
  <2>2. QED
    BY <1>10, <2>1, CurrentFacts
<1>13. QED
  BY <1>5, <1>9, <1>10, <1>11, <1>12 DEF Busy, q, s

\* Done: one tree, of nodes and tokens that span the text.
Ended(p) ==
    /\ p.todo = <<>> /\ p.open = <<>> /\ p.depth = 0 /\ p.deepest <= DepthLimit + 1
    /\ Len(p.built) = 1 /\ p.heights[1] \in Nat /\ 1 <= p.heights[1] /\ p.built[1].at = 0
    /\ p.tokens \in Seq(STRING \ {Eof}) /\ p.pos = Len(p.tokens) + 1
    /\ \E R, cut : /\ Accounted(R, p.tokens) /\ Tiled(p.built[1].kids, R, cut, p.heights[1] - 1)
                   /\ cut[1] = 1 /\ cut[Len(p.built[1].kids) + 1] = p.pos

\* The end of the root.
LEMMA LastRoot ==
    ASSUME NEW p, Busy(p), Len(p.todo) = 1
    PROVE  Ended(Step([p EXCEPT !.todo = Tail(@)], Head(p.todo)))
<1> DEFINE q == [p EXCEPT !.todo = Tail(@)]
           s == Head(p.todo)
           n == Len(p.todo) - 1
           f == FinishNode(q)
           root == f.built[1]
           h == SubtreeHeight(q, 0)
<1>0. n = 0 /\ 1 <= 1 /\ 1 <= 3
  OBVIOUS
<1>1. Shape(p) /\ EndsRight(p.todo) /\ p.pos = Len(p.tokens) + 1
  BY <1>0 DEF Busy, Ready
<1>2. s[1] = "FINISH" /\ SameBut(p, q, {"todo"})
  <2>1. Left(p.todo, Len(p.todo)) = s /\ SameBut(p, q, {"todo"})
    BY <1>1, PopFields DEF Busy
  <2>2. Left(p.todo, 1) = <<"FINISH">>
    BY <1>0, <1>1 DEF EndsRight
  <2> HIDE DEF s, q
  <2>3. QED
    BY <2>1, <2>2
<1>3. Len(q.todo) = n /\ (s[1] = "FINISH" => Works(q, 1, 0, n))
  BY PopWorks
<1> HIDE DEF q, s, n
<1>4. Works(q, 1, 0, 0) /\ Len(q.todo) = 0
  BY <1>0, <1>2, <1>3
<1>5. Step(q, s) = f
  BY <1>2 DEF Step
<1>6. Ready(q, Len(q.open) - 1, q.depth - 0)
  BY <1>4 DEF Works
<1>7. Shape(q) /\ Opened(q) /\ Len(q.open) \in Nat /\ q.depth \in Nat
  BY <1>6, PendingFacts DEF Ready
<1>8. Len(q.open) = 1 /\ q.depth = 0
  <2>1. PICK lv, dp : Balanced(q, Len(q.open) - 1, q.depth - 0, lv, dp)
    BY <1>6 DEF Ready, Pending
  <2>2. lv[0] = 0 /\ dp[0] = 0 /\ lv[Len(q.todo)] = Len(q.open) - 1 /\ dp[Len(q.todo)] = q.depth - 0
    BY <2>1 DEF Balanced
  <2> DEFINE k == Len(q.open) d == q.depth
  <2> HIDE DEF k, d
  <2>3. 0 = k - 1 /\ 0 = d - 0 /\ k \in Nat /\ d \in Nat
    BY <1>4, <1>7, <2>2 DEF k, d
  <2>4. k = 1 /\ d = 0
    BY <2>3
  <2>5. QED
    BY <2>4 DEF k, d
<1>9. q.open[1].first = 0
  BY <1>7 DEF Opened
<1>10. PICK R, cut : Spans(q, R, cut)
  BY <1>6 DEF Ready, Spelled
<1> DEFINE c == [i \in Nat |-> cut[0 + i]]
<1>11. /\ SameBut(q, f, {"open", "built", "heights"}) /\ f.open \in Seq(Opener) /\ Len(f.open) = 1 - 1
       /\ Len(f.built) = 0 + 1 /\ root.at = 0 /\ f.heights[1] = h + 1 /\ h \in Nat
  <2>1. 0 + 1 = 1
    OBVIOUS
  <2>2. LET k == Len(q.open) g == q.open[k].first b == Len(q.built)
               e == SubtreeHeight(q, g) node == f.built[g + 1]
        IN  /\ SameBut(q, f, {"open", "built", "heights"})
            /\ f.open \in Seq(Opener) /\ Len(f.open) = k - 1
            /\ Len(f.built) = g + 1 /\ node.at = 0 /\ f.heights[g + 1] = e + 1 /\ e \in Nat
    BY <1>7, FinishFields
  <2> HIDE DEF f
  <2>3. QED
    BY <1>8, <1>9, <2>1, <2>2
<1>12. Tiled(root.kids, R, c, h) /\ c[1] = cut[0 + 1] /\ c[Len(root.kids) + 1] = q.pos
  <2>1. LET g == q.open[Len(q.open)].first
            e == [i \in Nat |-> cut[g + i]]
            kids == f.built[g + 1].kids
        IN  Tiled(kids, R, e, SubtreeHeight(q, g)) /\ e[1] = cut[g + 1] /\ e[Len(kids) + 1] = q.pos
    BY <1>7, <1>10, FinishTiled
  <2> HIDE DEF f
  <2>2. q.open[Len(q.open)].first = 0
    BY <1>8, <1>9
  <2>3. 0 + 1 = 1
    OBVIOUS
  <2>4. QED
    BY <2>1, <2>2, <2>3
<1>13. cut[0 + 1] = 1 /\ Accounted(R, q.tokens)
  <2>1. cut[1] = 1 /\ 0 + 1 = 1
    BY <1>10 DEF Spans
  <2>2. QED
    BY <1>10, <2>1 DEF Spans
<1> HIDE DEF f, c, h, root
<1>14. q.tokens = p.tokens /\ q.pos = p.pos
  BY <1>2 DEF SameBut, Attributes
<1>15. /\ f.tokens = q.tokens /\ f.pos = q.pos /\ f.todo = q.todo /\ f.depth = q.depth /\ f.deepest = q.deepest
  BY <1>11 DEF SameBut, Attributes
<1>16. q.todo = <<>> /\ f.open = <<>>
  <2>1. IsSeq(q.todo)
    BY <1>7 DEF Shape
  <2> DEFINE t == q.todo o == f.open
  <2>2. IsSeq(t) /\ Len(t) = 0 /\ o \in Seq(Opener) /\ Len(o) = 0
    BY <1>4, <1>11, <2>1
  <2> HIDE DEF t, o
  <2>3. t = <<>> /\ o = <<>>
    BY <2>2, SeqFacts
  <2>4. QED
    BY <2>3 DEF t, o
<1>17. f.heights[1] - 1 = h /\ f.heights[1] \in Nat /\ 1 <= f.heights[1]
  BY <1>11
<1>18. q.tokens \in Seq(STRING \ {Eof}) /\ q.deepest <= DepthLimit + 1
  BY <1>7 DEF Shape
<1>19. Ended(f)
  <2>1. \E N, e : /\ Accounted(N, f.tokens) /\ Tiled(root.kids, N, e, f.heights[1] - 1)
                  /\ e[1] = 1 /\ e[Len(root.kids) + 1] = f.pos
    BY <1>12, <1>13, <1>15, <1>17
  <2>2. Len(f.built) = 1
    BY <1>11
  <2>3. f.pos = Len(f.tokens) + 1
    BY <1>1, <1>14, <1>15
  <2>4. QED
    BY <1>8, <1>11, <1>15, <1>16, <1>17, <1>18, <2>1, <2>2, <2>3 DEF Ended, root
<1>20. QED
  BY <1>5, <1>19 DEF q, s

\* Before the first step.
Started(p) == \E text \in Texts : p = New(text, DepthLimit, HeightLimit, SourceFile)

\* The steps for a text are the start of the root, and others.
Remaining == << <<"START", "BLOCK">>, <<"STATEMENTS", TRUE, FALSE>>, <<"FINISH">>, <<"TRIVIA">>, <<"FINISH">> >>

\* A list of five.
LEMMA Onto ==
    ASSUME NEW a, NEW b, NEW c, NEW d, NEW e
    PROVE  <<a>> \o <<b, c, d, e>> = <<a, b, c, d, e>>
<1>1. IsSeq(<<a>>) /\ IsSeq(<<b>>) /\ IsSeq(<<c>>) /\ IsSeq(<<d>>) /\ IsSeq(<<e>>)
  BY OneStep
<1>2. <<b, c>> = <<b>> \o <<c>> /\ <<b, c, d>> = <<b, c>> \o <<d>> /\ <<b, c, d, e>> = <<b, c, d>> \o <<e>>
  BY Two, Three, Four
<1>3. IsSeq(<<b, c>>) /\ IsSeq(<<b, c, d>>)
  BY <1>1, <1>2, ConcatFacts DEF Joined
<1>4. <<a>> \o <<b, c>> = <<a, b, c>>
  <2>1. <<a>> \o (<<b>> \o <<c>>) = (<<a>> \o <<b>>) \o <<c>>
    BY <1>1, ConcatAssoc
  <2>2. <<a>> \o <<b>> = <<a, b>> /\ <<a, b>> \o <<c>> = <<a, b, c>>
    BY Two, Three
  <2>3. QED
    BY <1>2, <2>1, <2>2, Zenon
<1>5. <<a>> \o <<b, c, d>> = <<a, b, c, d>>
  <2> DEFINE s == <<a>> t == <<b, c>> w == <<d>>
  <2>1. IsSeq(s) /\ IsSeq(t) /\ IsSeq(w)
    BY <1>1, <1>3
  <2> HIDE DEF s, t, w
  <2>2. s \o (t \o w) = (s \o t) \o w
    BY <2>1, ConcatAssoc
  <2>3. (s \o t) \o w = <<a, b, c>> \o <<d>> /\ t \o w = <<b, c, d>>
    BY <1>2, <1>4 DEF s, t, w
  <2>4. s \o <<b, c, d>> = <<a, b, c, d>>
    BY <2>2, <2>3, Four
  <2>5. QED
    BY <2>4 DEF s
<1>6. QED
  <2> DEFINE s == <<a>> t == <<b, c, d>> w == <<e>>
  <2>1. IsSeq(s) /\ IsSeq(t) /\ IsSeq(w)
    BY <1>1, <1>3
  <2> HIDE DEF s, t, w
  <2>2. s \o (t \o w) = (s \o t) \o w
    BY <2>1, ConcatAssoc
  <2>3. (s \o t) \o w = <<a, b, c, d>> \o <<e>> /\ t \o w = <<b, c, d, e>>
    BY <1>2, <1>5 DEF s, t, w
  <2>4. s \o <<b, c, d, e>> = <<a, b, c, d, e>>
    BY <2>2, <2>3, Five
  <2>5. QED
    BY <2>4 DEF s

\* The first step of a text, and those behind it.
LEMMA SourceFileIs == SourceFile = << <<"START", "SOURCE_FILE">> >> \o Remaining
<1> DEFINE r == <<"START", "SOURCE_FILE">>
           a == <<"START", "BLOCK">>
           b == <<"STATEMENTS", TRUE, FALSE>>
           f == <<"FINISH">>
           t == <<"TRIVIA">>
<1>1. SourceFile = (<<r>> \o (((<<a>> \o <<b>>) \o <<f>>) \o <<t>>)) \o <<f>>
  BY Zenon DEF SourceFile, Within, BlockOf, Finish
<1>2. Remaining = <<a, b, f, t, f>>
  BY Zenon DEF Remaining
<1> HIDE DEF r, a, b, f, t
<1>3. ((<<a>> \o <<b>>) \o <<f>>) \o <<t>> = <<a, b, f, t>>
  <2>1. <<a>> \o <<b>> = <<a, b>> /\ <<a, b>> \o <<f>> = <<a, b, f>> /\ <<a, b, f>> \o <<t>> = <<a, b, f, t>>
    BY Two, Three, Four
  <2>2. QED
    BY <2>1, Zenon
<1> DEFINE s == <<r>> w == <<a, b, f, t>> z == <<f>>
<1>4. IsSeq(s) /\ IsSeq(w) /\ IsSeq(z)
  <2>1. IsSeq(<<a, b, f>>)
    <3>1. IsSeq(<<a>>) /\ IsSeq(<<b>>) /\ IsSeq(<<f>>)
      BY OneStep
    <3>2. <<a, b>> = <<a>> \o <<b>> /\ <<a, b, f>> = <<a, b>> \o <<f>>
      BY Two, Three
    <3>3. IsSeq(<<a, b>>)
      BY <3>1, <3>2, ConcatFacts DEF Joined
    <3>4. QED
      BY <3>1, <3>2, <3>3, ConcatFacts DEF Joined
  <2>2. IsSeq(<<t>>) /\ IsSeq(s) /\ IsSeq(z)
    BY OneStep
  <2>3. w = <<a, b, f>> \o <<t>>
    BY Four
  <2>4. QED
    BY <2>1, <2>2, <2>3, ConcatFacts DEF Joined
<1>5. w \o z = <<a, b, f, t, f>>
  BY Five
<1>6. SourceFile = (s \o w) \o z
  BY <1>1, <1>3
<1> HIDE DEF s, w, z
<1>7. (s \o w) \o z = s \o (w \o z)
  BY <1>4, ConcatAssoc
<1>8. SourceFile = s \o Remaining
  <2>1. w \o z = Remaining
    BY <1>2, <1>5, Zenon DEF w, z
  <2>2. QED
    BY <1>6, <1>7, <2>1
<1>9. QED
  BY <1>8 DEF s, r

\* The steps behind the first, from the end.
LEMMA RemainingFacts ==
    /\ IsSeq(Remaining) /\ Len(Remaining) = 5
    /\ Left(Remaining, 5) = <<"START", "BLOCK">> /\ Left(Remaining, 4) = <<"STATEMENTS", TRUE, FALSE>>
    /\ Left(Remaining, 3) = <<"FINISH">> /\ Left(Remaining, 2) = <<"TRIVIA">> /\ Left(Remaining, 1) = <<"FINISH">>
<1> DEFINE a == <<"START", "BLOCK">>
           b == <<"STATEMENTS", TRUE, FALSE>>
           f == <<"FINISH">>
           t == <<"TRIVIA">>
<1>1. Remaining = <<a, b, f, t, f>>
  BY Zenon DEF Remaining
<1> HIDE DEF a, b, f, t
<1> DEFINE w == <<a, b, f, t, f>>
           P == {a, b, f, t}
<1>2. w \in Seq(P) /\ Len(w) = 5
  OBVIOUS
<1>3. w[1] = a /\ w[2] = b /\ w[3] = f /\ w[4] = t /\ w[5] = f
  OBVIOUS
<1> HIDE DEF w, P
<1>4. 5 + 1 - 5 = 1 /\ 5 + 1 - 4 = 2 /\ 5 + 1 - 3 = 3 /\ 5 + 1 - 2 = 4 /\ 5 + 1 - 1 = 5
  OBVIOUS
<1>5. Left(w, 5) = a /\ Left(w, 4) = b /\ Left(w, 3) = f /\ Left(w, 2) = t /\ Left(w, 1) = f
  BY <1>2, <1>3, <1>4 DEF Left
<1>6. IsSeq(w)
  BY <1>2 DEF IsSeq
<1>7. Remaining = w
  BY <1>1 DEF w
<1>8. QED
  BY <1>2, <1>5, <1>6, <1>7 DEF a, b, f, t

\* Sequences of whatever elements, the same at each place.
LEMMA SameSeq ==
    ASSUME NEW s, NEW t, IsSeq(s), IsSeq(t), Len(s) = Len(t), \A i \in 1..Len(s) : s[i] = t[i]
    PROVE  s = t
<1>1. PICK A, B : s \in Seq(A) /\ t \in Seq(B)
  BY DEF IsSeq
<1> DEFINE P == A \cup B
<1>2. s \in Seq(P) /\ t \in Seq(P)
  BY <1>1
<1> HIDE DEF P
<1>3. QED
  BY <1>2, SeqSame

\* What a parser starts with.
LEMMA FirstPop ==
    ASSUME NEW text, NEW p, p = New(text, DepthLimit, HeightLimit, SourceFile)
    PROVE  /\ p.todo # <<>> /\ Head(p.todo) = <<"START", "SOURCE_FILE">> /\ Tail(p.todo) = Remaining
<1> DEFINE s == <<"START", "SOURCE_FILE">>
           w == <<s>> \o Remaining
<1>1. p.todo = w
  BY SourceFileIs DEF New
<1>2. IsSeq(<<s>>) /\ IsSeq(Remaining) /\ Len(<<s>>) = 1 /\ Len(Remaining) = 5 /\ <<s>>[1] = s
  BY OneStep, RemainingFacts
<1> DEFINE o == <<s>>
<1> HIDE DEF o, s
<1>3. Len(o) = 1 /\ o[1] = s /\ IsSeq(o)
  BY <1>2 DEF o
<1>4. w = o \o Remaining
  BY DEF o
<1> HIDE DEF w
<1>5. /\ IsSeq(w) /\ Len(w) = 6 /\ w[1] = s
      /\ \A i \in 1..5 : w[1 + i] = Remaining[i]
  <2>1. Joined(o, Remaining, w)
    BY <1>2, <1>3, <1>4, ConcatFacts
  <2>2. /\ IsSeq(w) /\ Len(w) = Len(o) + Len(Remaining)
        /\ \A i \in 1..Len(o) : w[i] = o[i]
        /\ \A i \in 1..Len(Remaining) : w[Len(o) + i] = Remaining[i]
    BY <2>1 DEF Joined
  <2>3. w[1] = o[1]
    BY <1>3, <2>2
  <2>4. \A i \in 1..5 : w[1 + i] = Remaining[i]
    BY <1>2, <1>3, <2>2
  <2>5. QED
    BY <1>2, <1>3, <2>2, <2>3, <2>4
<1>6. w # <<>>
  <2> DEFINE v == Len(w)
  <2>1. v = 6 /\ (w = <<>> <=> v = 0)
    BY <1>5, SeqFacts
  <2> HIDE DEF v
  <2>2. QED
    BY <2>1
<1>7. IsSeq(Tail(w)) /\ Len(Tail(w)) = 5 /\ Head(w) = s /\ \A i \in 1..5 : Tail(w)[i] = w[i + 1]
  <2>1. /\ IsSeq(Tail(w)) /\ Len(Tail(w)) = Len(w) - 1 /\ Head(w) = w[1]
        /\ \A i \in 1..(Len(w) - 1) : Tail(w)[i] = w[i + 1]
    BY <1>5, <1>6, TailFacts
  <2>2. Len(w) - 1 = 5
    BY <1>5
  <2>3. QED
    BY <1>5, <2>1, <2>2
<1>8. \A i \in 1..5 : Tail(w)[i] = Remaining[i]
  <2>1. TAKE i \in 1..5
  <2>2. i + 1 = 1 + i
    OBVIOUS
  <2>3. QED
    BY <1>5, <1>7, <2>2
<1>9. Tail(w) = Remaining
  <2> DEFINE t == Tail(w)
  <2>1. IsSeq(t) /\ Len(t) = Len(Remaining) /\ \A i \in 1..Len(t) : t[i] = Remaining[i]
    BY <1>2, <1>7, <1>8
  <2> HIDE DEF t
  <2>2. t = Remaining
    BY <1>2, <2>1, SameSeq
  <2>3. QED
    BY <2>2 DEF t
<1>10. QED
  BY <1>1, <1>6, <1>7, <1>9 DEF s

\* The start of the root.
LEMMA FirstStep ==
    ASSUME NEW p, Started(p), ParsingAssumption
    PROVE  Busy(Step([p EXCEPT !.todo = Tail(@)], Head(p.todo)))
<1>1. PICK text \in Texts : p = New(text, DepthLimit, HeightLimit, SourceFile)
  BY DEF Started
<1> DEFINE q == [p EXCEPT !.todo = Tail(@)]
           s == Head(p.todo)
           f == StartNode(q, "SOURCE_FILE")
           o == [kind |-> "SOURCE_FILE", first |-> 0]
<1>2. p.todo # <<>> /\ s = <<"START", "SOURCE_FILE">> /\ Tail(p.todo) = Remaining
  BY <1>1, FirstPop
<1>3. /\ DOMAIN q = Attributes /\ q.tokens = text /\ q.pos = 1 /\ q.built = <<>> /\ q.heights = <<>> /\ q.open = <<>>
      /\ q.depth = 0 /\ q.deepest = 0 /\ q.maxDepth = DepthLimit /\ q.todo = Remaining
  <2>1. /\ DOMAIN p = Attributes /\ p.tokens = text /\ p.pos = 1 /\ p.built = <<>> /\ p.heights = <<>> /\ p.open = <<>>
        /\ p.depth = 0 /\ p.deepest = 0 /\ p.maxDepth = DepthLimit
    BY <1>1 DEF New, Attributes
  <2>2. QED
    BY <1>2, <2>1 DEF Attributes
<1> HIDE DEF q
<1>4. /\ DOMAIN f = Attributes /\ f.tokens = text /\ f.pos = 1 /\ f.built = <<>> /\ f.heights = <<>>
      /\ f.depth = 0 /\ f.deepest = 0 /\ f.maxDepth = DepthLimit /\ f.todo = Remaining
      /\ f.open = Append(<<>>, o)
  BY <1>3 DEF StartNode, StartFlushed, StartNodeAt, Attributes
<1>5. s[1] = "START" /\ s[2] = "SOURCE_FILE"
  BY <1>2
<1> HIDE DEF s
<1>6. Step(q, s) = f
  BY <1>5 DEF Step
<1> HIDE DEF f
<1>7. o \in Opener /\ o.first = 0
  BY DEF Opener, Kinds
<1> HIDE DEF o
<1>8. f.open \in Seq(Opener) /\ Len(f.open) = 1 /\ f.open[1] = o /\ f.open # <<>>
  BY <1>4, <1>7
<1>9. text \in Seq(STRING \ {Eof}) /\ DepthLimit \in Nat
  BY DEF ParsingAssumption
<1>10. IsSeq(f.built) /\ f.heights \in Seq(Nat) /\ Len(f.built) = 0 /\ Len(f.heights) = 0 /\ Len(text) \in Nat
  BY <1>4, <1>9 DEF IsSeq
<1>11. Shape(f)
  <2>1. 1 \in 1..(Len(text) + 1) /\ 0 <= DepthLimit + 1
    BY <1>9, <1>10
  <2>2. IsSeq(f.todo)
    BY <1>4, RemainingFacts
  <2>3. QED
    BY <1>4, <1>8, <1>9, <1>10, <2>1, <2>2 DEF Shape
<1>12. Opened(f)
  BY <1>7, <1>8, <1>10 DEF Opened
<1>13. Spelled(f)
  <2> DEFINE cut == [i \in Nat |-> 1]
  <2>1. Spans(f, {}, cut)
    BY <1>4, <1>10 DEF Spans, Accounted
  <2>2. QED
    BY <2>1 DEF Spelled
<1>14. Pending(f, Len(f.open), f.depth)
  <2> DEFINE lv == [k \in Nat |-> IF k \in {1, 2, 5} THEN 1 ELSE IF k \in {3, 4} THEN 2 ELSE 0]
             dp == [k \in Nat |-> 0]
             t == f.todo
  <2>1. lv \in [Nat -> Nat] /\ dp \in [Nat -> Nat]
    OBVIOUS
  <2>2. lv[0] = 0 /\ lv[1] = 1 /\ lv[2] = 1 /\ lv[3] = 2 /\ lv[4] = 2 /\ lv[5] = 1 /\ \A k \in Nat : dp[k] = 0
    OBVIOUS
  <2> HIDE DEF lv, dp
  <2>3. /\ Len(t) = 5
        /\ Left(t, 5) = <<"START", "BLOCK">> /\ Left(t, 4) = <<"STATEMENTS", TRUE, FALSE>>
        /\ Left(t, 3) = <<"FINISH">> /\ Left(t, 2) = <<"TRIVIA">> /\ Left(t, 1) = <<"FINISH">>
    BY <1>4, RemainingFacts
  <2> HIDE DEF t
  <2>4. /\ Left(t, 5)[1] = "START" /\ Left(t, 5)[2] = "BLOCK" /\ Left(t, 4)[1] = "STATEMENTS"
        /\ Left(t, 3)[1] = "FINISH" /\ Left(t, 2)[1] = "TRIVIA" /\ Left(t, 1)[1] = "FINISH"
    BY <2>3
  <2>5. \A k \in 1..5 : MarkersOf(Left(t, k)) = {}
    <3>1. TAKE k \in 1..5
    <3>2. k \in {1, 2, 3, 4, 5}
      OBVIOUS
    <3>3. Left(t, k)[1] \in {"START", "STATEMENTS", "FINISH", "TRIVIA"}
      BY <2>4, <3>2
    <3>4. QED
      BY <3>3 DEF MarkersOf
  <2>6. \A k \in 1..5 : Typed(Left(t, k))
    <3>1. TAKE k \in 1..5
    <3>2. k \in {1, 2, 3, 4, 5}
      OBVIOUS
    <3>3. Left(t, k)[1] \in {"STATEMENTS", "FINISH", "TRIVIA"} \/ (Left(t, k)[1] = "START" /\ Left(t, k)[2] \in Kinds)
      BY <2>4, <3>2 DEF Kinds
    <3>4. QED
      BY <3>3 DEF Typed
  <2>7. \A k \in 1..5 : Falls(Left(t, k), lv[k], lv[k - 1], dp[k], dp[k - 1])
    <3>1. 5 - 1 = 4 /\ 4 - 1 = 3 /\ 3 - 1 = 2 /\ 2 - 1 = 1 /\ 1 - 1 = 0
      OBVIOUS
    <3>2. dp[0] = 0 /\ dp[1] = 0 /\ dp[2] = 0 /\ dp[3] = 0 /\ dp[4] = 0 /\ dp[5] = 0
      BY <2>2
    <3>3. Falls(Left(t, 5), lv[5], lv[4], dp[5], dp[4]) /\ Falls(Left(t, 4), lv[4], lv[3], dp[4], dp[3])
      BY <2>2, <2>4, <3>2 DEF Falls
    <3>4. /\ Falls(Left(t, 3), lv[3], lv[2], dp[3], dp[2]) /\ Falls(Left(t, 2), lv[2], lv[1], dp[2], dp[1])
          /\ Falls(Left(t, 1), lv[1], lv[0], dp[1], dp[0])
      BY <2>2, <2>4, <3>2 DEF Falls
    <3>5. TAKE k \in 1..5
    <3>6. k \in {1, 2, 3, 4, 5}
      OBVIOUS
    <3>7. QED
      BY <3>1, <3>3, <3>4, <3>6
  <2>8. \A k \in 1..5 : 1 <= lv[k]
    <3>1. TAKE k \in 1..5
    <3>2. k \in {1, 2, 3, 4, 5}
      OBVIOUS
    <3>3. QED
      BY <2>2, <3>2
  <2>9. lv[5] = 1 /\ dp[5] = 0 /\ dp[0] = 0
    BY <2>2
  <2>10. Balanced(f, 1, 0, lv, dp)
    BY <2>1, <2>2, <2>3, <2>5, <2>6, <2>7, <2>8, <2>9 DEF Balanced, t
  <2>11. QED
    BY <1>4, <1>8, <2>10 DEF Pending
<1>15. EndsRight(f.todo)
  <2>1. Left(Remaining, 4)[1] = "STATEMENTS" /\ Left(Remaining, 4)[2] = TRUE
    <3> DEFINE b == <<"STATEMENTS", TRUE, FALSE>>
    <3>1. b[1] = "STATEMENTS" /\ b[2] = TRUE
      OBVIOUS
    <3>2. Left(Remaining, 4) = b
      BY RemainingFacts
    <3> HIDE DEF b
    <3>3. QED
      BY <3>1, <3>2
  <2>2. QED
    BY <1>4, <2>1, RemainingFacts DEF EndsRight
<1>16. Ready(f, Len(f.open), f.depth)
  BY <1>11, <1>12, <1>13, <1>14, <1>15 DEF Ready
<1>17. Len(f.todo) = 5
  BY <1>4, RemainingFacts
<1>18. f.todo # <<>>
  <2> DEFINE n == Len(f.todo)
  <2>1. n = 5
    BY <1>17
  <2> HIDE DEF n
  <2>2. n # 0
    BY <2>1
  <2>3. QED
    BY <1>11, <2>2, StepsLeft DEF n
<1>19. Busy(f)
  <2> DEFINE n == Len(f.todo)
  <2>1. n = 5
    BY <1>17
  <2> HIDE DEF n
  <2>2. ~(n <= 3) /\ ~(n <= 1) /\ 0 <= DepthLimit
    BY <1>9, <2>1
  <2>3. QED
    BY <1>4, <1>16, <1>18, <2>2 DEF Busy, n
<1>20. QED
  BY <1>6, <1>19 DEF q, s

------------------------------------------------------------------------------
(***************************************************************************)
(* The parser never panics.                                                *)
(***************************************************************************)
\* Whatever the text, a parser is before its first step, at work or done.
Parsed(p) == Started(p) \/ Busy(p) \/ Ended(p)

\* Every step of a parser leaves it not begun, at work or done.
LEMMA StepParsed ==
    ASSUME NEW p, Parsed(p), p.todo # <<>>
    PROVE  Parsed(Step([p EXCEPT !.todo = Tail(@)], Head(p.todo)))
<1>1. CASE Started(p)
  BY <1>1, FirstStep, ParserParameters DEF Parsed
<1>2. CASE Busy(p)
  <2> DEFINE n == Len(p.todo)
             q == Step([p EXCEPT !.todo = Tail(@)], Head(p.todo))
  <2>1. IsSeq(p.todo) /\ n \in Nat /\ (p.todo = <<>> <=> n = 0)
    <3>1. IsSeq(p.todo)
      BY <1>2 DEF Busy, Ready, Shape
    <3>2. QED
      BY <3>1, SeqFacts
  <2>2. n = 1 => Ended(q)
    BY <1>2, LastRoot
  <2>3. n = 2 => Busy(q)
    BY <1>2, LastTrivia
  <2>4. n = 3 => Busy(q)
    BY <1>2, LastBlock
  <2>5. n = 4 => Busy(q)
    BY <1>2, LastStatements
  <2>6. 5 <= n => Busy(q)
    BY <1>2, StepBusy
  <2> HIDE DEF n, q
  <2>7. n = 1 \/ n = 2 \/ n = 3 \/ n = 4 \/ 5 <= n
    BY <2>1
  <2>8. Busy(q) \/ Ended(q)
    BY <2>2, <2>3, <2>4, <2>5, <2>6, <2>7
  <2>9. QED
    BY <2>8 DEF Parsed, q
<1>3. CASE Ended(p)
  BY <1>3 DEF Ended
<1>4. QED
  BY <1>1, <1>2, <1>3 DEF Parsed

ParserInv == Parsed(parser)

\* Whatever the text and the budgets, the parser is at every step not begun,
\* at work with its nodes, markers and depth in balance, or done.
THEOREM ParserInductive == ParserSpec => []ParserInv
<1>1. ParserInit => ParserInv
  BY DEF ParserInit, ParserInv, Parsed, Started
<1>2. ParserInv /\ [TakeStep]_parser => ParserInv'
  <2>1. ASSUME ParserInv, TakeStep PROVE ParserInv'
    <3>1. Parsed(parser')
      BY <2>1, StepParsed DEF TakeStep, ParserInv
    <3>2. QED
      BY <3>1 DEF ParserInv
  <2>2. ASSUME ParserInv, UNCHANGED parser PROVE ParserInv'
    BY <2>2 DEF ParserInv
  <2>3. QED
    BY <2>1, <2>2
<1>3. QED
  BY <1>1, <1>2, PTL DEF ParserSpec

\* At work, the step to do is one rowan and the depth allow.
LEMMA BusySafe ==
    ASSUME Busy(parser)
    PROVE  NeverPanics
<1> DEFINE p == parser
           s == Head(p.todo)
           q == [p EXCEPT !.todo = Tail(@)]
<1>1. Ready(p, Len(p.open), p.depth) /\ p.todo # <<>> /\ Shape(p)
  BY DEF Busy, Ready
<1>2. p.open # <<>> /\ p.deepest <= DepthLimit + 1 /\ p.open \in Seq(Opener) /\ p.depth \in Nat /\ IsSeq(p.built)
  BY <1>1 DEF Shape
<1>3. PICK level \in Nat, depth \in Nat :
        /\ Typed(s) /\ Falls(s, Len(p.open), level, p.depth, depth)
        /\ \A m \in MarkersOf(s) : Handy(q, 0, m)
  BY <1>1, PopReady
<1>4. q.open = p.open /\ q.built = p.built
  <2>1. SameBut(p, q, {"todo"})
    BY <1>1, PopFields
  <2>2. QED
    BY <2>1 DEF SameBut, Attributes
<1> HIDE DEF p, s, q
<1>5. s[1] = "LEAVE" => p.depth > 0
  BY <1>2, <1>3 DEF Falls
<1>6. Len(p.open) \in Nat /\ Len(p.open) - 0 = Len(p.open)
  BY <1>2
<1>7. ASSUME NEW m \in MarkersOf(s) PROVE Innermost(p) <= m /\ m <= Len(p.built)
  <2>1. Fits(q, Len(q.open) - 0, m)
    BY <1>3 DEF Handy
  <2>2. p.open[Len(p.open)].first <= m /\ m <= Len(p.built)
    BY <1>4, <1>6, <2>1 DEF Fits
  <2>3. Innermost(p) = p.open[Len(p.open)].first
    BY <1>2 DEF Innermost, Last
  <2>4. QED
    BY <2>2, <2>3
<1>8. s[1] \in {"CHAIN", "LINK"} => \A i, j \in DOMAIN s[2] : i <= j => s[2][i] <= s[2][j]
  <2> DEFINE w == s[2]
  <2>1. s[1] \in {"CHAIN", "LINK"} => w \in Seq(Nat) /\ \A i, j \in 1..Len(w) : i <= j => w[i] <= w[j]
    BY <1>3 DEF Typed
  <2> HIDE DEF w
  <2>2. w \in Seq(Nat) => DOMAIN w = 1..Len(w)
    OBVIOUS
  <2>3. s[1] \in {"CHAIN", "LINK"} => \A i, j \in DOMAIN w : i <= j => w[i] <= w[j]
    BY <2>1, <2>2
  <2>4. QED
    BY <2>3 DEF w
<1>9. QED
  BY <1>1, <1>2, <1>5, <1>7, <1>8 DEF NeverPanics, p, s

\* The invariant rules out every panic.
LEMMA ParserSafe ==
    ASSUME ParserInv
    PROVE  NeverPanics
<1>1. CASE Started(parser)
  <2>1. PICK text \in Texts : parser = New(text, DepthLimit, HeightLimit, SourceFile)
    BY <1>1 DEF Started
  <2> DEFINE s == Head(parser.todo)
  <2>2. parser.todo # <<>> /\ s = <<"START", "SOURCE_FILE">>
    BY <2>1, FirstPop
  <2>3. s[1] = "START"
    BY <2>2
  <2>4. parser.deepest = 0
    BY <2>1 DEF New
  <2>5. 0 <= DepthLimit + 1
    BY ParserParameters DEF ParsingAssumption
  <2> HIDE DEF s
  <2>6. MarkersOf(s) = {}
    BY <2>3 DEF MarkersOf
  <2>7. QED
    BY <2>2, <2>3, <2>4, <2>5, <2>6 DEF NeverPanics, s
<1>2. CASE Busy(parser)
  BY <1>2, BusySafe
<1>3. CASE Ended(parser)
  BY <1>3 DEF Ended, NeverPanics
<1>4. QED
  BY <1>1, <1>2, <1>3 DEF Parsed, ParserInv

------------------------------------------------------------------------------
(***************************************************************************)
(* The tree is the text.                                                   *)
(***************************************************************************)
\* A value, and what n steps make of it, for every n.
Iterated(X, F, first) == {a \in [Nat -> X] : a[0] = first /\ \A n \in Nat : a[n + 1] = F[a[n]]}

\* What a function makes of a value, again and again.
LEMMA Iterates ==
    ASSUME NEW X, NEW F \in [X -> X], NEW first \in X
    PROVE  Iterated(X, F, first) # {}
<1> DEFINE Is(n, a) == a \in [0..n -> X] /\ a[0] = first /\ \A k \in 1..n : a[k] = F[a[k - 1]]
           T == {n \in Nat : \E a : Is(n, a)}
<1>1. 0 \in T
  <2> DEFINE b == [k \in 0..0 |-> first]
  <2>1. Is(0, b)
    OBVIOUS
  <2> HIDE DEF b, Is
  <2>2. QED
    BY <2>1
<1>2. ASSUME NEW m \in Nat, m \in T PROVE m + 1 \in T
  <2>1. PICK a : Is(m, a)
    BY <1>2
  <2> DEFINE b == [k \in 0..(m + 1) |-> IF k = m + 1 THEN F[a[m]] ELSE a[k]]
  <2>2. m \in 0..m /\ a[m] \in X /\ F[a[m]] \in X
    BY <2>1
  <2>3. b \in [0..(m + 1) -> X]
    BY <2>1, <2>2
  <2>4. \A k \in 0..m : b[k] = a[k]
    OBVIOUS
  <2>5. b[m + 1] = F[b[m]] /\ b[0] = first
    BY <2>1, <2>2, <2>4
  <2> HIDE DEF b
  <2>6. ASSUME NEW k \in 1..(m + 1) PROVE b[k] = F[b[k - 1]]
    <3>1. CASE k = m + 1
      <4>1. k - 1 = m
        BY <3>1
      <4>2. QED
        BY <2>5, <3>1, <4>1
    <3>2. CASE k # m + 1
      <4>1. k \in 1..m /\ k - 1 \in 0..m /\ k \in 0..m
        BY <3>2
      <4>2. QED
        BY <2>1, <2>4, <4>1
    <3>3. QED
      BY <3>1, <3>2
  <2>7. Is(m + 1, b)
    BY <2>3, <2>5, <2>6
  <2> HIDE DEF Is
  <2>8. QED
    BY <2>7
<1>3. ASSUME NEW n \in Nat PROVE n \in T
  <2> HIDE DEF T
  <2>1. \A k \in 1..n : k - 1 \in T => k \in T
    <3>1. ASSUME NEW k \in 1..n, k - 1 \in T PROVE k \in T
      <4>1. k - 1 \in Nat /\ (k - 1) + 1 = k
        OBVIOUS
      <4>2. (k - 1) + 1 \in T
        BY <1>2, <3>1, <4>1
      <4>3. QED
        BY <4>1, <4>2
    <3>2. QED
      BY <3>1
  <2>2. 0..n \subseteq T
    BY <1>1, <2>1, CountUp
  <2>3. QED
    BY <2>2
<1>4. ASSUME NEW n \in Nat, NEW a, Is(n, a), NEW b, Is(n + 1, b) PROVE a[n] = b[n]
  <2> DEFINE S == {k \in Nat : k <= n => a[k] = b[k]}
  <2>1. 0 \in S
    BY <1>4
  <2>2. ASSUME NEW k \in 1..n, k - 1 \in S PROVE k \in S
    <3>1. k - 1 <= n /\ k \in 1..(n + 1) /\ k \in Nat
      OBVIOUS
    <3>2. a[k - 1] = b[k - 1]
      BY <2>2, <3>1
    <3>3. a[k] = F[a[k - 1]] /\ b[k] = F[b[k - 1]]
      BY <1>4, <3>1
    <3>4. QED
      BY <3>1, <3>2, <3>3
  <2> HIDE DEF S
  <2>3. 0..n \subseteq S
    BY <2>1, <2>2, CountUp
  <2>4. n \in S /\ n <= n
    BY <2>3
  <2>5. QED
    BY <2>4 DEF S
<1> DEFINE run(n) == CHOOSE a : Is(n, a)
           f == [n \in Nat |-> run(n)[n]]
<1>5. \A n \in Nat : Is(n, run(n))
  <2> HIDE DEF Is
  <2>1. QED
    BY <1>3
<1>6. ASSUME NEW n \in Nat PROVE run(n)[n] \in X
  <2> DEFINE a == run(n)
  <2>1. Is(n, a)
    BY <1>5
  <2> HIDE DEF a
  <2>2. n \in 0..n
    OBVIOUS
  <2>3. a[n] \in X
    BY <2>1, <2>2
  <2>4. QED
    BY <2>3 DEF a
<1>7. f[0] = first
  <2> DEFINE a == run(0)
  <2>1. Is(0, a)
    BY <1>5
  <2>2. f[0] = a[0]
    OBVIOUS
  <2> HIDE DEF a, f
  <2>3. QED
    BY <2>1, <2>2
<1>8. ASSUME NEW n \in Nat PROVE f[n + 1] = F[f[n]]
  <2> DEFINE a == run(n) b == run(n + 1)
  <2>1. Is(n, a) /\ Is(n + 1, b) /\ n + 1 \in Nat
    <3>1. n + 1 \in Nat
      OBVIOUS
    <3> HIDE DEF Is
    <3>2. QED
      BY <1>5, <3>1
  <2>2. f[n] = a[n] /\ f[n + 1] = b[n + 1]
    BY <2>1
  <2> HIDE DEF a, b, f
  <2>3. a[n] = b[n]
    BY <1>4, <2>1
  <2>4. n + 1 \in 1..(n + 1) /\ (n + 1) - 1 = n
    OBVIOUS
  <2>5. b[n + 1] = F[b[n]]
    BY <2>1, <2>4
  <2>6. QED
    BY <2>2, <2>3, <2>5
<1>9. f \in [Nat -> X]
  <2> HIDE DEF run
  <2>1. QED
    BY <1>6
<1> HIDE DEF f
<1>10. QED
  BY <1>7, <1>8, <1>9 DEF Iterated

\* The nodes so many levels below one.
LEMMA BelowIs ==
    ASSUME NEW R, NEW tokens, Covered(R, tokens), NEW x \in R
    PROVE  /\ Below(x[1])[0] = {x[1]}
           /\ \A n \in Nat : Below(x[1])[n + 1] = UNION {ToSet(u.kids) : u \in Below(x[1])[n]}
<1> DEFINE U == {y[1] : y \in R}
           F == [L \in SUBSET U |-> UNION {ToSet(u.kids) : u \in L}]
           node == x[1]
           Is(level) == level = [n \in Nat |-> IF n = 0 THEN {node} ELSE UNION {ToSet(u.kids) : u \in level[n - 1]}]
<1>1. ASSUME NEW u \in U, NEW v \in ToSet(u.kids) PROVE v \in U
  <2>1. PICK y \in R : u = y[1]
    OBVIOUS
  <2>2. PICK i \in DOMAIN u.kids : v = u.kids[i]
    BY DEF ToSet
  <2>3. CASE IsToken(y, tokens)
    <3>1. u.kids = <<>>
      BY <2>1, <2>3 DEF IsToken
    <3>2. QED
      BY <2>2, <3>1
  <2>4. CASE Covers(y, R)
    <3>1. PICK cut : Tiled(u.kids, R, cut, y[4] - 1)
      BY <2>1, <2>4 DEF Covers
    <3>2. i \in 1..Len(u.kids)
      BY <2>2, <3>1, SeqFacts DEF Tiled
    <3>3. PICK h : <<u.kids[i], cut[i], cut[i + 1], h>> \in R
      BY <3>1, <3>2 DEF Tiled
    <3>4. <<u.kids[i], cut[i], cut[i + 1], h>>[1] \in U
      BY <3>3
    <3>5. <<u.kids[i], cut[i], cut[i + 1], h>>[1] = u.kids[i]
      OBVIOUS
    <3>6. QED
      BY <2>2, <3>4, <3>5, Zenon
  <2>5. QED
    BY <2>3, <2>4 DEF Covered
<1>2. F \in [SUBSET U -> SUBSET U]
  <2>1. ASSUME NEW L \in SUBSET U PROVE UNION {ToSet(u.kids) : u \in L} \in SUBSET U
    BY <1>1
  <2> HIDE DEF U
  <2>2. QED
    BY <2>1
<1>3. {node} \in SUBSET U
  OBVIOUS
<1> DEFINE X == SUBSET U start == {node}
<1>4. PICK a \in [Nat -> X] : a[0] = start /\ \A n \in Nat : a[n + 1] = F[a[n]]
  <2>1. F \in [X -> X] /\ start \in X
    BY <1>2, <1>3
  <2> HIDE DEF F, X, start
  <2>2. Iterated(X, F, start) # {}
    BY <2>1, Iterates
  <2>3. QED
    BY <2>2 DEF Iterated
<1>5. \A n \in Nat : a[n + 1] = UNION {ToSet(u.kids) : u \in a[n]}
  BY <1>4
<1>6. Is(a)
  <2> DEFINE b == [n \in Nat |-> IF n = 0 THEN {node} ELSE UNION {ToSet(u.kids) : u \in a[n - 1]}]
  <2>1. ASSUME NEW n \in Nat PROVE a[n] = b[n]
    <3>1. CASE n = 0
      BY <1>4, <3>1
    <3>2. CASE n # 0
      <4>1. n - 1 \in Nat /\ (n - 1) + 1 = n
        BY <3>2
      <4>2. a[(n - 1) + 1] = UNION {ToSet(u.kids) : u \in a[n - 1]}
        BY <1>5, <4>1
      <4>3. b[n] = UNION {ToSet(u.kids) : u \in a[n - 1]}
        BY <3>2
      <4>4. QED
        BY <4>1, <4>2, <4>3
    <3>3. QED
      BY <3>1, <3>2
  <2>2. a = [n \in Nat |-> a[n]]
    BY <1>4
  <2>3. b = [n \in Nat |-> b[n]]
    OBVIOUS
  <2> HIDE DEF b
  <2>4. a = b
    BY <2>1, <2>2, <2>3
  <2>5. QED
    BY <2>4 DEF b
<1>7. Below(node) = CHOOSE level : Is(level)
  BY DEF Below
<1> DEFINE c == CHOOSE level : Is(level)
<1>8. Is(c)
  <2> HIDE DEF Is
  <2>1. QED
    BY <1>6
<1> HIDE DEF c
<1>9. c[0] = {node} /\ \A n \in Nat : c[n + 1] = UNION {ToSet(u.kids) : u \in c[n]}
  <2>1. ASSUME NEW n \in Nat PROVE c[n] = IF n = 0 THEN {node} ELSE UNION {ToSet(u.kids) : u \in c[n - 1]}
    BY <1>8
  <2>2. ASSUME NEW n \in Nat PROVE c[n + 1] = UNION {ToSet(u.kids) : u \in c[n]}
    <3>1. n + 1 \in Nat /\ n + 1 # 0 /\ (n + 1) - 1 = n
      OBVIOUS
    <3>2. c[n + 1] = UNION {ToSet(u.kids) : u \in c[(n + 1) - 1]}
      BY <2>1, <3>1
    <3>3. QED
      BY <3>1, <3>2
  <2>3. QED
    BY <2>1, <2>2
<1>10. QED
  BY <1>7, <1>9 DEF c

\* What lies below is spanned by what it lies below.
LEMMA BelowLies ==
    ASSUME NEW R, NEW tokens, Covered(R, tokens), NEW x \in R, NEW n \in Nat, NEW u \in Below(x[1])[n]
    PROVE  \E y \in R : y[1] = u /\ x[2] <= y[2] /\ y[3] <= x[3] /\ y[4] + n <= x[4]
<1> DEFINE b == Below(x[1])
           Lies(m) == \A v \in b[m] : \E y \in R : y[1] = v /\ x[2] <= y[2] /\ y[3] <= x[3] /\ y[4] + m <= x[4]
           T == {m \in Nat : Lies(m)}
<1>1. b[0] = {x[1]} /\ \A m \in Nat : b[m + 1] = UNION {ToSet(v.kids) : v \in b[m]}
  BY BelowIs
<1> HIDE DEF b
<1>2. 0 \in T
  <2>1. x[2] \in Nat /\ x[3] \in Nat /\ x[4] \in Nat
    BY DEF Covered
  <2>2. x[2] <= x[2] /\ x[3] <= x[3] /\ x[4] + 0 <= x[4]
    BY <2>1
  <2>3. QED
    BY <1>1, <2>2
<1>3. ASSUME NEW m \in Nat, m \in T PROVE m + 1 \in T
  <2>1. ASSUME NEW v \in b[m + 1]
        PROVE  \E y \in R : y[1] = v /\ x[2] <= y[2] /\ y[3] <= x[3] /\ y[4] + (m + 1) <= x[4]
    <3>1. PICK w \in b[m] : v \in ToSet(w.kids)
      <4>1. v \in UNION {ToSet(w.kids) : w \in b[m]}
        BY <1>1
      <4>2. QED
        BY <4>1
    <3>2. PICK i \in DOMAIN w.kids : v = w.kids[i]
      BY <3>1 DEF ToSet
    <3>3. PICK z \in R : z[1] = w /\ x[2] <= z[2] /\ z[3] <= x[3] /\ z[4] + m <= x[4]
      BY <1>3, <3>1
    <3>4. ~IsToken(z, tokens)
      BY <3>2, <3>3 DEF IsToken
    <3>5. PICK cut : Tiled(w.kids, R, cut, z[4] - 1) /\ cut[1] = z[2] /\ cut[Len(w.kids) + 1] = z[3]
      BY <3>3, <3>4 DEF Covered, Covers
    <3>6. IsSeq(w.kids) /\ cut \in [Nat -> Nat]
      BY <3>5 DEF Tiled
    <3> DEFINE k == Len(w.kids)
    <3>7. k \in Nat /\ i \in 1..k
      BY <3>2, <3>6, SeqFacts
    <3>8. PICK h \in 1..(z[4] - 1) : <<w.kids[i], cut[i], cut[i + 1], h>> \in R
      BY <3>5, <3>7 DEF Tiled
    <3>9. \A c, d \in 1..(k + 1) : c <= d => cut[c] <= cut[d]
      BY <3>5, TiledRises
    <3> HIDE DEF k
    <3>10. /\ 1 \in 1..(k + 1) /\ i \in 1..(k + 1) /\ i + 1 \in 1..(k + 1) /\ k + 1 \in 1..(k + 1)
           /\ 1 <= i /\ i + 1 <= k + 1
      BY <3>7
    <3>11. cut[1] <= cut[i] /\ cut[i + 1] <= cut[k + 1]
      BY <3>9, <3>10
    <3>12. cut[1] = z[2] /\ cut[k + 1] = z[3] /\ cut[i] \in Nat /\ cut[i + 1] \in Nat
      <4>1. i \in Nat /\ i + 1 \in Nat
        BY <3>7
      <4>2. cut[i] \in Nat /\ cut[i + 1] \in Nat
        BY <3>6, <4>1
      <4>3. QED
        BY <3>5, <4>2 DEF k
    <3> DEFINE y == <<v, cut[i], cut[i + 1], h>>
    <3>13. y \in R /\ y[1] = v /\ y[2] = cut[i] /\ y[3] = cut[i + 1] /\ y[4] = h
      BY <3>2, <3>8
    <3> HIDE DEF y
    <3>14. x[2] \in Nat /\ x[3] \in Nat /\ x[4] \in Nat /\ z[2] \in Nat /\ z[3] \in Nat /\ z[4] \in Nat
      BY <3>3 DEF Covered
    <3>15. x[2] <= y[2] /\ y[3] <= x[3]
      BY <3>3, <3>11, <3>12, <3>13, <3>14
    <3>16. y[4] + (m + 1) <= x[4]
      BY <3>3, <3>8, <3>13, <3>14
    <3>17. QED
      BY <3>13, <3>15, <3>16
  <2>2. m + 1 \in Nat /\ m + 1 # 0
    OBVIOUS
  <2> DEFINE k == m + 1
  <2>3. ASSUME NEW v \in b[k] PROVE \E y \in R : y[1] = v /\ x[2] <= y[2] /\ y[3] <= x[3] /\ y[4] + k <= x[4]
    BY <2>1
  <2> HIDE DEF k
  <2>4. k \in Nat /\ k # 0
    BY <2>2 DEF k
  <2>5. k \in T
    BY <2>3, <2>4
  <2>6. QED
    BY <2>5 DEF k
<1>4. n \in T
  <2> HIDE DEF T
  <2>1. ASSUME NEW k \in 1..n, k - 1 \in T PROVE k \in T
    <3>1. k - 1 \in Nat /\ (k - 1) + 1 = k
      OBVIOUS
    <3>2. (k - 1) + 1 \in T
      BY <1>3, <2>1, <3>1
    <3>3. QED
      BY <3>1, <3>2
  <2>2. 0..n \subseteq T
    BY <1>2, <2>1, CountUp
  <2>3. QED
    BY <2>2
<1>5. u \in b[n]
  BY DEF b
<1>6. QED
  BY <1>4, <1>5

\* What lies below a child lies below its parent.
LEMMA BelowChild ==
    ASSUME NEW R, NEW tokens, Covered(R, tokens), NEW x \in R, NEW y \in R, y[1] \in ToSet(x[1].kids), NEW n \in Nat
    PROVE  Below(y[1])[n] \subseteq Below(x[1])[n + 1]
<1> DEFINE b == Below(x[1])
           c == Below(y[1])
           T == {m \in Nat : c[m] \subseteq b[m + 1]}
<1>1. /\ b[0] = {x[1]} /\ \A m \in Nat : b[m + 1] = UNION {ToSet(v.kids) : v \in b[m]}
      /\ c[0] = {y[1]} /\ \A m \in Nat : c[m + 1] = UNION {ToSet(v.kids) : v \in c[m]}
  BY BelowIs
<1> HIDE DEF b, c
<1>2. 0 \in T
  <2>1. b[0 + 1] = UNION {ToSet(v.kids) : v \in b[0]}
    <3>1. 0 \in Nat
      OBVIOUS
    <3>2. QED
      BY <1>1, <3>1
  <2>2. y[1] \in b[0 + 1]
    <3> DEFINE L == b[0]
    <3>1. x[1] \in L
      BY <1>1
    <3> HIDE DEF L
    <3>2. y[1] \in UNION {ToSet(v.kids) : v \in L}
      BY <3>1
    <3>3. QED
      BY <2>1, <3>2 DEF L
  <2>3. QED
    BY <1>1, <2>2
<1>3. ASSUME NEW m \in Nat, m \in T PROVE m + 1 \in T
  <2>1. m + 1 \in Nat /\ c[m] \subseteq b[m + 1]
    BY <1>3
  <2>2. c[m + 1] = UNION {ToSet(v.kids) : v \in c[m]} /\ b[(m + 1) + 1] = UNION {ToSet(v.kids) : v \in b[m + 1]}
    BY <1>1, <2>1
  <2>3. c[m + 1] \subseteq b[(m + 1) + 1]
    <3> DEFINE A == c[m] B == b[m + 1]
    <3>1. A \subseteq B
      BY <2>1
    <3> HIDE DEF A, B
    <3>2. UNION {ToSet(v.kids) : v \in A} \subseteq UNION {ToSet(v.kids) : v \in B}
      BY <3>1
    <3>3. QED
      BY <2>2, <3>2 DEF A, B
  <2>4. QED
    BY <2>1, <2>3
<1>4. n \in T
  <2> HIDE DEF T
  <2>1. ASSUME NEW k \in 1..n, k - 1 \in T PROVE k \in T
    <3>1. k - 1 \in Nat /\ (k - 1) + 1 = k
      OBVIOUS
    <3>2. (k - 1) + 1 \in T
      BY <1>3, <2>1, <3>1
    <3>3. QED
      BY <3>1, <3>2
  <2>2. 0..n \subseteq T
    BY <1>2, <2>1, CountUp
  <2>3. QED
    BY <2>2
<1>5. QED
  BY <1>4 DEF b, c

\* Each place a node spans has its token below the node.
LEMMA BelowReaches ==
    ASSUME NEW R, NEW tokens, Covered(R, tokens), NEW x \in R, NEW j \in Nat, x[2] <= j, j < x[3]
    PROVE  \E n \in 0..(x[4] - 1) : \E u \in Below(x[1])[n] : u.at = j
<1> DEFINE Reach(y) == \E n \in 0..(y[4] - 1) : \E u \in Below(y[1])[n] : u.at = j
           T == {h \in Nat : \A y \in R : y[2] <= j /\ j < y[3] /\ y[4] <= h => Reach(y)}
<1>1. 0 \in T
  <2>1. \A y \in R : y[4] \in Nat /\ 1 <= y[4]
    BY DEF Covered
  <2>2. \A y \in R : ~(y[4] <= 0)
    BY <2>1
  <2> HIDE DEF Reach
  <2>3. QED
    BY <2>2
<1>2. ASSUME NEW h \in Nat, h \in T PROVE h + 1 \in T
  <2>1. ASSUME NEW y \in R, y[2] <= j, j < y[3], y[4] <= h + 1 PROVE Reach(y)
    <3>1. y[2] \in Nat /\ y[3] \in Nat /\ y[4] \in Nat /\ 1 <= y[4]
      BY DEF Covered
    <3>2. CASE IsToken(y, tokens)
      <4>1. y[1].at = y[2] /\ y[3] = y[2] + 1
        BY <3>2 DEF IsToken
      <4>2. y[1].at = j
        BY <2>1, <3>1, <4>1
      <4>3. y[1] \in Below(y[1])[0] /\ 0 \in 0..(y[4] - 1)
        BY <3>1, BelowIs
      <4>4. QED
        BY <4>2, <4>3
    <3>3. CASE Covers(y, R)
      <4> DEFINE kids == y[1].kids
                 k == Len(kids)
      <4>1. PICK cut : Tiled(kids, R, cut, y[4] - 1) /\ cut[1] = y[2] /\ cut[k + 1] = y[3]
        BY <3>3 DEF Covers
      <4>2. IsSeq(kids) /\ cut \in [Nat -> Nat] /\ k \in Nat /\ DOMAIN kids = 1..k
        BY <4>1, SeqFacts DEF Tiled
      <4>3. \A i \in 1..k : \E e \in 1..(y[4] - 1) : <<kids[i], cut[i], cut[i + 1], e>> \in R
        BY <4>1 DEF Tiled
      <4> DEFINE l == k + 1
                 S == {i \in 1..l : cut[i] <= j}
      <4> HIDE DEF k, kids
      <4>20. l \in Nat /\ 1 \in 1..l /\ \A i \in 1..l : i \in Nat /\ i <= l
        BY <4>2
      <4> HIDE DEF l
      <4>4. PICK i \in S : \A o \in S : o <= i
        <5>1. S \in SUBSET Nat /\ \A o \in S : o <= l
          BY <4>20
        <5>2. 1 \in S
          BY <2>1, <4>1, <4>20
        <5>3. S # {}
          BY <5>2
        <5> HIDE DEF S
        <5>4. QED
          BY <4>20, <5>1, <5>3, Greatest
      <4>21. i \in 1..l /\ cut[i] <= j
        OBVIOUS
      <4>5. i # l
        BY <2>1, <3>1, <4>1, <4>21 DEF l
      <4>6. i \in 1..k /\ i + 1 \in 1..l /\ ~(i + 1 <= i) /\ i \in Nat /\ i + 1 \in Nat
        BY <4>2, <4>5, <4>21 DEF l
      <4>7. i + 1 \notin S
        <5> HIDE DEF S
        <5>1. QED
          BY <4>4, <4>6
      <4>8. cut[i] \in Nat /\ cut[i + 1] \in Nat
        BY <4>2, <4>6
      <4>9. cut[i] <= j /\ j < cut[i + 1]
        BY <4>21, <4>6, <4>7, <4>8
      <4>10. PICK e \in 1..(y[4] - 1) : <<kids[i], cut[i], cut[i + 1], e>> \in R
        BY <4>3, <4>6
      <4> DEFINE z == <<kids[i], cut[i], cut[i + 1], e>>
      <4>11. z \in R /\ z[1] = kids[i] /\ z[2] = cut[i] /\ z[3] = cut[i + 1] /\ z[4] = e
        BY <4>10
      <4> HIDE DEF z
      <4>12. e <= h /\ e \in Nat /\ e + 1 <= y[4]
        BY <2>1, <3>1, <4>10
      <4>13. Reach(z)
        <5>1. z[2] <= j /\ j < z[3] /\ z[4] <= h
          BY <4>9, <4>11, <4>12
        <5> HIDE DEF Reach
        <5>2. QED
          BY <1>2, <4>11, <5>1
      <4>14. PICK n \in 0..(z[4] - 1) : \E u \in Below(z[1])[n] : u.at = j
        BY <4>13
      <4>15. n \in Nat /\ n + 1 \in 0..(y[4] - 1)
        BY <3>1, <4>11, <4>12, <4>14
      <4>16. z[1] \in ToSet(y[1].kids)
        BY <4>2, <4>6, <4>11 DEF ToSet, kids
      <4>17. Below(z[1])[n] \subseteq Below(y[1])[n + 1]
        BY <4>11, <4>15, <4>16, BelowChild
      <4>18. QED
        BY <4>14, <4>15, <4>17
    <3>4. QED
      BY <3>2, <3>3 DEF Covered
  <2> HIDE DEF Reach
  <2>2. QED
    BY <2>1
<1>3. x[4] \in Nat
  BY DEF Covered
<1>4. x[4] \in T
  <2> DEFINE n == x[4]
  <2> HIDE DEF T
  <2>1. n \in Nat
    BY <1>3
  <2> HIDE DEF n
  <2>2. ASSUME NEW k \in 1..n, k - 1 \in T PROVE k \in T
    <3>1. k - 1 \in Nat /\ (k - 1) + 1 = k
      BY <2>1
    <3>2. (k - 1) + 1 \in T
      BY <1>2, <2>2, <3>1
    <3>3. QED
      BY <3>1, <3>2
  <2>3. 0..n \subseteq T
    BY <1>1, <2>1, <2>2, CountUp
  <2>4. n \in T
    BY <2>1, <2>3
  <2>5. QED
    BY <2>4 DEF n
<1>5. x[4] <= x[4]
  BY <1>3
<1>6. QED
  <2> HIDE DEF Reach
  <2>1. Reach(x)
    BY <1>4, <1>5
  <2>2. QED
    BY <2>1 DEF Reach

\* The tokens under a node are tokens of the text that it spans.
LEMMA TokensUnder ==
    ASSUME NEW R, NEW tokens, Covered(R, tokens), NEW x \in R, NEW height \in Nat, NEW u \in TokensOf(x[1], height)
    PROVE  u.at \in DOMAIN tokens /\ u.kids = <<>> /\ u.kind = tokens[u.at] /\ x[2] <= u.at /\ u.at < x[3]
<1>1. u.at # 0 /\ u \in UNION {Below(x[1])[n] : n \in 0..height}
  BY DEF TokensOf, Under
<1>2. PICK n \in 0..height : u \in Below(x[1])[n]
  BY <1>1
<1>3. PICK y \in R : y[1] = u /\ x[2] <= y[2] /\ y[3] <= x[3]
  <2>1. n \in Nat
    OBVIOUS
  <2>2. QED
    BY <1>2, <2>1, BelowLies
<1>4. IsToken(y, tokens)
  BY <1>1, <1>3 DEF Covered, Covers
<1>5. u.at = y[2] /\ u.kids = <<>> /\ y[3] = y[2] + 1 /\ y[2] \in 1..Len(tokens) /\ u.kind = tokens[y[2]]
  BY <1>3, <1>4 DEF IsToken
<1>6. x[2] \in Nat /\ x[3] \in Nat /\ y[2] \in Nat
  BY DEF Covered
<1>7. x[2] <= u.at /\ u.at < x[3]
  BY <1>3, <1>5, <1>6
<1>8. QED
  BY <1>5, <1>7

\* Children accounted for by some nodes are so by more.
LEMMA TiledMore ==
    ASSUME NEW R, NEW N, R \subseteq N, NEW kids, NEW cut, NEW height, Tiled(kids, R, cut, height)
    PROVE  Tiled(kids, N, cut, height)
BY DEF Tiled

\* The tree of a text.
IsText(root, height, tokens) ==
    /\ Below(root)[height] = {}
    /\ {u.at : u \in TokensOf(root, height)} = DOMAIN tokens
    /\ \A u \in TokensOf(root, height) : u.kids = <<>> /\ u.kind = tokens[u.at]
    /\ \A u \in Under(root, height) : \A i, j \in DOMAIN u.kids :
         i < j => \A x \in TokensOf(u.kids[i], height), y \in TokensOf(u.kids[j], height) : x.at < y.at
    /\ \A u \in Under(root, height) \ {root} : u.kids # <<>> => u.kids[1].kind # Trivia

\* What lies below a node that is accounted for is accounted for.
LEMMA BelowIn ==
    ASSUME NEW R, NEW tokens, Covered(R, tokens), NEW x \in R, NEW n \in Nat, NEW u \in Below(x[1])[n]
    PROVE  \E y \in R : y[1] = u
<1>1. PICK y \in R : y[1] = u /\ x[2] <= y[2] /\ y[3] <= x[3] /\ y[4] + n <= x[4]
  BY BelowLies
<1>2. QED
  BY <1>1

\* A root whose children span the text is the text.
LEMMA WholeText ==
    ASSUME NEW tokens \in Seq(STRING), NEW root, root.at = 0, NEW height \in Nat, 1 <= height,
           NEW R, NEW cut, Accounted(R, tokens), Tiled(root.kids, R, cut, height - 1),
           cut[1] = 1, cut[Len(root.kids) + 1] = Len(tokens) + 1
    PROVE  IsText(root, height, tokens)
<1> DEFINE r == <<root, 1, Len(tokens) + 1, height>>
           N == R \cup {r}
<1>1. r[1] = root /\ r[2] = 1 /\ r[3] = Len(tokens) + 1 /\ r[4] = height /\ Len(tokens) \in Nat
  OBVIOUS
<1> HIDE DEF r
<1>2. Covered(R, tokens) /\ R \subseteq N /\ r \in N
  BY AccountedCovers
<1>3. Covered(N, tokens)
  <2>1. Covers(r, N)
    <3>1. Tiled(root.kids, N, cut, height - 1)
      BY <1>2, TiledMore
    <3>2. QED
      BY <1>1, <3>1 DEF Covers
  <2>2. ASSUME NEW x \in R, Covers(x, R) PROVE Covers(x, N)
    <3>1. PICK c : Tiled(x[1].kids, R, c, x[4] - 1) /\ c[1] = x[2] /\ c[Len(x[1].kids) + 1] = x[3]
      BY <2>2 DEF Covers
    <3>2. Tiled(x[1].kids, N, c, x[4] - 1)
      BY <1>2, <3>1, TiledMore
    <3>3. QED
      BY <2>2, <3>1, <3>2 DEF Covers
  <2> HIDE DEF N
  <2>3. \A x \in N : x \in R \/ x = r
    BY DEF N
  <2>4. 1 \in Nat /\ Len(tokens) + 1 \in Nat /\ 1 <= 1 /\ 1 <= Len(tokens) + 1
    BY <1>1
  <2>5. ASSUME NEW x \in R
        PROVE  /\ x[2] \in Nat /\ x[3] \in Nat /\ x[4] \in Nat /\ 1 <= x[2] /\ x[2] <= x[3] /\ 1 <= x[4]
               /\ IsToken(x, tokens) \/ Covers(x, N)
    BY <1>2, <2>2 DEF Covered
  <2>6. /\ r[2] \in Nat /\ r[3] \in Nat /\ r[4] \in Nat /\ 1 <= r[2] /\ r[2] <= r[3] /\ 1 <= r[4]
        /\ IsToken(r, tokens) \/ Covers(r, N)
    BY <1>1, <2>1, <2>4
  <2>7. QED
    BY <2>3, <2>5, <2>6 DEF Covered
<1>4. \A x \in N : x \in R \/ x = r
  OBVIOUS
<1> HIDE DEF N
<1>5. Below(root)[height] = {}
  <2>1. ASSUME NEW u \in Below(root)[height] PROVE FALSE
    <3>1. PICK y \in N : y[4] + height <= height
      BY <1>1, <1>2, <1>3, BelowLies
    <3>2. y[4] \in Nat /\ 1 <= y[4]
      BY <1>3 DEF Covered
    <3>3. QED
      BY <3>1, <3>2
  <2>2. QED
    BY <2>1
<1>6. ASSUME NEW u \in Under(root, height) PROVE \E y \in N : y[1] = u
  <2>1. u \in UNION {Below(root)[n] : n \in 0..height}
    BY DEF Under
  <2>2. PICK n \in 0..height : u \in Below(root)[n]
    BY <2>1
  <2>3. n \in Nat
    OBVIOUS
  <2>4. u \in Below(r[1])[n]
    BY <1>1, <2>2
  <2>5. \E y \in N : y[1] = u
    <3>1. r \in N
      BY <1>2
    <3> HIDE DEF r
    <3>2. QED
      BY <1>3, <2>3, <2>4, <3>1, BelowIn
  <2>6. QED
    BY <2>5
<1>7. ASSUME NEW u \in TokensOf(root, height)
      PROVE  u.at \in DOMAIN tokens /\ u.kids = <<>> /\ u.kind = tokens[u.at]
  BY <1>1, <1>2, <1>3, TokensUnder
<1>8. ASSUME NEW j \in DOMAIN tokens PROVE \E u \in TokensOf(root, height) : u.at = j
  <2>1. j \in Nat /\ j # 0 /\ 1 <= j /\ j < Len(tokens) + 1
    <3>1. DOMAIN tokens = 1..Len(tokens)
      OBVIOUS
    <3>2. j \in 1..Len(tokens)
      BY <3>1
    <3>3. QED
      BY <1>1, <3>2
  <2>2. PICK n \in 0..(r[4] - 1) : \E u \in Below(r[1])[n] : u.at = j
    <3>1. r[2] <= j /\ j < r[3]
      BY <1>1, <2>1
    <3>2. QED
      BY <1>2, <1>3, <2>1, <3>1, BelowReaches
  <2>3. PICK u \in Below(root)[n] : u.at = j
    BY <1>1, <2>2
  <2>4. n \in 0..height
    BY <1>1
  <2>5. u \in Under(root, height)
    BY <2>4 DEF Under
  <2>6. u \in TokensOf(root, height)
    BY <2>1, <2>3, <2>5 DEF TokensOf
  <2>7. QED
    BY <2>3, <2>6
<1>9. ASSUME NEW u \in Under(root, height), NEW i \in DOMAIN u.kids, NEW j \in DOMAIN u.kids, i < j,
             NEW x \in TokensOf(u.kids[i], height), NEW y \in TokensOf(u.kids[j], height)
      PROVE  x.at < y.at
  <2>1. PICK z \in N : z[1] = u
    BY <1>6
  <2>2. ~IsToken(z, tokens)
    BY <2>1 DEF IsToken
  <2>3. PICK c : Tiled(u.kids, N, c, z[4] - 1)
    BY <1>3, <2>1, <2>2 DEF Covered, Covers
  <2> DEFINE k == Len(u.kids)
  <2>4. IsSeq(u.kids) /\ c \in [Nat -> Nat]
    BY <2>3 DEF Tiled
  <2>5. k \in Nat /\ i \in 1..k /\ j \in 1..k
    BY <2>4, SeqFacts
  <2>6. \A a, b \in 1..(k + 1) : a <= b => c[a] <= c[b]
    BY <1>3, <2>3, TiledRises
  <2>7. /\ \E e \in 1..(z[4] - 1) : <<u.kids[i], c[i], c[i + 1], e>> \in N
        /\ \E e \in 1..(z[4] - 1) : <<u.kids[j], c[j], c[j + 1], e>> \in N
    BY <2>3, <2>5 DEF Tiled
  <2> HIDE DEF k
  <2>8. PICK d, e : <<u.kids[i], c[i], c[i + 1], d>> \in N /\ <<u.kids[j], c[j], c[j + 1], e>> \in N
    BY <2>7
  <2> DEFINE v == <<u.kids[i], c[i], c[i + 1], d>> w == <<u.kids[j], c[j], c[j + 1], e>>
  <2>9. v \in N /\ w \in N /\ v[1] = u.kids[i] /\ v[3] = c[i + 1] /\ w[1] = u.kids[j] /\ w[2] = c[j]
    BY <2>8
  <2> HIDE DEF v, w
  <2>10. x.at \in DOMAIN tokens /\ x.at < v[3]
    BY <1>3, <2>9, TokensUnder
  <2>11. y.at \in DOMAIN tokens /\ w[2] <= y.at
    BY <1>3, <2>9, TokensUnder
  <2>12. i + 1 \in 1..(k + 1) /\ j \in 1..(k + 1) /\ i + 1 <= j /\ i + 1 \in Nat /\ j \in Nat
    BY <1>9, <2>5
  <2>13. c[i + 1] <= c[j] /\ c[i + 1] \in Nat /\ c[j] \in Nat
    BY <2>4, <2>6, <2>12
  <2>14. x.at \in Nat /\ y.at \in Nat
    <3>1. DOMAIN tokens = 1..Len(tokens)
      OBVIOUS
    <3>2. QED
      BY <2>10, <2>11, <3>1
  <2>15. QED
    BY <2>9, <2>10, <2>11, <2>13, <2>14
<1>10. ASSUME NEW u \in Under(root, height), u # root, u.kids # <<>> PROVE u.kids[1].kind # Trivia
  <2>1. PICK y \in N : y[1] = u
    BY <1>6
  <2>2. y \in R
    BY <1>1, <1>4, <1>10, <2>1
  <2>3. ~IsToken(y, tokens)
    BY <1>10, <2>1 DEF IsToken
  <2>4. QED
    BY <1>10, <2>1, <2>2, <2>3 DEF Accounted, IsNode
<1>11. {u.at : u \in TokensOf(root, height)} = DOMAIN tokens
  BY <1>7, <1>8
<1>12. QED
  BY <1>5, <1>7, <1>9, <1>10, <1>11 DEF IsText

\* The invariant has a parser that is done end with the text.
LEMMA ParserLossless ==
    ASSUME ParserInv
    PROVE  TreeIsTheText
<1> SUFFICES ASSUME parser.todo = <<>> PROVE TreeIsTheText
  BY DEF TreeIsTheText
<1>1. Ended(parser)
  <2>1. ~Busy(parser)
    BY DEF Busy
  <2>2. ~Started(parser)
    <3>1. ASSUME NEW text \in Texts, parser = New(text, DepthLimit, HeightLimit, SourceFile) PROVE FALSE
      BY <3>1, FirstPop
    <3>2. QED
      BY <3>1 DEF Started
  <2>3. QED
    BY <2>1, <2>2 DEF ParserInv, Parsed
<1> DEFINE root == parser.built[1]
           height == parser.heights[1]
           tokens == parser.tokens
<1>2. PICK R, cut : /\ Accounted(R, tokens) /\ Tiled(root.kids, R, cut, height - 1)
                    /\ cut[1] = 1 /\ cut[Len(root.kids) + 1] = parser.pos
  BY <1>1 DEF Ended
<1>3. root.at = 0 /\ height \in Nat /\ 1 <= height /\ tokens \in Seq(STRING \ {Eof}) /\ parser.pos = Len(tokens) + 1
  BY <1>1 DEF Ended
<1> HIDE DEF root, height, tokens
<1>4. tokens \in Seq(STRING)
  BY <1>3
<1>5. cut[Len(root.kids) + 1] = Len(tokens) + 1
  BY <1>2, <1>3
<1>6. IsText(root, height, tokens)
  BY <1>2, <1>3, <1>4, <1>5, WholeText
<1>7. QED
  BY <1>6 DEF IsText, TreeIsTheText, root, height, tokens

------------------------------------------------------------------------------
\* "Never panics on any input", whatever the text and the budgets.
THEOREM ParserNeverPanics == ParserSpec => []NeverPanics
<1>1. ParserInv => NeverPanics
  BY ParserSafe
<1>2. QED
  BY <1>1, ParserInductive, PTL

\* "parse(text, d).syntax().text() == text for every input".
THEOREM ParserKeepsTheText == ParserSpec => []TreeIsTheText
<1>1. ParserInv => TreeIsTheText
  BY ParserLossless
<1>2. QED
  BY <1>1, ParserInductive, PTL

\* The two together: what the parser promises of any text, under any budget.
THEOREM ParserParsesAnyText == ParserSpec => []ParsesAnyText
<1>1. ParserInv => ParsesAnyText
  BY ParserSafe, ParserLossless DEF ParsesAnyText
<1>2. QED
  BY <1>1, ParserInductive, PTL
=============================================================================
