------------------------------ MODULE LuaText ------------------------------
(***************************************************************************)
(* What a Lua program text does: the reference the lowering rules are      *)
(* judged by.  A program is a block of statements,                         *)
(*                                                                         *)
(*   act               local, close  name        label, goto  name         *)
(*   use  name         if, while, repeat, do     break     return          *)
(*                     name (in the condition), blocks                     *)
(*                                                                         *)
(* close is  local name <close> = ..., and a name of 0 is no name.  A text *)
(* is a sequence of tokens, each with the path of its statement; besides   *)
(* those of a program it may hold the words the rules write.               *)
(***************************************************************************)
EXTENDS Integers, Sequences, FiniteSets, SequencesExt, FiniteSetsExt

Tok(t, at, name) == [t |-> t, at |-> at, name |-> name]

Loops   == {"while", "repeat", "while true"}
Opens   == Loops \cup {"if", "do", "if not flag", "close_scope"}
Closes  == {"end", "until", "until not", "end)"}
Tests   == {"if", "while", "until", "until not"}
Locals  == {"local", "close"}

\* Which opening words a closing one closes.
Closed(t) == CASE t \in {"until", "until not"} -> {"repeat"}
               [] t = "end)" -> {"close_scope"}
               [] t = "else" -> {"if"}
               [] OTHER -> (Opens \ {"repeat", "close_scope"}) \cup {"else"}

\* The text of a block.
RECURSIVE TextOf(_, _)
TextOf(b, path) ==
    LET Inner(s, p) == FoldLeftDomain(
            LAMBDA acc, j : acc \o (IF j > 1 THEN <<Tok("else", p, 0)>> ELSE <<>>)
                                \o TextOf(s.blocks[j], Append(p, j)), <<>>, s.blocks)
        Of(s, p) == CASE s.kind = "repeat" -> <<Tok("repeat", p, 0)>> \o Inner(s, p) \o <<Tok("until", p, s.name)>>
                      [] s.blocks # <<>> -> <<Tok(s.kind, p, s.name)>> \o Inner(s, p) \o <<Tok("end", p, 0)>>
                      [] OTHER -> <<Tok(s.kind, p, s.name)>>
    IN  FoldLeftDomain(LAMBDA acc, k : acc \o Of(b[k], Append(path, k)), <<>>, b)

\* How the words nest: the blocks each is in, the word that closes each
\* opening one, and whether they nest at all.  until is inside its body.
Shape(ts) ==
    LET Word(a, k) ==
            CASE ts[k].t \in Opens ->
                    [a EXCEPT !.open = Append(@, k), !.in = Append(@, a.open)]
              [] ts[k].t \notin Closes \cup {"else"} -> [a EXCEPT !.in = Append(@, a.open)]
              [] a.open = <<>> \/ ts[Last(<<1>> \o a.open)].t \notin Closed(ts[k].t) ->
                    [a EXCEPT !.nests = FALSE, !.in = Append(@, a.open)]
              [] OTHER ->
                    [a EXCEPT !.open = IF ts[k].t = "else" THEN Append(Front(@), k) ELSE Front(@),
                              !.in = Append(@, IF ts[k].t \in {"until", "until not"} THEN a.open ELSE Front(a.open)),
                              !.to = (Last(a.open) :> k) @@ @]
        Read[k \in 0..Len(ts)] ==
            IF k = 0 THEN [open |-> <<>>, in |-> <<>>, to |-> <<>>, nests |-> TRUE] ELSE Word(Read[k - 1], k)
        all == Read[Len(ts)]
    IN  [in |-> all.in, to |-> all.to, nests |-> all.nests /\ all.open = <<>>]

\* The innermost block of some kinds around a word, in its own function.
Within(ts, sh, k, kinds) ==
    LET fn  == {j \in DOMAIN sh.in[k] : ts[sh.in[k][j]].t = "close_scope"}
        has == {j \in DOMAIN sh.in[k] : ts[sh.in[k][j]].t \in kinds /\ \A f \in fn : f <= j}
    IN  IF has = {} THEN 0 ELSE sh.in[k][Max(has)]

\* The declarations of a name a word can see; the one it means; where a goto goes.
Seen(ts, sh, k, kinds, name) ==
    {d \in 1..k - 1 : ts[d].t \in kinds /\ ts[d].name = name /\ IsPrefix(sh.in[d], sh.in[k])}

Means(ts, sh, k) ==
    LET ds == Seen(ts, sh, k, Locals, ts[k].name) IN IF ds = {} THEN <<>> ELSE ts[Max(ds)].at

Target(ts, sh, k) ==
    LET ls == {l \in DOMAIN ts : /\ ts[l].t = "label" /\ ts[l].name = ts[k].name
                                 /\ IsPrefix(sh.in[l], sh.in[k])
                                 /\ Within(ts, sh, l, {"close_scope"}) = Within(ts, sh, k, {"close_scope"})}
    IN  IF ls = {} THEN 0 ELSE CHOOSE l \in ls : \A m \in ls : Len(sh.in[m]) <= Len(sh.in[l])

\* A text Lua 5.1 (and, with gotos, 5.3) compiles: it nests, break and return
\* end their blocks, break is in a loop, a goto sees its label, and a flag is in
\* scope where it is used.
Compiles(ts, sh) ==
    /\ sh.nests
    /\ \A k \in DOMAIN ts :
        /\ ts[k].t \in {"break", "return"} /\ k < Len(ts) => ts[k + 1].t \in Closes \cup {"else"}
        /\ ts[k].t = "break" => Within(ts, sh, k, Loops) # 0
        /\ ts[k].t = "goto" => Target(ts, sh, k) # 0
        /\ ts[k].t \in {"flag = true", "if not flag"} =>
              Seen(ts, sh, k, {"local flag = false", "local flag = true"}, ts[k].name) # {}

------------------------------------------------------------------------------
\* The word after this one, where a condition's answer is yes or no and on are
\* the flags that are true.
After(ts, sh, k, yes, on) ==
    LET from == CHOOSE o \in DOMAIN sh.to : sh.to[o] = k
        fn   == Within(ts, sh, k, {"close_scope"})
        t    == ts[k].t
    IN  CASE t \in {"if", "while"}  -> IF yes THEN k + 1 ELSE sh.to[k] + 1
          [] t = "if not flag"      -> IF ts[k].name \in on THEN sh.to[k] + 1 ELSE k + 1
          [] t = "else"             -> sh.to[k] + 1
          [] t = "end"              -> IF ts[from].t \in Loops THEN from ELSE k + 1
          [] t = "until"            -> IF yes THEN k + 1 ELSE from
          [] t = "until not"        -> IF yes THEN from ELSE k + 1
          [] t = "break"            -> sh.to[Within(ts, sh, k, Loops)] + 1
          [] t = "return"           -> IF fn = 0 THEN Len(ts) + 1 ELSE sh.to[fn]
          [] t = "goto"             -> Target(ts, sh, k)
          [] OTHER -> k + 1

\* The variables to close that are live at a word, and what leaving them does.
Live(ts, sh, k) ==
    IF k > Len(ts) THEN {} ELSE {d \in 1..k : ts[d].t = "close" /\ IsPrefix(sh.in[d], sh.in[k])}

Leaving(ts, sh, k, j) ==
    LET left == SetToSortSeq(Live(ts, sh, k) \ {d \in Live(ts, sh, j) : d < j}, >)
    IN  [n \in DOMAIN left |-> <<"closes", ts[left[n]].at>>]

Shows(ts, sh, k, yes) ==
    CASE ts[k].t = "act"     -> <<(<<"act", ts[k].at>>)>>
      [] ts[k].t = "use"     -> <<(<<"use", ts[k].at, Means(ts, sh, k)>>)>>
      [] ts[k].t \in Tests   -> <<(<<"test", ts[k].at, IF ts[k].name = 0 THEN <<>> ELSE Means(ts, sh, k), yes>>)>>
      [] ts[k].t = "end)"    -> <<(<<"closes", ts[k].at>>)>>
      [] OTHER -> <<>>

\* A run, from a word on, for a number of steps: what it shows, up to a number
\* of events, and where it stands.  Its conditions answer as told, and it waits
\* at one there is no answer for.
RECURSIVE RunFrom(_, _, _, _, _)
RunFrom(ts, sh, r, events, steps) ==
    IF steps = 0 \/ r.at > Len(ts) \/ Len(r.out) >= events \/ (ts[r.at].t \in Tests /\ r.answers = <<>>) THEN r
    ELSE LET t    == ts[r.at].t
             test == t \in Tests
             yes  == test /\ Head(r.answers)
             next == After(ts, sh, r.at, yes, r.on)
         IN  RunFrom(ts, sh,
                [at |-> next,
                 answers |-> IF test THEN Tail(r.answers) ELSE r.answers,
                 on |-> CASE t \in {"flag = true", "local flag = true"} -> r.on \cup {ts[r.at].name}
                          [] t = "local flag = false" -> r.on \ {ts[r.at].name}
                          [] OTHER -> r.on,
                 out |-> r.out \o Shows(ts, sh, r.at, yes) \o Leaving(ts, sh, r.at, next)],
                events, steps - 1)

\* The first events of a run, and whether it ended; one that shows nothing more
\* in so many steps never will.
Run(ts, sh, answers, events) ==
    LET r == RunFrom(ts, sh, [at |-> 1, answers |-> answers, on |-> {}, out |-> <<>>], events, Len(ts) * (events + 1))
    IN  IF Len(r.out) >= events THEN [shows |-> SubSeq(r.out, 1, events), ended |-> FALSE]
        ELSE [shows |-> r.out, ended |-> r.at > Len(ts)]
=============================================================================
