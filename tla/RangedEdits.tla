---------------------------- MODULE RangedEdits ----------------------------
(***************************************************************************)
(* didChange (luabox-lsp): the client counts its text in lines and UTF-16  *)
(* units, the server keeps UTF-8 bytes and maps one to the other through a *)
(* LineIndex.  A text is a sequence of characters, each told by its widths *)
(* in bytes and units; "cr" and "lf" make the line endings.                *)
(*                                                                         *)
(* The client edits and sends, the server takes what has arrived, one      *)
(* didChange of several changes at a time.                                 *)
(***************************************************************************)
EXTENDS Integers, Sequences, FiniteSets

CONSTANTS Starts,   \* texts a document may be opened with
          Inserts,  \* texts an edit may put in
          Past,     \* how far past the end of a line or text a position may be
          MaxEdits  \* bound on the edits

Chars == {"plain", "accented", "wide", "astral", "cr", "lf"}
Bytes == [c \in Chars |-> CASE c = "accented" -> 2 [] c = "wide" -> 3 [] c = "astral" -> 4 [] OTHER -> 1]
Units == [c \in Chars |-> IF c = "astral" THEN 2 ELSE 1]

\* No line ends in a lone carriage return.
WellEnded(text) == \A k \in DOMAIN text : text[k] = "cr" => k + 1 \in DOMAIN text /\ text[k + 1] = "lf"

\* What the constants are.
EditsAssumption ==
    /\ \A text \in Starts \cup Inserts : text \in Seq(Chars) /\ WellEnded(text)
    /\ Past \subseteq Nat \ {0} /\ MaxEdits \in Nat

VARIABLES shown,  \* the client's text
          sent,   \* the changes on their way
          served, \* the server's text
          edits   \* how many edits there were

vars == <<shown, sent, served, edits>>

First(S) == CHOOSE k \in S : \A j \in S : k <= j

\* The width of the first k characters.
Upto(width, text) ==
    LET sum[k \in 0..Len(text)] == IF k = 0 THEN 0 ELSE sum[k - 1] + width[text[k]]
    IN  sum

------------------------------------------------------------------------------
\* LineIndex::new: the byte offsets lines start at.
LineStarts(text) ==
    LET bytes == Upto(Bytes, text)
    IN  {bytes[k] : k \in {0} \cup {j \in DOMAIN text : text[j] = "lf"}}

\* Their list, by the number of a line from 0.
Nth(starts, line) == CHOOSE s \in starts : Cardinality({r \in starts : r < s}) = line

\* The characters wholly before an offset: it falls at their end, or is moved
\* back to it (clamp_to_char_boundary).
CharAt(text, offset) ==
    LET bytes == Upto(Bytes, text)
    IN  Cardinality({k \in DOMAIN text : bytes[k] <= offset})

\* LineIndex::offset: up to the character the units run out in, or the \r of
\* the line's ending, or the line's end; past the text is its end.
Offset(text, position) ==
    LET bytes  == Upto(Bytes, text)
        units  == Upto(Units, text)
        starts == LineStarts(text)
        start  == Nth(starts, position.line)
        end    == IF position.line + 1 < Cardinality(starts) THEN Nth(starts, position.line + 1) - 1
                  ELSE bytes[Len(text)]
        from   == CharAt(text, start)
        to     == CharAt(text, end)
        stops  == {k \in (from + 1)..to : \/ k = to /\ text[k] = "cr"
                                          \/ units[k] - units[from] > position.character}
    IN  IF position.line >= Cardinality(starts) THEN bytes[Len(text)]
        ELSE IF stops = {} THEN end ELSE bytes[First(stops) - 1]

\* LineIndex::position.
Position(text, offset) ==
    LET bytes  == Upto(Bytes, text)
        units  == Upto(Units, text)
        starts == LineStarts(text)
        at     == CharAt(text, offset)
        line   == Cardinality({s \in starts : s <= bytes[at]}) - 1
    IN  [line |-> line, character |-> units[at] - units[CharAt(text, Nth(starts, line))]]

\* One change, mapped through the index of a text; one with no range replaces
\* everything, and a range that ends before it starts is empty.
Splice(text, index, change) ==
    LET start == Offset(index, change.start)
        stop  == Offset(index, change.end)
        end   == IF stop < start THEN start ELSE stop
    IN  IF ~change.ranged THEN change.text
        ELSE SubSeq(text, 1, CharAt(text, start)) \o change.text
                \o SubSeq(text, CharAt(text, end) + 1, Len(text))

\* Mutant: the whole batch is mapped through the index of the text it found.
ApplyContentChangesStale(text, changes) ==
    LET after[k \in 0..Len(changes)] == IF k = 0 THEN text ELSE Splice(after[k - 1], text, changes[k])
    IN  after[Len(changes)]

\* apply_content_changes: each change against a fresh index.
ApplyContentChanges(text, changes) ==
    LET after[k \in 0..Len(changes)] == IF k = 0 THEN text ELSE Splice(after[k - 1], after[k - 1], changes[k])
    IN  after[Len(changes)]

------------------------------------------------------------------------------
(***************************************************************************)
(* The client, as the protocol has it: an edit replaces what lies between  *)
(* two cuts, which fall between its characters and never inside \r\n, and  *)
(* is sent as positions in the text before it.                             *)
(***************************************************************************)
Cuts(text) == {k \in 0..Len(text) : ~(k \in DOMAIN text /\ text[k] = "cr")}

LineStart(text, k) ==
    CHOOSE j \in 0..k : (j = 0 \/ text[j] = "lf") /\ \A i \in (j + 1)..k : text[i] # "lf"

Place(text, k) ==
    [line |-> Cardinality({j \in 1..k : text[j] = "lf"}),
     character |-> Upto(Units, text)[k] - Upto(Units, text)[LineStart(text, k)]]

AtEnd(text, k) == k + 1 \in DOMAIN text => text[k + 1] \in {"cr", "lf"}

\* What a cut is sent as: its place, or one past the end of its line, or of the
\* text.
Positions(text, k) ==
    LET place == Place(text, k) IN
    {place}
        \cup {[place EXCEPT !.character = @ + d] : d \in {e \in Past : AtEnd(text, k)}}
        \cup {[line |-> place.line + d, character |-> c] : d, c \in {e \in Past : k = Len(text)}}

Edited(text, from, to, new) == SubSeq(text, 1, from) \o new \o SubSeq(text, to + 1, Len(text))

Init ==
    /\ shown \in Starts
    /\ served = shown /\ sent = <<>> /\ edits = 0

\* An edit of any part.
Edit ==
    /\ edits < MaxEdits
    /\ \E from, to \in Cuts(shown), new \in Inserts :
       \E start \in Positions(shown, from), end \in Positions(shown, to) :
         /\ from <= to
         /\ sent' = Append(sent, [ranged |-> TRUE, start |-> start, end |-> end, text |-> new])
         /\ shown' = Edited(shown, from, to, new)
    /\ edits' = edits + 1
    /\ UNCHANGED served

\* A new text for the old.
Replace ==
    /\ edits < MaxEdits
    /\ \E new \in Inserts :
         /\ sent' = Append(sent, [ranged |-> FALSE, text |-> new])
         /\ shown' = new
    /\ edits' = edits + 1
    /\ UNCHANGED served

\* A didChange that brings the first few changes.
DidChange ==
    /\ \E n \in 1..Len(sent) :
         /\ served' = ApplyContentChanges(served, SubSeq(sent, 1, n))
         /\ sent' = SubSeq(sent, n + 1, Len(sent))
    /\ UNCHANGED <<shown, edits>>

Next == Edit \/ Replace \/ DidChange

Spec == Init /\ [][Next]_vars

------------------------------------------------------------------------------
\* When every change has arrived, whatever they were and however they came, the
\* server holds the client's text, and the places it names in it (of its
\* diagnostics) are those the client shows (apply_content_changes, LineIndex).
EditsArrive ==
    sent = <<>> =>
        /\ served = shown
        /\ \A k \in 0..Len(shown) : Position(served, Upto(Bytes, served)[k]) = Place(shown, k)
=============================================================================
