--------------------------- MODULE CommandVerdict ---------------------------
(***************************************************************************)
(* The exit status of a luabox command whose reader may hang up (emit.rs). *)
(* A command is the straight line of its fallible steps, its effects on    *)
(* disk and its writes, in the order of its source; every write goes       *)
(* through emit, which turns a closed pipe into an exit with the status    *)
(* recorded so far, and any other failure into status 1.                   *)
(***************************************************************************)
EXTENDS Integers, Sequences

CONSTANT Commands  \* the commands that are run

Try        == [kind |-> "try", of |-> ""]     \* a call that may fail
Do(e)      == [kind |-> "do", of |-> e]       \* one that changes the disk
Record(g)  == [kind |-> "record", of |-> g]   \* set_exit_on_reader_gone
Report(s)  == [kind |-> "report", of |-> s]   \* a write that may be empty
Say(s)     == [kind |-> "say", of |-> s]      \* one that never is
BailOn(g)  == [kind |-> "bail", of |-> g]     \* bail! if g found problems

\* render_diagnostics, under the name of what is being judged.
Render(g) == <<Record(g), Report("stdout")>>

\* check's finish, and lint's.
Finish(g) == Render(g) \o <<Say("stderr"), BailOn(g)>>

\* check_gate.
CheckGate == <<Try>> \o Finish("check")

\* bundle_one and render_warnings, then one entry's files and its line.
BuildEntry(e) == <<Try>> \o Render("lowering") \o <<BailOn("lowering"), Do(e), Say("stdout")>>

Check    == <<Try>> \o Finish("check")
LintFix  == <<Try, Do("sources")>> \o Finish("lint")
FmtCheck == <<Try, Record("fmt"), Say("stdout"), BailOn("fmt")>>
Fmt      == <<Try, Do("sources"), Say("stdout")>>
Build    == <<Try>> \o CheckGate \o BuildEntry("first") \o BuildEntry("second")
Tree     == CheckGate \o <<Try, Do("tree")>> \o Render("lowering")
                      \o <<BailOn("lowering"), Say("stdout")>>
Doc      == <<Try, Report("stderr")>> \o Render("parse")
                      \o <<BailOn("parse"), Do("pages"), Say("stderr")>>
Upgrade  == <<Try, Say("stdout"), Say("stdout"), Try, Say("stdout"), Try,
              Do("binary"), Say("stdout")>>

Program == [check |-> Check, lint_fix |-> LintFix, fmt_check |-> FmtCheck, fmt |-> Fmt,
            build |-> Build, tree |-> Tree, doc |-> Doc, upgrade |-> Upgrade]

VerdictAssumption == Commands \subseteq DOMAIN Program

Running == -1

Streams  == {"stdout", "stderr"}
StepsOf(c)  == {Program[c][k] : k \in DOMAIN Program[c]}
Gates(c)    == {s.of : s \in {t \in StepsOf(c) : t.kind = "bail"}}
Promised(c) == {s.of : s \in {t \in StepsOf(c) : t.kind = "do"}}

VARIABLES cmd,      \* the command
          rest,     \* its steps to come
          problems, \* the gates that find errors in this project
          recorded, \* EXIT_ON_READER_GONE
          done,     \* the effects made
          failed,   \* whether a call or a write failed
          readers,  \* the streams somebody still reads
          exit      \* Running, or the status

vars == <<cmd, rest, problems, recorded, done, failed, readers, exit>>

Init ==
    /\ cmd \in Commands
    /\ rest = Program[cmd]
    /\ problems \in SUBSET Gates(cmd)
    /\ recorded = 0
    /\ done = {}
    /\ failed = FALSE
    /\ readers = Streams
    /\ exit = Running

\* A reader has what it came for; with 2>&1 both streams go at once.
Depart ==
    /\ exit = Running
    /\ \E gone \in (SUBSET readers) \ {{}} : readers' = readers \ gone
    /\ UNCHANGED <<cmd, rest, problems, recorded, done, failed, exit>>

------------------------------------------------------------------------------
(***************************************************************************)
(* emit: a write goes through, finds the reader gone, or fails otherwise.  *)
(***************************************************************************)
Landed(s, then) ==
    /\ s \in readers
    /\ then
    /\ UNCHANGED failed

ReaderGone(s) ==
    /\ s \notin readers
    /\ exit' = recorded
    /\ UNCHANGED <<rest, failed>>

WriteFails ==
    /\ exit' = 1
    /\ failed' = TRUE
    /\ UNCHANGED rest

Write(s, then) == Landed(s, then) \/ ReaderGone(s) \/ WriteFails

------------------------------------------------------------------------------
(***************************************************************************)
(* The steps.                                                              *)
(***************************************************************************)
Next1(kind) == exit = Running /\ rest # <<>> /\ Head(rest).kind = kind
Goes == rest' = Tail(rest) /\ UNCHANGED exit

\* `?` and bail!: what is left of the command is real_main's error message.
Fail == /\ rest' = <<[kind |-> "error", of |-> "stderr"]>>
        /\ UNCHANGED exit

Tries ==
    /\ Next1("try")
    /\ (Goes /\ UNCHANGED failed) \/ (Fail /\ failed' = TRUE)
    /\ UNCHANGED <<cmd, problems, recorded, done, readers>>

Does ==
    /\ Next1("do")
    /\ \/ Goes /\ done' = done \cup {Head(rest).of} /\ UNCHANGED failed
       \/ Fail /\ failed' = TRUE /\ UNCHANGED done
    /\ UNCHANGED <<cmd, problems, recorded, readers>>

\* Mutant: EPIPE means exit 0.
RecordsNothing ==
    /\ Next1("record")
    /\ Goes
    /\ UNCHANGED <<cmd, problems, recorded, done, failed, readers>>

Records ==
    /\ Next1("record")
    /\ recorded' = IF Head(rest).of \in problems THEN 1 ELSE 0
    /\ Goes
    /\ UNCHANGED <<cmd, problems, done, failed, readers>>

Reports ==
    /\ Next1("report")
    /\ (Goes /\ UNCHANGED failed) \/ Write(Head(rest).of, Goes)
    /\ UNCHANGED <<cmd, problems, recorded, done, readers>>

Says ==
    /\ Next1("say")
    /\ Write(Head(rest).of, Goes)
    /\ UNCHANGED <<cmd, problems, recorded, done, readers>>

\* Mutant: the problems are reported and the command goes on.
BailsNever ==
    /\ Next1("bail")
    /\ Goes
    /\ UNCHANGED <<cmd, problems, recorded, done, failed, readers>>

Bails ==
    /\ Next1("bail")
    /\ IF Head(rest).of \in problems THEN Fail ELSE Goes
    /\ UNCHANGED <<cmd, problems, recorded, done, failed, readers>>

\* real_main: Ok is 0; an error is written, and is 1.
Succeeds ==
    /\ exit = Running /\ rest = <<>>
    /\ exit' = 0
    /\ UNCHANGED <<cmd, rest, problems, recorded, done, failed, readers>>

Errs ==
    /\ Next1("error")
    /\ Write("stderr", exit' = 1 /\ UNCHANGED rest)
    /\ UNCHANGED <<cmd, problems, recorded, done, readers>>

Next == \/ Depart \/ Tries \/ Does \/ Records \/ Reports \/ Says \/ Bails
        \/ Succeeds \/ Errs

Spec == Init /\ [][Next]_vars

------------------------------------------------------------------------------
(***************************************************************************)
(* Properties                                                              *)
(***************************************************************************)
\* What check, lint --fix and fmt --check found survives any departure: with
\* problems the exit is never 0, and with none, and no failure, never 1 ("the
\* exit status reports what the run found; the truncated output is the only
\* thing lost").  Problems an earlier failure kept a run from finding are not
\* its findings, so the property speaks of runs in which no call failed.
VerdictSurvives ==
    cmd \in {"check", "lint_fix", "fmt_check"} /\ exit \in {0, 1} /\ ~failed =>
        (exit = 0 <=> problems = {})

\* To a reader that stays, 0 means that nothing failed, no gate found a problem
\* and every effect was made.
AttendedVerdict ==
    exit \in {0, 1} /\ readers = Streams =>
        (exit = 0 <=> ~failed /\ problems = {} /\ done = Promised(cmd))
=============================================================================
