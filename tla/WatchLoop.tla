------------------------------ MODULE WatchLoop ------------------------------
(***************************************************************************)
(* luabox check --watch and luabox fmt --watch (watch.rs).                 *)
(*                                                                         *)
(* The operating system's watcher puts events on a channel from a thread   *)
(* of its own; the loop takes a batch off it and reruns the command, which *)
(* reads its inputs one after the other and, when it formats, rewrites     *)
(* some of them.  The user edits files at any moment.  A file's content is *)
(* the number of the edit it dates from and how the command finds it.      *)
(***************************************************************************)
EXTENDS Naturals, Sequences

CONSTANTS Sources,   \* inputs that is_relevant accepts
          DepDefs,   \* inputs check reads that is_relevant rejects: the
                     \* defs of the direct dependencies
          Formats,   \* whether the command rewrites what it reads (fmt)
          Overflows, \* whether the watcher may lose events to an overflow
          MaxEdits,  \* bound on the user's edits
          MaxQueue   \* bound on the noise waiting on the channel

ASSUME WatchAssumption ==
    /\ Sources \cap DepDefs = {}
    /\ Formats \in BOOLEAN /\ Overflows \in BOOLEAN
    /\ MaxEdits \in Nat /\ MaxQueue \in Nat

VARIABLES disk,    \* what every input holds
          edits,   \* the edits made so far
          armed,   \* whether the watcher is registered
          channel, \* the events sent and not received, each a set of paths
          phase,   \* where the loop is
          raw,     \* next_batch's raw paths
          toRead,  \* the inputs this run has yet to read, or never came to
          seen,    \* what this run, or the last, read in each input
          writing, \* the inputs whose rewrite is still to be made
          outcome  \* how the last run ended

user == <<disk, edits>>
run  == <<toRead, seen, writing, outcome>>
vars == <<user, armed, channel, phase, raw, run>>

Inputs == Sources \cup DepDefs
Noise  == "noise"   \* a path no command reads: a temporary, a build product
Paths  == Inputs \cup {Noise}

States  == {"tidy", "untidy", "unreadable"}
Content == [edit : 0..MaxEdits, state : States]

Init ==
    /\ disk \in [Inputs -> {[edit |-> 0, state |-> s] : s \in {"tidy", "untidy"}}]
    /\ edits = 0
    /\ armed = FALSE
    /\ channel = <<>>
    /\ phase = "arming"
    /\ raw = {}
    /\ toRead = Inputs
    /\ seen = disk
    /\ writing = {}
    /\ outcome = "none"

------------------------------------------------------------------------------
(* The watcher's thread.                                                   *)

\* Mutant: every event is forwarded, the loop's own reads included.
TriggersOnAnything(kind) == TRUE

\* watch.rs triggers_rerun: all but the accesses that change nothing.
TriggersRerun(kind) == kind # "access"

Emit(kind, paths) ==
    channel' = IF armed /\ TriggersRerun(kind) THEN Append(channel, paths) ELSE channel

\* A save; an overflowing watcher reports it as an unclassified event with no
\* path at all.
UserEdits(f, s) ==
    /\ edits < MaxEdits
    /\ edits' = edits + 1
    /\ disk' = [disk EXCEPT ![f] = [edit |-> edits + 1, state |-> s]]
    /\ Emit("change", {f}) \/ (Overflows /\ Emit("other", {}))
    /\ UNCHANGED <<armed, phase, raw, run>>

SomethingElseChanges ==
    /\ Len(channel) < MaxQueue
    /\ Emit("change", {Noise})
    /\ UNCHANGED <<user, armed, phase, raw, run>>

------------------------------------------------------------------------------
(* The loop.                                                               *)

StartRun ==
    /\ phase' = "running"
    /\ toRead' = Inputs
    /\ UNCHANGED <<seen, writing, outcome>>

\* The watch is registered before the first run.
Arm ==
    /\ phase = "arming"
    /\ armed' = TRUE
    /\ StartRun
    /\ UNCHANGED <<user, channel, raw>>

Unreadable(f) == f \in Sources /\ disk[f].state = "unreadable"

Rewrites(f) == Formats /\ f \in Sources /\ disk[f].state = "untidy"

\* The command reads an input; the read itself is an event.  fmt rewrites a
\* file before it reads the next.
ReadInput(f) ==
    /\ phase = "running" /\ writing = {}
    /\ f \in toRead /\ ~Unreadable(f)
    /\ seen' = [seen EXCEPT ![f] = disk[f]]
    /\ toRead' = toRead \ {f}
    /\ writing' = IF Rewrites(f) THEN {f} ELSE {}
    /\ Emit("access", {f})
    /\ UNCHANGED <<user, armed, phase, raw, outcome>>

\* fmt's write_atomic: the formatted form of what was read takes the target's
\* name, whatever the target holds by now.
WriteBack(f) ==
    /\ phase = "running" /\ f \in writing
    /\ disk' = [disk EXCEPT ![f] = [seen[f] EXCEPT !.state = "tidy"]]
    /\ writing' = {}
    /\ Emit("change", {f, Noise})
    /\ UNCHANGED <<edits, armed, phase, raw, toRead, seen, outcome>>

\* A run that cannot read a source or cannot write it stops there; an
\* unreadable def file is passed over.
RunFails(why) ==
    /\ phase = "running"
    /\ \/ why = "unreadable" /\ writing = {}
          /\ \E f \in toRead : Unreadable(f)
       \/ why = "unwritten" /\ writing # {}
    /\ phase' = "waiting"
    /\ writing' = {}
    /\ outcome' = why
    /\ UNCHANGED <<user, armed, channel, raw, toRead, seen>>

\* Mutant: what arrived during the run is taken for its own noise and drained.
RunEndsAndDrains ==
    /\ phase = "running" /\ toRead = {} /\ writing = {}
    /\ phase' = "waiting"
    /\ channel' = <<>>
    /\ outcome' = "ok"
    /\ UNCHANGED <<user, armed, raw, toRead, seen, writing>>

RunEnds ==
    /\ phase = "running" /\ toRead = {} /\ writing = {}
    /\ phase' = "waiting"
    /\ outcome' = "ok"
    /\ UNCHANGED <<user, armed, channel, raw, toRead, seen, writing>>

\* next_batch: the first event opens the window.
FirstEvent ==
    /\ phase = "waiting" /\ channel # <<>>
    /\ raw' = Head(channel)
    /\ channel' = Tail(channel)
    /\ phase' = "collecting"
    /\ UNCHANGED <<user, armed, run>>

\* Mutant: only the event that opened the window is looked at.
NextEventDropped ==
    /\ phase = "collecting" /\ channel # <<>>
    /\ channel' = Tail(channel)
    /\ UNCHANGED <<user, armed, phase, raw, run>>

NextEvent ==
    /\ phase = "collecting" /\ channel # <<>>
    /\ raw' = raw \cup Head(channel)
    /\ channel' = Tail(channel)
    /\ UNCHANGED <<user, armed, phase, run>>

\* filter_and_dedupe over is_relevant: no relevant path, no rerun.
CloseWindow ==
    /\ raw' = {}
    /\ IF raw \cap Sources = {} THEN phase' = "waiting" /\ UNCHANGED run ELSE StartRun
    /\ UNCHANGED <<user, armed, channel>>

\* The deadline counts from the first event: it passes whatever else arrives.
WindowCloses ==
    /\ phase = "collecting"
    /\ CloseWindow

Command ==
    \/ \E f \in Inputs : ReadInput(f) \/ WriteBack(f)
    \/ \E why \in {"unreadable", "unwritten"} : RunFails(why)
    \/ RunEnds

Loop == Arm \/ Command \/ FirstEvent \/ NextEvent \/ WindowCloses

Next ==
    \/ \E f \in Inputs, s \in States : UserEdits(f, s)
    \/ SomethingElseChanges
    \/ Loop

Spec == Init /\ [][Next]_vars

\* The loop's thread is never starved, and its deadline passes.
FairSpec == Spec /\ WF_vars(Loop) /\ WF_vars(WindowCloses)

------------------------------------------------------------------------------
\* Every variable holds a value of its type; only a run has a rewrite to make.
TypeOK ==
    /\ disk \in [Inputs -> Content]
    /\ edits \in 0..MaxEdits
    /\ armed \in BOOLEAN
    /\ channel \in Seq(SUBSET Paths)
    /\ phase \in {"arming", "running", "waiting", "collecting"}
    /\ raw \subseteq Paths
    /\ toRead \subseteq Inputs
    /\ seen \in [Inputs -> Content]
    /\ writing \subseteq Sources
    /\ outcome \in {"none", "ok", "unreadable", "unwritten"}
    /\ writing # {} => phase = "running" /\ Formats

\* Some event not yet acted on names the input f.
Named(f) == f \in raw \/ \E i \in 1..Len(channel) : f \in channel[i]

\* The watcher is at rest: no run, and no event that would start one.
AtRest ==
    /\ phase \in {"waiting", "collecting"}
    /\ \A f \in Sources : ~Named(f)

\* A watcher at rest has reported on the tree as it stands: whatever the last
\* run read is what is there now, and if it never came to some input that is
\* because a file it could not read is still unreadable, or a rewrite failed.
\* No save is lost between two runs (watch.rs, "why there is no post-run drain").
RestIsCurrent ==
    AtRest =>
        /\ \A f \in Inputs \ toRead : seen[f] = disk[f]
        /\ outcome = "ok" => toRead = {}
        /\ outcome = "unreadable" => \E f \in toRead : Unreadable(f)

\* A formatter at rest after a run that succeeded leaves no source unformatted,
\* whatever was saved while it ran (watch.rs, "fmt --watch silently skipped
\* formatting the file that had just been saved").
RestIsTidy ==
    AtRest /\ Formats /\ outcome = "ok" => \A f \in Sources : disk[f].state = "tidy"

\* A run's own reads and rewrites never keep the loop going: once the user is
\* done, reruns stop (watch.rs, "one extra rerun and then converges").
RerunsStop == <>[](phase # "running")

\* A steady trickle of events cannot postpone the rerun (watch.rs, "not a
\* sliding window").
WindowsClose == phase = "collecting" ~> phase # "collecting"

\* The loop settles: every window closes, and after the last save the last
\* rerun is the end of it.
LoopSettles == RerunsStop /\ WindowsClose
=============================================================================
