--------------------------- MODULE WatchLoop_proofs ---------------------------
(***************************************************************************)
(* Proofs about watch mode, for any inputs and any number of edits.        *)
(***************************************************************************)
EXTENDS WatchLoop, TLAPS

\* Every input is one the path filter accepts, and every change is reported
\* with its path.
EventsNameInputs == DepDefs = {} /\ ~Overflows

\* The watcher is registered from the first run on; before it nothing is read.
Armed ==
    /\ armed = (phase # "arming")
    /\ phase = "arming" => toRead = Inputs /\ outcome = "none"
    /\ phase # "collecting" => raw = {}

\* Whatever was read and has changed since is named by an event on its way.
ChangesAreNamed == \A f \in Inputs \ toRead : seen[f] = disk[f] \/ Named(f)

\* A finished run came to every input, or the file it stopped at is still
\* unreadable or has changed since.
EndAccounted ==
    phase # "running" =>
        /\ outcome = "ok" => toRead = {}
        /\ outcome = "unreadable" => \E f \in toRead : Unreadable(f) \/ Named(f)

\* A formatter's run leaves what it came to tidy, or has a rewrite of it to
\* make, or could not make it, or an event on its way names it.
Tidied ==
    /\ \A f, g \in writing : f = g
    /\ Formats => \A f \in Sources \ toRead :
          \/ f \in writing \/ disk[f].state = "tidy" \/ Named(f)
          \/ phase # "running" /\ outcome = "unwritten"

\* The inductive invariant.
IInv == TypeOK /\ Armed /\ ChangesAreNamed /\ EndAccounted /\ Tidied

------------------------------------------------------------------------------
\* Sending an event names its paths and forgets no other.
LEMMA SendingNames ==
    ASSUME channel \in Seq(SUBSET Paths), NEW s \in SUBSET Paths,
           channel' = Append(channel, s), raw' = raw
    PROVE  /\ channel' \in Seq(SUBSET Paths)
           /\ \A f : Named(f) \/ f \in s => Named(f)'
<1>1. /\ channel' \in Seq(SUBSET Paths)
      /\ Len(channel) \in Nat /\ Len(channel') = Len(channel) + 1
      /\ channel'[Len(channel) + 1] = s
      /\ \A i \in 1..Len(channel) : channel'[i] = channel[i]
  OBVIOUS
<1>2. /\ Len(channel) + 1 \in 1..Len(channel')
      /\ \A i \in 1..Len(channel) : i \in 1..Len(channel')
  BY <1>1
<1>3. QED
  BY <1>1, <1>2 DEF Named

\* Receiving an event moves its paths to the batch and forgets none.
LEMMA ReceivingNames ==
    ASSUME channel \in Seq(SUBSET Paths), channel # <<>>, raw \subseteq Paths,
           channel' = Tail(channel), raw' = raw \cup Head(channel)
    PROVE  /\ channel' \in Seq(SUBSET Paths) /\ raw' \subseteq Paths
           /\ \A f : Named(f) => Named(f)'
<1>1. /\ channel' \in Seq(SUBSET Paths)
      /\ Len(channel) \in Nat \ {0} /\ Len(channel') = Len(channel) - 1
      /\ \A i \in 1..Len(channel') : channel'[i] = channel[i + 1]
      /\ Head(channel) = channel[1] /\ Head(channel) \in SUBSET Paths
  OBVIOUS
<1>2. ASSUME NEW f, NEW i \in 1..Len(channel), f \in channel[i]
      PROVE  Named(f)'
  <2>1. CASE i = 1
    BY <1>1, <1>2, <2>1 DEF Named
  <2>2. CASE i # 1
    <3>1. i - 1 \in 1..Len(channel') /\ channel'[i - 1] = channel[i]
      BY <1>1, <2>2
    <3>2. QED
      BY <1>2, <3>1 DEF Named
  <2>3. QED
    BY <2>1, <2>2
<1>3. QED
  BY <1>1, <1>2 DEF Named

\* A change of an armed watcher's tree is sent; a read is not.
LEMMA EmitSends ==
    /\ \A s : Emit("change", s) /\ armed => channel' = Append(channel, s)
    /\ \A s : Emit("access", s) => channel' = channel
BY DEF Emit, TriggersRerun

------------------------------------------------------------------------------
\* Before the watcher is armed nothing has been read.
LEMMA InitIInv == Init => IInv
<1> SUFFICES ASSUME Init PROVE IInv
  OBVIOUS
<1>1. TypeOK
  <2>1. disk \in [Inputs -> Content]
    BY WatchAssumption DEF Init, Content, States
  <2>2. seen \in [Inputs -> Content] /\ channel \in Seq(SUBSET Paths)
    BY <2>1 DEF Init
  <2>3. edits \in 0..MaxEdits
    BY WatchAssumption DEF Init
  <2>4. QED
    BY <2>1, <2>2, <2>3 DEF Init, TypeOK
<1>2. Armed /\ ChangesAreNamed /\ EndAccounted /\ Tidied
  BY DEF Init, Armed, ChangesAreNamed, EndAccounted, Tidied, Inputs
<1>3. QED
  BY <1>1, <1>2 DEF IInv

\* A save, in whatever phase it falls.
LEMMA UserEditsKeep ==
    ASSUME EventsNameInputs, IInv, NEW f \in Inputs, NEW s \in States, UserEdits(f, s)
    PROVE  IInv'
<1>1. /\ edits' = edits + 1 /\ edits' \in 0..MaxEdits
      /\ disk' = [disk EXCEPT ![f] = [edit |-> edits + 1, state |-> s]]
      /\ UNCHANGED <<armed, phase, raw, toRead, seen, writing, outcome>>
      /\ Emit("change", {f})
  BY WatchAssumption DEF UserEdits, EventsNameInputs, IInv, TypeOK, run
<1>2. disk' \in [Inputs -> Content]
  BY <1>1 DEF IInv, TypeOK, Content
<1>3. CASE armed
  <2>1. channel' = Append(channel, {f})
    BY <1>1, <1>3, EmitSends
  <2>2. {f} \in SUBSET Paths
    BY DEF Paths
  <2>3. channel' \in Seq(SUBSET Paths) /\ Named(f)' /\ \A g : Named(g) => Named(g)'
    BY <1>1, <2>1, <2>2, SendingNames DEF IInv, TypeOK
  <2>4. TypeOK' /\ Armed'
    BY <1>1, <1>2, <2>3 DEF IInv, TypeOK, Armed
  <2>5. \A g \in Inputs : g # f => disk'[g] = disk[g]
    BY <1>1 DEF IInv, TypeOK
  <2>6. ChangesAreNamed'
    BY <1>1, <2>3, <2>5 DEF IInv, ChangesAreNamed
  <2>7. EndAccounted'
    <3>1. \A g \in Inputs : Unreadable(g) \/ Named(g) => (Unreadable(g) \/ Named(g))'
      BY <2>3, <2>5 DEF Unreadable
    <3>2. toRead \subseteq Inputs
      BY DEF IInv, TypeOK
    <3>3. QED
      BY <1>1, <3>1, <3>2 DEF IInv, EndAccounted
  <2>8. Tidied'
    BY <1>1, <2>3, <2>5 DEF IInv, Tidied, Inputs
  <2>9. QED
    BY <2>4, <2>6, <2>7, <2>8 DEF IInv
<1>4. CASE ~armed
  <2>1. channel' = channel
    BY <1>1, <1>4 DEF Emit
  <2>2. phase = "arming" /\ toRead = Inputs /\ outcome = "none"
    BY <1>4 DEF IInv, Armed
  <2>3. TypeOK' /\ Armed'
    BY <1>1, <1>2, <2>1 DEF IInv, TypeOK, Armed
  <2>4. ChangesAreNamed' /\ EndAccounted' /\ Tidied'
    BY <1>1, <2>2 DEF IInv, ChangesAreNamed, EndAccounted, Tidied, Inputs
  <2>5. QED
    BY <2>3, <2>4 DEF IInv
<1>5. QED
  BY <1>3, <1>4 DEF IInv, TypeOK

\* An event of a path no command reads.
LEMMA NoiseKeeps ==
    ASSUME IInv, SomethingElseChanges
    PROVE  IInv'
<1>1. UNCHANGED <<disk, edits, armed, phase, raw, toRead, seen, writing, outcome>>
  BY DEF SomethingElseChanges, user, run
<1>2. channel' \in Seq(SUBSET Paths) /\ \A g : Named(g) => Named(g)'
  <2>1. CASE channel' = channel
    BY <1>1, <2>1 DEF IInv, TypeOK, Named
  <2>2. CASE channel' = Append(channel, {Noise})
    <3>1. {Noise} \in SUBSET Paths
      BY DEF Paths
    <3>2. QED
      BY <1>1, <2>2, <3>1, SendingNames DEF IInv, TypeOK
  <2>3. QED
    BY <2>1, <2>2 DEF SomethingElseChanges, Emit
<1>3. TypeOK' /\ Armed'
  BY <1>1, <1>2 DEF IInv, TypeOK, Armed
<1>4. ChangesAreNamed' /\ EndAccounted' /\ Tidied'
  BY <1>1, <1>2 DEF IInv, ChangesAreNamed, EndAccounted, Tidied, Unreadable
<1>5. QED
  BY <1>3, <1>4 DEF IInv

\* The command's own steps.
LEMMA CommandKeeps ==
    ASSUME IInv, Command
    PROVE  IInv'
<1>0. phase = "running" /\ armed /\ raw = {}
  BY DEF Command, ReadInput, WriteBack, RunFails, RunEnds, IInv, Armed
<1>1. ASSUME NEW f \in Inputs, ReadInput(f)
      PROVE  IInv'
  <2>1. /\ UNCHANGED <<disk, edits, armed, channel, phase, raw, outcome>>
        /\ seen' = [seen EXCEPT ![f] = disk[f]]
        /\ toRead' = toRead \ {f}
        /\ writing' = IF Rewrites(f) THEN {f} ELSE {}
    BY <1>1, EmitSends DEF ReadInput, user
  <2>2. TypeOK' /\ Armed'
    BY <1>0, <2>1 DEF IInv, TypeOK, Armed, Rewrites
  <2>3. ChangesAreNamed'
    BY <2>1 DEF IInv, TypeOK, ChangesAreNamed, Named
  <2>4. EndAccounted'
    BY <1>0, <2>1 DEF EndAccounted
  <2>5. Tidied'
    <3>1. writing = {} /\ ~Unreadable(f) /\ disk[f].state \in States
      BY <1>1 DEF ReadInput, IInv, TypeOK, Content
    <3>2. f \in Sources /\ Formats => disk'[f].state = "tidy" \/ f \in writing'
      BY <2>1, <3>1 DEF Rewrites, Unreadable, States
    <3>3. QED
      BY <1>0, <2>1, <3>1, <3>2 DEF IInv, Tidied, Named
  <2>6. QED
    BY <2>2, <2>3, <2>4, <2>5 DEF IInv
<1>2. ASSUME NEW f \in Inputs, WriteBack(f)
      PROVE  IInv'
  <2>1. /\ UNCHANGED <<edits, armed, phase, raw, toRead, seen, outcome>>
        /\ disk' = [disk EXCEPT ![f] = [seen[f] EXCEPT !.state = "tidy"]]
        /\ writing' = {}
        /\ channel' = Append(channel, {f, Noise})
    BY <1>0, <1>2, EmitSends DEF WriteBack
  <2>2. {f, Noise} \in SUBSET Paths
    BY DEF Paths
  <2>3. channel' \in Seq(SUBSET Paths) /\ Named(f)' /\ \A g : Named(g) => Named(g)'
    BY <2>1, <2>2, SendingNames DEF IInv, TypeOK
  <2>4. disk' \in [Inputs -> Content]
    BY <2>1 DEF IInv, TypeOK, Content, States
  <2>5. TypeOK' /\ Armed'
    BY <2>1, <2>3, <2>4 DEF IInv, TypeOK, Armed
  <2>6. \A g \in Inputs : g # f => disk'[g] = disk[g]
    BY <2>1 DEF IInv, TypeOK
  <2>7. ChangesAreNamed' /\ EndAccounted'
    BY <1>0, <2>1, <2>3, <2>6 DEF IInv, ChangesAreNamed, EndAccounted
  <2>8. Tidied'
    <3>1. writing = {f}
      BY <1>2 DEF WriteBack, IInv, Tidied
    <3>2. QED
      BY <1>0, <2>1, <2>3, <2>6, <3>1 DEF IInv, Tidied, Inputs
  <2>9. QED
    BY <2>5, <2>7, <2>8 DEF IInv
<1>3. ASSUME NEW why \in {"unreadable", "unwritten"}, RunFails(why)
      PROVE  IInv'
  <2>1. /\ UNCHANGED <<disk, edits, armed, channel, raw, toRead, seen>>
        /\ phase' = "waiting" /\ writing' = {} /\ outcome' = why
        /\ why = "unreadable" => \E f \in toRead : Unreadable(f)
    BY <1>3 DEF RunFails, user
  <2>2. TypeOK' /\ Armed'
    BY <1>0, <2>1 DEF IInv, TypeOK, Armed
  <2>3. ChangesAreNamed' /\ EndAccounted'
    BY <2>1 DEF IInv, ChangesAreNamed, EndAccounted, Named, Unreadable
  <2>4. Tidied'
    <3>1. why = "unreadable" => writing = {}
      BY <1>3 DEF RunFails
    <3>2. QED
      BY <1>0, <2>1, <3>1 DEF IInv, Tidied, Named
  <2>5. QED
    BY <2>2, <2>3, <2>4 DEF IInv
<1>4. CASE RunEnds
  <2>1. /\ UNCHANGED <<disk, edits, armed, channel, raw, toRead, seen, writing>>
        /\ phase' = "waiting" /\ outcome' = "ok" /\ toRead = {} /\ writing = {}
    BY <1>4 DEF RunEnds, user
  <2>2. TypeOK' /\ Armed'
    BY <1>0, <2>1 DEF IInv, TypeOK, Armed
  <2>3. ChangesAreNamed' /\ EndAccounted' /\ Tidied'
    BY <1>0, <2>1 DEF IInv, ChangesAreNamed, EndAccounted, Tidied, Named
  <2>4. QED
    BY <2>2, <2>3 DEF IInv
<1>5. QED
  BY <1>1, <1>2, <1>3, <1>4 DEF Command

\* Arming, and taking a batch off the channel.
LEMMA BatchingKeeps ==
    ASSUME EventsNameInputs, IInv, Arm \/ FirstEvent \/ NextEvent \/ WindowCloses
    PROVE  IInv'
<1>1. ASSUME StartRun, UNCHANGED <<disk, edits, channel>>, armed', raw' = {}, writing = {}
      PROVE  IInv'
  <2>1. /\ phase' = "running" /\ toRead' = Inputs
        /\ UNCHANGED <<disk, edits, channel, seen, writing, outcome>>
    BY <1>1 DEF StartRun
  <2>2. TypeOK' /\ Armed'
    BY <1>1, <2>1 DEF IInv, TypeOK, Armed
  <2>3. ChangesAreNamed' /\ EndAccounted' /\ Tidied'
    BY <1>1, <2>1 DEF ChangesAreNamed, EndAccounted, Tidied, Inputs
  <2>4. QED
    BY <2>2, <2>3 DEF IInv
<1>2. ASSUME channel # <<>>, channel' = Tail(channel), raw' = raw \cup Head(channel),
             phase \in {"waiting", "collecting"}, phase' = "collecting",
             UNCHANGED <<disk, edits, armed, toRead, seen, writing, outcome>>
      PROVE  IInv'
  <2>1. channel' \in Seq(SUBSET Paths) /\ raw' \subseteq Paths /\ \A g : Named(g) => Named(g)'
    BY <1>2, ReceivingNames DEF IInv, TypeOK
  <2>2. TypeOK' /\ Armed'
    BY <1>2, <2>1 DEF IInv, TypeOK, Armed
  <2>3. ChangesAreNamed' /\ EndAccounted' /\ Tidied'
    BY <1>2, <2>1 DEF IInv, ChangesAreNamed, EndAccounted, Tidied, Unreadable
  <2>4. QED
    BY <2>2, <2>3 DEF IInv
<1>3. CASE Arm
  BY <1>1, <1>3 DEF Arm, user, IInv, TypeOK, Armed
<1>4. CASE FirstEvent
  BY <1>2, <1>4 DEF FirstEvent, user, run, IInv, Armed
<1>5. CASE NextEvent
  BY <1>2, <1>5 DEF NextEvent, user, run
<1>6. CASE WindowCloses
  <2>1. /\ phase = "collecting" /\ armed /\ writing = {}
        /\ UNCHANGED <<disk, edits, armed, channel>> /\ raw' = {}
    BY <1>6 DEF WindowCloses, CloseWindow, user, IInv, TypeOK, Armed
  <2>2. CASE raw \cap Sources = {}
    <3>1. phase' = "waiting" /\ UNCHANGED <<toRead, seen, writing, outcome>>
      BY <1>6, <2>2 DEF WindowCloses, CloseWindow, run
    <3>2. \A g \in Inputs : Named(g) => Named(g)'
      BY <2>1, <2>2 DEF EventsNameInputs, Inputs, Named
    <3>3. toRead \subseteq Inputs
      BY DEF IInv, TypeOK
    <3>4. TypeOK' /\ Armed'
      BY <2>1, <3>1 DEF IInv, TypeOK, Armed
    <3>5. ChangesAreNamed' /\ EndAccounted' /\ Tidied'
      BY <2>1, <3>1, <3>2, <3>3 DEF IInv, ChangesAreNamed, EndAccounted, Tidied, Unreadable, Inputs
    <3>6. QED
      BY <3>4, <3>5 DEF IInv
  <2>3. CASE raw \cap Sources # {}
    BY <1>1, <1>6, <2>1, <2>3 DEF WindowCloses, CloseWindow
  <2>4. QED
    BY <2>2, <2>3
<1>7. QED
  BY <1>3, <1>4, <1>5, <1>6

\* Every step of a watcher whose inputs' events name them.
LEMMA NextIInv == EventsNameInputs /\ IInv /\ [Next]_vars => IInv'
<1> SUFFICES ASSUME EventsNameInputs, IInv, [Next]_vars PROVE IInv'
  OBVIOUS
<1>1. CASE \E f \in Inputs, s \in States : UserEdits(f, s)
  BY <1>1, UserEditsKeep
<1>2. CASE SomethingElseChanges
  BY <1>2, NoiseKeeps
<1>3. CASE Loop
  BY <1>3, CommandKeeps, BatchingKeeps DEF Loop
<1>4. CASE UNCHANGED vars
  BY <1>4 DEF vars, user, run, IInv, TypeOK, Armed, ChangesAreNamed, EndAccounted, Tidied,
              Named, Unreadable
<1>5. QED
  BY <1>1, <1>2, <1>3, <1>4 DEF Next

\* What every reachable state of such a watcher satisfies.
LEMMA Invariance ==
    ASSUME EventsNameInputs
    PROVE  Spec => []IInv
<1>1. IInv /\ [Next]_vars => IInv'
  BY NextIInv
<1>2. QED
  BY <1>1, InitIInv, PTL DEF Spec

\* Everything of the loop, its channel and its files is of its type.
THEOREM TypeCorrect ==
    ASSUME EventsNameInputs
    PROVE  Spec => []TypeOK
<1>1. IInv => TypeOK
  BY DEF IInv
<1>2. QED
  BY <1>1, Invariance, PTL

\* With every change reported under the path of an input the filter accepts, a
\* watcher at rest has always reported on the tree as it stands: no interleaving
\* of saves, runs, rewrites, failures and batches loses a change.
THEOREM WatchStaysCurrent ==
    ASSUME EventsNameInputs
    PROVE  Spec => []RestIsCurrent
<1>1. IInv => RestIsCurrent
  <2> SUFFICES ASSUME IInv, AtRest PROVE
           /\ \A f \in Inputs \ toRead : seen[f] = disk[f]
           /\ outcome = "ok" => toRead = {}
           /\ outcome = "unreadable" => \E f \in toRead : Unreadable(f)
    BY DEF RestIsCurrent
  <2>1. \A f \in Inputs : ~Named(f)
    BY DEF AtRest, EventsNameInputs, Inputs
  <2>2. toRead \subseteq Inputs /\ phase # "running"
    BY DEF IInv, TypeOK, AtRest
  <2>3. QED
    BY <2>1, <2>2 DEF IInv, ChangesAreNamed, EndAccounted
<1>2. QED
  BY <1>1, Invariance, PTL

\* And a formatter at rest after a run that succeeded leaves no source
\* unformatted, whatever was saved while it ran.
THEOREM FormatterLeavesTidy ==
    ASSUME EventsNameInputs
    PROVE  Spec => []RestIsTidy
<1>1. IInv => RestIsTidy
  <2> SUFFICES ASSUME IInv, AtRest, Formats, outcome = "ok", NEW f \in Sources
               PROVE  disk[f].state = "tidy"
    BY DEF RestIsTidy
  <2>1. phase # "running" /\ ~Named(f)
    BY DEF AtRest
  <2>2. toRead = {} /\ writing = {}
    BY <2>1 DEF IInv, EndAccounted, TypeOK
  <2>3. QED
    BY <2>1, <2>2 DEF IInv, Tidied
<1>2. QED
  BY <1>1, Invariance, PTL
=============================================================================
