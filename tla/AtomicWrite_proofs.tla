------------------------- MODULE AtomicWrite_proofs -------------------------
(***************************************************************************)
(* Proofs about the atomic rewriting of a user's files, for any number of  *)
(* processes, workers, files and process ids.                              *)
(***************************************************************************)
EXTENDS AtomicWrite, TLAPS

Raw == [save : 0..MaxSaves, form : {"raw"}]

\* Where a worker has a temporary, and where that one exists.
StagingPcs == {"create", "write", "sync", "mode", "rename", "clean"}
StagedPcs  == {"write", "sync", "mode", "rename"}

\* Processes that live have ids of their own.
RunsDiffer ==
    /\ \A r \in Runs : run[r].alive => run[r].pid \in Pids
    /\ \A r, q \in Runs : r # q /\ run[r].alive /\ run[q].alive => run[r].pid # run[q].pid

\* A worker's temporary bears its process's id and a number below the next of
\* the sequence, and holds the file the worker writes.
Holds(j) ==
    /\ job[j].pc # "idle" => run[RunOf[j]].alive
    /\ job[j].pc \in StagingPcs =>
          /\ job[j].temp \in Temps
          /\ job[j].temp[1] = run[RunOf[j]].pid
          /\ job[j].temp[2] < run[RunOf[j]].seq
    /\ job[j].pc \notin StagingPcs => job[j].temp = NoFile
    /\ job[j].pc \in StagedPcs => job[j].inode \in Inodes
    /\ job[j].inode \in Inodes => job[j].pc \in StagingPcs /\ dir[job[j].temp] = job[j].inode

WorkersHold == \A j \in Jobs : Holds(j)

\* No two workers have one temporary.
TempsDiffer ==
    \A j, k \in Jobs : j # k /\ job[j].pc \in StagingPcs /\ job[k].pc \in StagingPcs
                          => job[j].temp # job[k].temp

\* No two names have one file, and the one the disk knows Src by is no
\* temporary's.
NamesDiffer ==
    /\ dir[Link] = SymLink
    /\ \A n \in Names \ {Link} : dir[n] \in Inodes \cup {NoFile}
    /\ \A m, n \in Names : m # n /\ dir[m] \in Inodes => dir[m] # dir[n]
    /\ \A t \in Temps : dir[t] \in Inodes => dir[t] # journal

\* What a worker's file is on its way to becoming.
Becoming(j) ==
    /\ job[j].pc \in StagingPcs \cup {"name"} => job[j].text \in held \cap Raw
    /\ job[j].pc \in {"sync", "mode", "rename"} => file[job[j].inode].text = Neat(job[j].text)
    /\ job[j].pc \in {"mode", "rename"} => file[job[j].inode].synced
    /\ job[j].pc = "rename" => file[job[j].inode].mode = "users"

\* What is or may become the source is whole, synced, and the new form of a
\* text the source held.
Contents ==
    /\ \A i \in {dir[Src], journal} : TextAt(i) \in held
    /\ \A i \in {dir[Src], journal} \cap Inodes :
          file[i].synced /\ file[i].text.form # "torn" /\ file[i].mode = "users"
    /\ \A j \in Jobs : Becoming(j)

IInv == TypeOK /\ RunsDiffer /\ WorkersHold /\ TempsDiffer /\ NamesDiffer
               /\ Contents /\ NoUnexplainedTemporary

\* The texts a command makes of texts are texts.
LEMMA TextFacts ==
    /\ \A t \in Raw : t \in Texts /\ Neat(t) \in Texts /\ Neat(t).form = "neat"
    /\ \A t \in Texts : Torn(t) \in Texts
    /\ Absent \notin Texts
BY DEF Raw, Texts, Neat, Torn, Absent

\* A new project's file is what it was saved as.
LEMMA InitEstablishes == Init => IInv
<1> SUFFICES ASSUME Init
             PROVE  IInv
  OBVIOUS
<1>1. PICK i \in Inodes :
        /\ dir = [n \in Names |-> IF n = Src THEN i ELSE IF n = Link THEN SymLink ELSE NoFile]
        /\ journal = i
  BY DEF Init
<1>2. /\ file = [x \in Inodes |-> [text |-> [save |-> 0, form |-> "raw"], mode |-> "users", synced |-> TRUE]]
      /\ run = [r \in Runs |-> [alive |-> FALSE, pid |-> NoFile, seq |-> 0]]
      /\ job = [j \in Jobs |-> Idle]
      /\ litter = {} /\ moves = 0 /\ losses = 0
      /\ held = {[save |-> 0, form |-> "raw"]}
  BY DEF Init
<1>3. TypeOK
  BY <1>1, <1>2, WriteAssumption DEF TypeOK, Texts, Modes, Pcs, Idle
<1>4. RunsDiffer
  BY <1>2 DEF RunsDiffer
<1>5. WorkersHold /\ TempsDiffer
  BY <1>2, WriteAssumption DEF WorkersHold, Holds, TempsDiffer, StagingPcs, StagedPcs, Idle
<1>6. NamesDiffer
  BY <1>1, WriteAssumption DEF NamesDiffer, Names, Temps
<1>7. Contents
  BY <1>1, <1>2 DEF Contents, Becoming, TextAt, Idle, StagingPcs, Names
<1>8. NoUnexplainedTemporary
  BY <1>1, WriteAssumption DEF NoUnexplainedTemporary, Names, Temps
<1>9. QED
  BY <1>3, <1>4, <1>5, <1>6, <1>7, <1>8 DEF IInv

------------------------------------------------------------------------------
JobRecords == [pc : Pcs, text : Texts \cup {Absent}, temp : Temps \cup {NoFile}, inode : Inodes \cup {NoFile}]
Records == [text : Texts, mode : Modes, synced : BOOLEAN]

\* What the source holds, and a step of the register it is.
Source == TextAt(dir[Src])
RegisterStep == Register!Next \/ UNCHANGED <<Source, held>>

\* The names of the directory are distinct.
LEMMA NameFacts ==
    /\ Src \in Names /\ Link \in Names /\ Temps \subseteq Names
    /\ Src # Link /\ Src \notin Temps /\ Link \notin Temps /\ NoFile \notin Temps
    /\ \A n \in Names : n = Src \/ n = Link \/ n \in Temps
BY WriteAssumption DEF Names, Temps

\* One worker's move.
LEMMA JobMoves ==
    ASSUME TypeOK, NEW j \in Jobs, NEW q \in JobRecords, job' = [job EXCEPT ![j] = q]
    PROVE  job' \in [Jobs -> JobRecords] /\ job'[j] = q /\ \A k \in Jobs : k # j => job'[k] = job[k]
BY DEF TypeOK, JobRecords

\* A worker goes on to its next call and keeps what it has.
LEMMA Going ==
    ASSUME TypeOK, NEW j \in Jobs, NEW pc \in Pcs, Goes(j, pc)
    PROVE  /\ job' \in [Jobs -> JobRecords]
           /\ job'[j].pc = pc /\ job'[j].text = job[j].text
           /\ job'[j].temp = job[j].temp /\ job'[j].inode = job[j].inode
           /\ \A k \in Jobs : k # j => job'[k] = job[k]
<1> DEFINE q == [job[j] EXCEPT !.pc = pc]
<1>1. job[j] \in JobRecords
  BY DEF TypeOK, JobRecords
<1>2. q \in JobRecords /\ q.pc = pc /\ q.text = job[j].text /\ q.temp = job[j].temp /\ q.inode = job[j].inode
  BY <1>1 DEF JobRecords
<1>3. job' = [job EXCEPT ![j] = q]
  BY DEF Goes
<1> HIDE DEF q
<1>4. QED
  BY <1>2, <1>3, JobMoves

\* What a worker writes is neither the source, as the directory or the disk
\* know it, nor another worker's.
LEMMA Private == IInv => StagingIsPrivate
<1> SUFFICES ASSUME IInv, NEW j \in Jobs
             PROVE  /\ job[j].inode \in Inodes => job[j].inode \notin {dir[Src], journal}
                    /\ \A k \in Jobs \ {j} :
                          /\ job[j].temp \in Temps => job[j].temp # job[k].temp
                          /\ job[j].inode \in Inodes => job[j].inode # job[k].inode
  BY DEF StagingIsPrivate
<1>1. \A k \in Jobs : job[k].inode \in Inodes =>
         job[k].pc \in StagingPcs /\ job[k].temp \in Temps /\ dir[job[k].temp] = job[k].inode
  BY DEF IInv, WorkersHold, Holds
<1>2. job[j].inode \in Inodes => job[j].inode \notin {dir[Src], journal}
  BY <1>1, NameFacts DEF IInv, NamesDiffer
<1>3. ASSUME NEW k \in Jobs \ {j}
      PROVE  job[j].temp \in Temps => job[j].temp # job[k].temp
  BY NameFacts DEF IInv, WorkersHold, Holds, TempsDiffer
<1>4. ASSUME NEW k \in Jobs \ {j}
      PROVE  job[j].inode \in Inodes => job[j].inode # job[k].inode
  BY <1>1, <1>3, NameFacts DEF IInv, NamesDiffer
<1>5. QED
  BY <1>2, <1>3, <1>4

\* The invariant survives a call that fails.
LEMMA FailsKeeps ==
    ASSUME IInv, NEW j \in Jobs, Fails(j)
    PROVE  IInv' /\ RegisterStep
<1> USE DEF IInv
<1>1. job[j].pc \in {"create", "write", "sync", "mode", "rename"}
  BY DEF Fails
<1>2. /\ job' \in [Jobs -> JobRecords]
      /\ job'[j].pc = "clean" /\ job'[j].text = job[j].text
      /\ job'[j].temp = job[j].temp /\ job'[j].inode = job[j].inode
      /\ \A k \in Jobs : k # j => job'[k] = job[k]
  BY Going DEF Fails, Pcs
<1>3. /\ dir' = dir /\ journal' = journal /\ file' = file /\ run' = run /\ litter' = litter
      /\ moves' = moves /\ losses' = losses /\ held' = held
  BY DEF Fails, fs, user
<1>4. TypeOK'
  BY <1>1, <1>2, <1>3 DEF TypeOK, JobRecords
<1>5. RunsDiffer'
  BY <1>3 DEF RunsDiffer
<1>6. WorkersHold'
  <2>1. ASSUME NEW k \in Jobs
        PROVE  Holds(k)'
    <3>1. CASE k = j
      BY <1>1, <1>2, <1>3, NameFacts DEF WorkersHold, Holds, StagingPcs, StagedPcs
    <3>2. CASE k # j
      BY <1>1, <1>2, <1>3, NameFacts, WriteAssumption, Private, <3>2 DEF WorkersHold, Holds
    <3>3. QED
      BY <3>1, <3>2
  <2>2. QED
    BY <2>1 DEF WorkersHold
<1>7. TempsDiffer'
  BY <1>1, <1>2 DEF TempsDiffer, StagingPcs
<1>8. NamesDiffer'
  <2>1. dir'[Link] = SymLink /\ \A n \in Names \ {Link} : dir'[n] \in Inodes \cup {NoFile}
    BY <1>3 DEF NamesDiffer
  <2>2. \A m, n \in Names : m # n /\ dir'[m] \in Inodes => dir'[m] # dir'[n]
    BY <1>3 DEF NamesDiffer
  <2>3. \A t \in Temps : dir'[t] \in Inodes => dir'[t] # journal'
    BY <1>3 DEF NamesDiffer
  <2>4. QED
    BY <2>1, <2>2, <2>3 DEF NamesDiffer
<1>9. Contents'
  <2>1. \A i \in {dir'[Src], journal'} : TextAt(i)' \in held'
    BY <1>1, <1>2, <1>3 DEF Contents, TextAt
  <2>2. \A i \in {dir'[Src], journal'} \cap Inodes :
          file'[i].synced /\ file'[i].text.form # "torn" /\ file'[i].mode = "users"
    BY <1>1, <1>2, <1>3, Private DEF Contents
  <2>3. ASSUME NEW k \in Jobs
        PROVE  Becoming(k)'
    <3>1. CASE k = j
      BY <1>1, <1>2, <1>3, Private DEF Contents, Becoming, StagingPcs
    <3>2. CASE k # j
      BY <1>1, <1>2, <1>3, Private, NameFacts, WriteAssumption, TextFacts, <3>2 DEF Contents, Becoming
    <3>3. QED
      BY <3>1, <3>2
  <2>4. QED
    BY <1>3, <2>1, <2>3 DEF Contents
<1>10. NoUnexplainedTemporary'
  BY <1>1, <1>2, <1>3 DEF NoUnexplainedTemporary
<1>11. RegisterStep
  BY <1>1, <1>2, <1>3 DEF RegisterStep, Source, TextAt
<1>12. QED
  BY <1>4, <1>5, <1>6, <1>7, <1>8, <1>9, <1>10, <1>11

\* The invariant survives write_all.
LEMMA WriteKeeps ==
    ASSUME IInv, NEW j \in Jobs, Write(j)
    PROVE  IInv' /\ RegisterStep
<1> USE DEF IInv
<1>1. job[j].pc = "write" /\ job[j].inode \in Inodes /\ job[j].text \in Raw
  BY DEF Write, At, WorkersHold, Holds, StagedPcs, Contents, Becoming
<1>2. /\ job' \in [Jobs -> JobRecords]
      /\ job'[j].pc = "sync" /\ job'[j].text = job[j].text
      /\ job'[j].temp = job[j].temp /\ job'[j].inode = job[j].inode
      /\ \A k \in Jobs : k # j => job'[k] = job[k]
  BY Going DEF Write, Pcs
<1>3. /\ dir' = dir /\ journal' = journal /\ run' = run /\ litter' = litter
      /\ moves' = moves /\ losses' = losses /\ held' = held
  BY DEF Write, user
<1>4. /\ file' \in [Inodes -> Records]
      /\ file'[job[j].inode].text = Neat(job[j].text)
      /\ file'[job[j].inode].mode = file[job[j].inode].mode
      /\ file'[job[j].inode].synced = file[job[j].inode].synced
      /\ \A i \in Inodes : i # job[j].inode => file'[i] = file[i]
  BY <1>1, TextFacts DEF Write, TypeOK, Records
<1>5. TypeOK'
  BY <1>1, <1>2, <1>3, <1>4 DEF TypeOK, JobRecords, Records
<1>6. RunsDiffer'
  BY <1>3 DEF RunsDiffer
<1>7. WorkersHold'
  <2>1. ASSUME NEW k \in Jobs
        PROVE  Holds(k)'
    <3>1. CASE k = j
      BY <1>1, <1>2, <1>3, <1>4, NameFacts DEF WorkersHold, Holds, StagingPcs
    <3>2. CASE k # j
      BY <1>1, <1>2, <1>3, <1>4, NameFacts, WriteAssumption, Private, <3>2 DEF WorkersHold, Holds
    <3>3. QED
      BY <3>1, <3>2
  <2>2. QED
    BY <2>1 DEF WorkersHold
<1>8. TempsDiffer'
  BY <1>1, <1>2 DEF TempsDiffer, StagingPcs
<1>9. NamesDiffer'
  <2>1. dir'[Link] = SymLink /\ \A n \in Names \ {Link} : dir'[n] \in Inodes \cup {NoFile}
    BY <1>1, <1>3 DEF NamesDiffer
  <2>2. \A m, n \in Names : m # n /\ dir'[m] \in Inodes => dir'[m] # dir'[n]
    BY <1>1, <1>3 DEF NamesDiffer
  <2>3. \A t \in Temps : dir'[t] \in Inodes => dir'[t] # journal'
    BY <1>1, <1>3 DEF NamesDiffer
  <2>4. QED
    BY <2>1, <2>2, <2>3 DEF NamesDiffer
<1>10. Contents'
  <2>1. \A i \in {dir'[Src], journal'} : TextAt(i)' \in held'
    BY <1>1, <1>2, <1>3, <1>4, Private DEF Contents, TextAt, StagingIsPrivate
  <2>2. \A i \in {dir'[Src], journal'} \cap Inodes :
          file'[i].synced /\ file'[i].text.form # "torn" /\ file'[i].mode = "users"
    BY <1>1, <1>2, <1>3, <1>4, Private, TextFacts DEF Contents
  <2>3. ASSUME NEW k \in Jobs
        PROVE  Becoming(k)'
    <3>1. CASE k = j
      BY <1>1, <1>2, <1>3, <1>4, Private, <3>1 DEF Contents, Becoming, StagingPcs
    <3>2. CASE k # j
      BY <1>1, <1>2, <1>3, <1>4, Private, NameFacts, WriteAssumption, TextFacts, <3>2 DEF Contents, Becoming, StagingPcs, StagedPcs, WorkersHold, Holds, StagingIsPrivate
    <3>3. QED
      BY <3>1, <3>2
  <2>4. QED
    BY <1>1, <2>1, <2>2, <2>3 DEF Contents
<1>11. NoUnexplainedTemporary'
  BY <1>1, <1>2, <1>3 DEF NoUnexplainedTemporary
<1>12. RegisterStep
  BY <1>1, <1>2, <1>3, <1>4, Private DEF RegisterStep, Source, TextAt, StagingIsPrivate
<1>13. QED
  BY <1>5, <1>6, <1>7, <1>8, <1>9, <1>10, <1>11, <1>12

\* The invariant survives sync_all.
LEMMA SyncKeeps ==
    ASSUME IInv, NEW j \in Jobs, Sync(j)
    PROVE  IInv' /\ RegisterStep
<1> USE DEF IInv
<1>1. job[j].pc = "sync" /\ job[j].inode \in Inodes
  BY DEF Sync, At, WorkersHold, Holds, StagedPcs
<1>2. /\ job' \in [Jobs -> JobRecords]
      /\ job'[j].pc = "mode" /\ job'[j].text = job[j].text
      /\ job'[j].temp = job[j].temp /\ job'[j].inode = job[j].inode
      /\ \A k \in Jobs : k # j => job'[k] = job[k]
  BY Going DEF Sync, Pcs
<1>3. /\ dir' = dir /\ journal' = journal /\ run' = run /\ litter' = litter
      /\ moves' = moves /\ losses' = losses /\ held' = held
  BY DEF Sync, user
<1>4. /\ file' \in [Inodes -> Records]
      /\ file'[job[j].inode].text = file[job[j].inode].text
      /\ file'[job[j].inode].mode = file[job[j].inode].mode
      /\ file'[job[j].inode].synced = TRUE
      /\ \A i \in Inodes : i # job[j].inode => file'[i] = file[i]
  BY <1>1 DEF Sync, TypeOK, Records
<1>5. TypeOK'
  BY <1>1, <1>2, <1>3, <1>4 DEF TypeOK, JobRecords, Records
<1>6. RunsDiffer'
  BY <1>3 DEF RunsDiffer
<1>7. WorkersHold'
  <2>1. ASSUME NEW k \in Jobs
        PROVE  Holds(k)'
    <3>1. CASE k = j
      BY <1>1, <1>2, <1>3, <1>4, NameFacts DEF WorkersHold, Holds, StagingPcs
    <3>2. CASE k # j
      BY <1>1, <1>2, <1>3, <1>4, NameFacts, WriteAssumption, Private, <3>2 DEF WorkersHold, Holds
    <3>3. QED
      BY <3>1, <3>2
  <2>2. QED
    BY <2>1 DEF WorkersHold
<1>8. TempsDiffer'
  BY <1>1, <1>2 DEF TempsDiffer, StagingPcs
<1>9. NamesDiffer'
  <2>1. dir'[Link] = SymLink /\ \A n \in Names \ {Link} : dir'[n] \in Inodes \cup {NoFile}
    BY <1>1, <1>3 DEF NamesDiffer
  <2>2. \A m, n \in Names : m # n /\ dir'[m] \in Inodes => dir'[m] # dir'[n]
    BY <1>1, <1>3 DEF NamesDiffer
  <2>3. \A t \in Temps : dir'[t] \in Inodes => dir'[t] # journal'
    BY <1>1, <1>3 DEF NamesDiffer
  <2>4. QED
    BY <2>1, <2>2, <2>3 DEF NamesDiffer
<1>10. Contents'
  <2>1. \A i \in {dir'[Src], journal'} : TextAt(i)' \in held'
    BY <1>1, <1>2, <1>3, <1>4 DEF Contents, TextAt
  <2>2. \A i \in {dir'[Src], journal'} \cap Inodes :
          file'[i].synced /\ file'[i].text.form # "torn" /\ file'[i].mode = "users"
    BY <1>1, <1>2, <1>3, <1>4, Private DEF Contents
  <2>3. ASSUME NEW k \in Jobs
        PROVE  Becoming(k)'
    <3>1. CASE k = j
      BY <1>1, <1>2, <1>3, <1>4, Private, <3>1 DEF Contents, Becoming, StagingPcs
    <3>2. CASE k # j
      BY <1>1, <1>2, <1>3, <1>4, Private, NameFacts, WriteAssumption, TextFacts, <3>2 DEF Contents, Becoming, StagingPcs, StagedPcs, WorkersHold, Holds, StagingIsPrivate
    <3>3. QED
      BY <3>1, <3>2
  <2>4. QED
    BY <1>1, <1>3, <1>4, <2>1, <2>3 DEF Contents
<1>11. NoUnexplainedTemporary'
  BY <1>1, <1>2, <1>3 DEF NoUnexplainedTemporary
<1>12. RegisterStep
  BY <1>1, <1>2, <1>3, <1>4 DEF RegisterStep, Source, TextAt
<1>13. QED
  BY <1>5, <1>6, <1>7, <1>8, <1>9, <1>10, <1>11, <1>12

\* The invariant survives copy_permissions.
LEMMA CopyModeKeeps ==
    ASSUME IInv, NEW j \in Jobs, CopyMode(j)
    PROVE  IInv' /\ RegisterStep
<1> USE DEF IInv
<1>1. job[j].pc = "mode" /\ job[j].inode \in Inodes /\ dir[Src] \in Inodes
  BY DEF CopyMode, At, WorkersHold, Holds, StagedPcs
<1>2. /\ job' \in [Jobs -> JobRecords]
      /\ job'[j].pc = "rename" /\ job'[j].text = job[j].text
      /\ job'[j].temp = job[j].temp /\ job'[j].inode = job[j].inode
      /\ \A k \in Jobs : k # j => job'[k] = job[k]
  BY Going DEF CopyMode, Pcs
<1>3. /\ dir' = dir /\ journal' = journal /\ run' = run /\ litter' = litter
      /\ moves' = moves /\ losses' = losses /\ held' = held
  BY DEF CopyMode, user
<1>4. /\ file' \in [Inodes -> Records]
      /\ file'[job[j].inode].text = file[job[j].inode].text
      /\ file'[job[j].inode].mode = file[dir[Src]].mode
      /\ file'[job[j].inode].synced = file[job[j].inode].synced
      /\ \A i \in Inodes : i # job[j].inode => file'[i] = file[i]
  BY <1>1 DEF CopyMode, TypeOK, Records
<1>5. TypeOK'
  BY <1>1, <1>2, <1>3, <1>4 DEF TypeOK, JobRecords, Records
<1>6. RunsDiffer'
  BY <1>3 DEF RunsDiffer
<1>7. WorkersHold'
  <2>1. ASSUME NEW k \in Jobs
        PROVE  Holds(k)'
    <3>1. CASE k = j
      BY <1>1, <1>2, <1>3, <1>4, NameFacts DEF WorkersHold, Holds, StagingPcs
    <3>2. CASE k # j
      BY <1>1, <1>2, <1>3, <1>4, NameFacts, WriteAssumption, Private, <3>2 DEF WorkersHold, Holds
    <3>3. QED
      BY <3>1, <3>2
  <2>2. QED
    BY <2>1 DEF WorkersHold
<1>8. TempsDiffer'
  BY <1>1, <1>2 DEF TempsDiffer, StagingPcs
<1>9. NamesDiffer'
  <2>1. dir'[Link] = SymLink /\ \A n \in Names \ {Link} : dir'[n] \in Inodes \cup {NoFile}
    BY <1>1, <1>3 DEF NamesDiffer
  <2>2. \A m, n \in Names : m # n /\ dir'[m] \in Inodes => dir'[m] # dir'[n]
    BY <1>1, <1>3 DEF NamesDiffer
  <2>3. \A t \in Temps : dir'[t] \in Inodes => dir'[t] # journal'
    BY <1>1, <1>3 DEF NamesDiffer
  <2>4. QED
    BY <2>1, <2>2, <2>3 DEF NamesDiffer
<1>10. Contents'
  <2>1. \A i \in {dir'[Src], journal'} : TextAt(i)' \in held'
    BY <1>1, <1>2, <1>3, <1>4 DEF Contents, TextAt
  <2>2. \A i \in {dir'[Src], journal'} \cap Inodes :
          file'[i].synced /\ file'[i].text.form # "torn" /\ file'[i].mode = "users"
    BY <1>1, <1>2, <1>3, <1>4, Private DEF Contents
  <2>3. ASSUME NEW k \in Jobs
        PROVE  Becoming(k)'
    <3>1. CASE k = j
      BY <1>1, <1>2, <1>3, <1>4, Private, <3>1 DEF Contents, Becoming, StagingPcs
    <3>2. CASE k # j
      BY <1>1, <1>2, <1>3, <1>4, Private, NameFacts, WriteAssumption, TextFacts, <3>2 DEF Contents, Becoming, StagingPcs, StagedPcs, WorkersHold, Holds, StagingIsPrivate
    <3>3. QED
      BY <3>1, <3>2
  <2>4. QED
    BY <1>1, <1>3, <1>4, <2>1, <2>3 DEF Contents
<1>11. NoUnexplainedTemporary'
  BY <1>1, <1>2, <1>3 DEF NoUnexplainedTemporary
<1>12. RegisterStep
  BY <1>1, <1>2, <1>3, <1>4 DEF RegisterStep, Source, TextAt
<1>13. QED
  BY <1>5, <1>6, <1>7, <1>8, <1>9, <1>10, <1>11, <1>12

\* The invariant survives the removal of a temporary.
LEMMA CleanKeeps ==
    ASSUME IInv, NEW j \in Jobs, Clean(j)
    PROVE  IInv' /\ RegisterStep
<1> USE DEF IInv
<1>1. job[j].pc = "clean" /\ job[j].temp \in Temps
  BY DEF Clean, At, WorkersHold, Holds, StagingPcs
<1>2. /\ job' \in [Jobs -> JobRecords]
      /\ job'[j].pc = "failed" /\ job'[j].text = job[j].text
      /\ job'[j].temp = NoFile /\ job'[j].inode = NoFile
      /\ \A k \in Jobs : k # j => job'[k] = job[k]
  <2> DEFINE q == [job[j] EXCEPT !.pc = "failed", !.inode = NoFile, !.temp = NoFile]
  <2>1. job[j] \in JobRecords
    BY DEF TypeOK, JobRecords
  <2>2. q \in JobRecords
    BY <2>1 DEF JobRecords, Pcs
  <2>3. q.pc = "failed" /\ q.text = job[j].text /\ q.temp = NoFile /\ q.inode = NoFile
    BY <2>1 DEF JobRecords
  <2>4. job' = [job EXCEPT ![j] = q]
    BY <1>1 DEF Clean
  <2> HIDE DEF q
  <2>5. QED
    BY <2>2, <2>3, <2>4, JobMoves
<1>3. journal' = journal /\ file' = file /\ run' = run /\ moves' = moves /\ losses' = losses /\ held' = held
  BY DEF Clean, user
<1>4. \/ /\ dir' \in [Names -> Inodes \cup {NoFile, SymLink}]
         /\ dir'[job[j].temp] = NoFile /\ \A n \in Names : n # job[j].temp => dir'[n] = dir[n]
         /\ litter' = litter \ {job[j].temp}
      \/ dir' = dir /\ litter' = litter \cup {job[j].temp}
  BY <1>1, NameFacts DEF Clean, TypeOK
<1>5. TypeOK'
  BY <1>1, <1>2, <1>3, <1>4 DEF TypeOK, JobRecords
<1>6. RunsDiffer'
  BY <1>3 DEF RunsDiffer
<1>7. WorkersHold'
  <2>1. ASSUME NEW k \in Jobs
        PROVE  Holds(k)'
    <3>1. CASE k = j
      BY <1>1, <1>2, <1>3, <1>4, NameFacts, WriteAssumption, <3>1 DEF WorkersHold, Holds, StagingPcs, StagedPcs
    <3>2. CASE k # j
      BY <1>1, <1>2, <1>3, <1>4, NameFacts, WriteAssumption, Private, <3>2 DEF WorkersHold, Holds, StagingIsPrivate
    <3>3. QED
      BY <3>1, <3>2
  <2>2. QED
    BY <2>1 DEF WorkersHold
<1>8. TempsDiffer'
  BY <1>1, <1>2 DEF TempsDiffer, StagingPcs
<1>9. NamesDiffer'
  <2>1. dir'[Link] = SymLink /\ \A n \in Names \ {Link} : dir'[n] \in Inodes \cup {NoFile}
    BY <1>1, <1>4, NameFacts DEF NamesDiffer
  <2>2. \A m, n \in Names : m # n /\ dir'[m] \in Inodes => dir'[m] # dir'[n]
    BY <1>1, <1>4, WriteAssumption DEF NamesDiffer
  <2>3. \A t \in Temps : dir'[t] \in Inodes => dir'[t] # journal'
    BY <1>1, <1>3, <1>4, NameFacts, WriteAssumption DEF NamesDiffer
  <2>4. QED
    BY <2>1, <2>2, <2>3 DEF NamesDiffer
<1>10. Contents'
  <2>1. \A i \in {dir'[Src], journal'} : TextAt(i)' \in held'
    BY <1>1, <1>2, <1>3, <1>4, NameFacts DEF Contents, TextAt
  <2>2. \A i \in {dir'[Src], journal'} \cap Inodes :
          file'[i].synced /\ file'[i].text.form # "torn" /\ file'[i].mode = "users"
    BY <1>1, <1>2, <1>3, <1>4, Private, NameFacts DEF Contents
  <2>3. ASSUME NEW k \in Jobs
        PROVE  Becoming(k)'
    <3>1. CASE k = j
      BY <1>1, <1>2, <1>3, <1>4, Private, <3>1 DEF Becoming, StagingPcs
    <3>2. CASE k # j
      BY <1>1, <1>2, <1>3, <1>4, Private, NameFacts, WriteAssumption, TextFacts, <3>2 DEF Contents, Becoming
    <3>3. QED
      BY <3>1, <3>2
  <2>4. QED
    BY <1>1, <2>1, <2>2, <2>3 DEF Contents
<1>11. NoUnexplainedTemporary'
  BY <1>1, <1>2, <1>3, <1>4, NameFacts, WriteAssumption DEF NoUnexplainedTemporary
<1>12. RegisterStep
  BY <1>1, <1>2, <1>3, <1>4, NameFacts DEF RegisterStep, Source, TextAt
<1>13. QED
  BY <1>5, <1>6, <1>7, <1>8, <1>9, <1>10, <1>11, <1>12

\* The invariant survives the rename.
LEMMA RenameKeeps ==
    ASSUME IInv, NEW j \in Jobs, Rename(j)
    PROVE  IInv' /\ RegisterStep
<1> USE DEF IInv
<1>1. /\ job[j].pc = "rename" /\ job[j].temp \in Temps /\ job[j].inode \in Inodes
      /\ dir[job[j].temp] = job[j].inode
  BY DEF Rename, At, WorkersHold, Holds, StagedPcs
<1>2. /\ job' \in [Jobs -> JobRecords]
      /\ job'[j].pc = "done" /\ job'[j].text = job[j].text
      /\ job'[j].temp = NoFile /\ job'[j].inode = NoFile
      /\ \A k \in Jobs : k # j => job'[k] = job[k]
  <2> DEFINE q == [job[j] EXCEPT !.pc = "done", !.inode = NoFile, !.temp = NoFile]
  <2>1. job[j] \in JobRecords
    BY DEF TypeOK, JobRecords
  <2>2. q \in JobRecords
    BY <2>1 DEF JobRecords, Pcs
  <2>3. q.pc = "done" /\ q.text = job[j].text /\ q.temp = NoFile /\ q.inode = NoFile
    BY <2>1 DEF JobRecords
  <2>4. job' = [job EXCEPT ![j] = q]
    BY <1>1 DEF Rename
  <2> HIDE DEF q
  <2>5. QED
    BY <2>2, <2>3, <2>4, JobMoves
<1>3. journal' = journal /\ file' = file /\ run' = run /\ litter' = litter /\ moves' = moves /\ losses' = losses
  BY DEF Rename
<1>4. TargetOf(j) = Src
  BY WriteAssumption DEF TargetOf, Resolved, NamesDiffer
<1>5. /\ dir' \in [Names -> Inodes \cup {NoFile, SymLink}]
      /\ dir'[Src] = job[j].inode /\ dir'[job[j].temp] = NoFile
      /\ \A n \in Names : n # Src /\ n # job[j].temp => dir'[n] = dir[n]
  BY <1>1, NameFacts DEF Rename, TypeOK
<1>6. /\ file[job[j].inode].synced /\ file[job[j].inode].mode = "users"
      /\ file[job[j].inode].text.form # "torn"
  BY <1>1, TextFacts DEF Contents, Becoming, StagingPcs
<1>7. held' = held \cup {file[job[j].inode].text}
  BY <1>1, <1>5 DEF Rename, Notes
<1>8. TypeOK'
  BY <1>1, <1>2, <1>3, <1>4, <1>5, <1>7 DEF TypeOK, JobRecords
<1>9. RunsDiffer'
  BY <1>1, <1>2, <1>3 DEF RunsDiffer
<1>10. WorkersHold'
  <2>1. ASSUME NEW k \in Jobs
        PROVE  Holds(k)'
    <3>1. CASE k = j
      BY <1>1, <1>2, <1>3, <1>4, <1>5, <1>6, <1>7, NameFacts, WriteAssumption, <3>1 DEF WorkersHold, Holds, StagingPcs, StagedPcs
    <3>2. CASE k # j
      BY <1>1, <1>2, <1>3, <1>4, <1>5, <1>6, <1>7, NameFacts, WriteAssumption, Private, <3>2 DEF WorkersHold, Holds, StagingIsPrivate
    <3>3. QED
      BY <3>1, <3>2
  <2>2. QED
    BY <2>1 DEF WorkersHold
<1>11. TempsDiffer'
  BY <1>1, <1>2, <1>3, <1>4 DEF TempsDiffer, StagingPcs
<1>12. NamesDiffer'
  <2>1. dir'[Link] = SymLink /\ \A n \in Names \ {Link} : dir'[n] \in Inodes \cup {NoFile}
    BY <1>1, <1>5, NameFacts DEF NamesDiffer
  <2>2. ASSUME NEW m \in Names, NEW n \in Names, m # n, dir'[m] \in Inodes
        PROVE  dir'[m] # dir'[n]
    <3>1. job[j].temp \in Names /\ m # job[j].temp
      BY <1>1, <1>5, <2>2, NameFacts, WriteAssumption
    <3>2. CASE n = job[j].temp
      BY <1>5, <2>2, <3>2, WriteAssumption
    <3>3. CASE n # job[j].temp /\ m = Src
      BY <1>1, <1>5, <2>2, <3>1, <3>3 DEF NamesDiffer
    <3>4. CASE n # job[j].temp /\ n = Src
      BY <1>1, <1>5, <2>2, <3>1, <3>4 DEF NamesDiffer
    <3>5. CASE n # job[j].temp /\ m # Src /\ n # Src
      BY <1>5, <2>2, <3>1, <3>5 DEF NamesDiffer
    <3>6. QED
      BY <3>2, <3>3, <3>4, <3>5
  <2>3. \A t \in Temps : dir'[t] \in Inodes => dir'[t] # journal'
    BY <1>3, <1>5, NameFacts, WriteAssumption DEF NamesDiffer
  <2>4. QED
    BY <2>1, <2>2, <2>3 DEF NamesDiffer
<1>13. Contents'
  <2>1. \A i \in {dir'[Src], journal'} : TextAt(i)' \in held'
    BY <1>1, <1>2, <1>3, <1>4, <1>5, <1>6, <1>7 DEF Contents, TextAt
  <2>2. \A i \in {dir'[Src], journal'} \cap Inodes :
          file'[i].synced /\ file'[i].text.form # "torn" /\ file'[i].mode = "users"
    BY <1>1, <1>2, <1>3, <1>4, <1>5, <1>6, <1>7, Private DEF Contents
  <2>3. ASSUME NEW k \in Jobs
        PROVE  Becoming(k)'
    <3>1. CASE k = j
      BY <1>1, <1>2, <1>3, <1>4, <1>5, <1>6, <1>7, Private, <3>1 DEF Becoming, StagingPcs
    <3>2. CASE k # j
      BY <1>1, <1>2, <1>3, <1>4, <1>5, <1>6, <1>7, Private, NameFacts, WriteAssumption, TextFacts, <3>2 DEF Contents, Becoming
    <3>3. QED
      BY <3>1, <3>2
  <2>4. QED
    BY <1>1, <1>2, <1>3, <1>4, <1>5, <1>6, <2>1, <2>3 DEF Contents
<1>14. NoUnexplainedTemporary'
  BY <1>1, <1>2, <1>3, <1>4, <1>5, <1>6, NameFacts, WriteAssumption DEF NoUnexplainedTemporary
<1>15. RegisterStep
  <2> DEFINE t == job[j].text
  <2>1. t \in held \cap Raw /\ file[job[j].inode].text = Neat(t)
    BY <1>1 DEF Contents, Becoming, StagingPcs
  <2>2. Source' = Neat(t) /\ held' = held \cup {Neat(t)}
    BY <1>1, <1>3, <1>5, <1>7, <2>1 DEF Source, TextAt
  <2> HIDE DEF t
  <2>3. QED
    BY <2>1, <2>2 DEF RegisterStep, Register!Next, Register!Replace, Register!Becomes, Source, Raw
<1>16. QED
  BY <1>8, <1>9, <1>10, <1>11, <1>12, <1>13, <1>14, <1>15

\* The invariant survives the creation of a temporary.
LEMMA CreateKeeps ==
    ASSUME IInv, NEW j \in Jobs, Create(j)
    PROVE  IInv' /\ RegisterStep
<1> USE DEF IInv
<1>1. job[j].pc = "create" /\ job[j].temp \in Temps /\ job[j].text \in Raw
  BY DEF Create, At, WorkersHold, Holds, StagingPcs, Contents, Becoming
<1>2. PICK i \in Inodes :
        /\ IF dir[job[j].temp] \in Inodes THEN i = dir[job[j].temp] ELSE i \in Unused
        /\ dir' = [dir EXCEPT ![job[j].temp] = i]
        /\ file' = [file EXCEPT ![i] = [text |-> Torn(job[j].text), synced |-> FALSE,
                       mode |-> IF dir[job[j].temp] = i THEN file[i].mode ELSE "fresh"]]
        /\ job' = [job EXCEPT ![j].pc = "write", ![j].inode = i]
  BY DEF Create
<1>3. /\ job' \in [Jobs -> JobRecords]
      /\ job'[j].pc = "write" /\ job'[j].text = job[j].text
      /\ job'[j].temp = job[j].temp /\ job'[j].inode = i
      /\ \A k \in Jobs : k # j => job'[k] = job[k]
  <2> DEFINE q == [job[j] EXCEPT !.pc = "write", !.inode = i]
  <2>1. job[j] \in JobRecords
    BY DEF TypeOK, JobRecords
  <2>2. q \in JobRecords
    BY <2>1 DEF JobRecords, Pcs
  <2>3. q.pc = "write" /\ q.text = job[j].text /\ q.temp = job[j].temp /\ q.inode = i
    BY <2>1 DEF JobRecords
  <2>4. job' = [job EXCEPT ![j] = q]
    BY <1>2 DEF Create
  <2> HIDE DEF q
  <2>5. QED
    BY <2>2, <2>3, <2>4, JobMoves
<1>4. /\ journal' = journal /\ run' = run /\ litter' = litter \ {job[j].temp}
      /\ moves' = moves /\ losses' = losses /\ held' = held
  BY DEF Create, user
<1>5. /\ dir' \in [Names -> Inodes \cup {NoFile, SymLink}]
      /\ dir'[job[j].temp] = i /\ \A n \in Names : n # job[j].temp => dir'[n] = dir[n]
  BY <1>1, <1>2, NameFacts DEF TypeOK
<1>6. /\ i \notin {dir[Src], journal}
      /\ \A n \in Names : dir[n] = i => n = job[j].temp
      /\ \A k \in Jobs \ {j} : job[k].inode # i
  <2>1. CASE dir[job[j].temp] \in Inodes
    <3>1. i = dir[job[j].temp]
      BY <1>2, <2>1
    <3>2. \A k \in Jobs \ {j} : job[k].inode \in Inodes =>
             job[k].temp \in Temps /\ dir[job[k].temp] = job[k].inode /\ job[k].temp # job[j].temp
      BY NameFacts DEF WorkersHold, Holds, TempsDiffer
    <3>3. QED
      BY <1>1, <3>1, <3>2, NameFacts DEF NamesDiffer
  <2>2. CASE dir[job[j].temp] \notin Inodes
    BY <1>2, <2>2, NameFacts DEF Unused, InUse
  <2>3. QED
    BY <2>1, <2>2
<1>7. /\ file' \in [Inodes -> Records] /\ \A x \in Inodes : x # i => file'[x] = file[x]
  BY <1>1, <1>2, TextFacts DEF TypeOK, Records, Modes
<1>8. TypeOK'
  BY <1>1, <1>2, <1>3, <1>4, <1>5, <1>7 DEF TypeOK, JobRecords, Records
<1>9. RunsDiffer'
  BY <1>1, <1>2, <1>3, <1>4 DEF RunsDiffer
<1>10. WorkersHold'
  <2>1. ASSUME NEW k \in Jobs
        PROVE  Holds(k)'
    <3>1. CASE k = j
      BY <1>1, <1>2, <1>3, <1>4, <1>5, <1>6, <1>7, NameFacts DEF WorkersHold, Holds, StagingPcs
    <3>2. CASE k # j
      BY <1>1, <1>2, <1>3, <1>4, <1>5, <1>6, <1>7, NameFacts, WriteAssumption, Private, <3>2 DEF WorkersHold, Holds
    <3>3. QED
      BY <3>1, <3>2
  <2>2. QED
    BY <2>1 DEF WorkersHold
<1>11. TempsDiffer'
  BY <1>1, <1>2, <1>3, <1>4 DEF TempsDiffer, StagingPcs
<1>12. NamesDiffer'
  <2>1. dir'[Link] = SymLink /\ \A n \in Names \ {Link} : dir'[n] \in Inodes \cup {NoFile}
    BY <1>1, <1>2, <1>3, <1>4, NameFacts DEF NamesDiffer
  <2>2. \A m, n \in Names : m # n /\ dir'[m] \in Inodes => dir'[m] # dir'[n]
    BY <1>1, <1>2, <1>3, <1>4, <1>6 DEF NamesDiffer
  <2>3. \A t \in Temps : dir'[t] \in Inodes => dir'[t] # journal'
    BY <1>1, <1>2, <1>3, <1>4, <1>6 DEF NamesDiffer
  <2>4. QED
    BY <2>1, <2>2, <2>3 DEF NamesDiffer
<1>13. Contents'
  <2>1. \A f \in {dir'[Src], journal'} : TextAt(f)' \in held'
    BY <1>1, <1>2, <1>3, <1>4, <1>5, <1>6, <1>7, NameFacts DEF Contents, TextAt
  <2>2. \A f \in {dir'[Src], journal'} \cap Inodes :
          file'[f].synced /\ file'[f].text.form # "torn" /\ file'[f].mode = "users"
    BY <1>1, <1>2, <1>3, <1>4, <1>5, <1>6, <1>7, Private, NameFacts DEF Contents
  <2>3. ASSUME NEW k \in Jobs
        PROVE  Becoming(k)'
    <3>1. CASE k = j
      BY <1>1, <1>2, <1>3, <1>4, <1>5, <1>6, <1>7, Private DEF Contents, Becoming, StagingPcs
    <3>2. CASE k # j
      BY <1>1, <1>2, <1>3, <1>4, <1>5, <1>6, <1>7, Private, NameFacts, WriteAssumption, TextFacts, <3>2 DEF Contents, Becoming
    <3>3. QED
      BY <3>1, <3>2
  <2>4. QED
    BY <1>1, <1>2, <1>3, <1>4, <2>1, <2>2, <2>3 DEF Contents
<1>14. NoUnexplainedTemporary'
  BY <1>1, <1>2, <1>3, <1>4, <1>5, <1>6 DEF NoUnexplainedTemporary
<1>15. RegisterStep
  BY <1>1, <1>2, <1>3, <1>4, <1>5, <1>6, NameFacts DEF RegisterStep, Source, TextAt
<1>16. QED
  BY <1>8, <1>9, <1>10, <1>11, <1>12, <1>13, <1>14, <1>15

\* The invariant survives the choice of a temporary's name.
LEMMA NameKeeps ==
    ASSUME IInv, NEW j \in Jobs, Name(j)
    PROVE  IInv' /\ RegisterStep
<1> USE DEF IInv
<1>1. /\ job[j].pc = "name" /\ job[j].temp = NoFile /\ run[RunOf[j]].alive /\ RunOf[j] \in Runs
      /\ job[j].inode \notin Inodes /\ run[RunOf[j]].pid \in Pids /\ run[RunOf[j]].seq \in 0..MaxSeq
  BY WriteAssumption DEF Name, At, WorkersHold, Holds, StagingPcs, RunsDiffer, TypeOK
<1>2. /\ dir' = dir /\ journal' = journal /\ file' = file /\ litter' = litter
      /\ moves' = moves /\ losses' = losses /\ held' = held
  BY DEF Name, fs, user
<1>3. \/ Goes(j, "failed") /\ run' = run
      \/ /\ job' = [job EXCEPT ![j] = [job[j] EXCEPT !.pc = "create", !.temp = <<run[RunOf[j]].pid, run[RunOf[j]].seq>>]]
         /\ run[RunOf[j]].seq < MaxSeq
         /\ run' = [run EXCEPT ![RunOf[j]].seq = run[RunOf[j]].seq + 1]
  BY DEF Name
<1>4. /\ job' \in [Jobs -> JobRecords] /\ \A k \in Jobs : k # j => job'[k] = job[k]
      /\ run' \in [Runs -> [alive : BOOLEAN, pid : Pids \cup {NoFile}, seq : 0..MaxSeq]]
      /\ \A r \in Runs : run'[r].alive = run[r].alive /\ run'[r].pid = run[r].pid /\ run'[r].seq \in Nat /\ run'[r].seq >= run[r].seq
      /\ job'[j].inode = job[j].inode /\ job'[j].text = job[j].text
      /\ \/ job'[j].pc = "failed" /\ job'[j].temp = NoFile
         \/ /\ job'[j].pc = "create" /\ job'[j].temp \in Temps /\ job'[j].temp = <<run[RunOf[j]].pid, run[RunOf[j]].seq>>
            /\ run'[RunOf[j]].seq = run[RunOf[j]].seq + 1
  <2>1. CASE Goes(j, "failed") /\ run' = run
    BY <1>1, <2>1, Going DEF TypeOK, Pcs
  <2>2. CASE /\ job' = [job EXCEPT ![j] = [job[j] EXCEPT !.pc = "create", !.temp = <<run[RunOf[j]].pid, run[RunOf[j]].seq>>]]
             /\ run[RunOf[j]].seq < MaxSeq
             /\ run' = [run EXCEPT ![RunOf[j]].seq = run[RunOf[j]].seq + 1]
    <3> DEFINE q == [job[j] EXCEPT !.pc = "create", !.temp = <<run[RunOf[j]].pid, run[RunOf[j]].seq>>]
    <3>1. job[j] \in JobRecords
      BY DEF TypeOK, JobRecords
    <3>2. <<run[RunOf[j]].pid, run[RunOf[j]].seq>> \in Temps
      BY <1>1 DEF Temps
    <3>3. q \in JobRecords
      BY <3>1, <3>2 DEF JobRecords, Pcs
    <3>4. /\ q.pc = "create" /\ q.text = job[j].text /\ q.inode = job[j].inode
          /\ q.temp = <<run[RunOf[j]].pid, run[RunOf[j]].seq>>
      BY <3>1 DEF JobRecords
    <3> HIDE DEF q
    <3>5. job' \in [Jobs -> JobRecords] /\ job'[j] = q /\ \A k \in Jobs : k # j => job'[k] = job[k]
      BY <2>2, <3>3, JobMoves DEF q
    <3>6. /\ run' \in [Runs -> [alive : BOOLEAN, pid : Pids \cup {NoFile}, seq : 0..MaxSeq]]
          /\ \A r \in Runs : run'[r].alive = run[r].alive /\ run'[r].pid = run[r].pid
          /\ \A r \in Runs : run'[r].seq = IF r = RunOf[j] THEN run[r].seq + 1 ELSE run[r].seq
      BY <1>1, <2>2, WriteAssumption DEF TypeOK
    <3>7. \A r \in Runs : run[r].seq \in Nat
      BY DEF TypeOK
    <3>8. QED
      BY <1>1, <3>2, <3>4, <3>5, <3>6
  <2>3. QED
    BY <1>3, <2>1, <2>2
<1>5. TypeOK'
  BY <1>1, <1>2, <1>4 DEF TypeOK, JobRecords
<1>6. RunsDiffer'
  BY <1>4 DEF RunsDiffer
<1>7. WorkersHold'
  <2>1. Holds(j)'
    BY <1>1, <1>4 DEF Holds, StagingPcs, StagedPcs
  <2>2. ASSUME NEW k \in Jobs, k # j
        PROVE  Holds(k)'
    <3>1. Holds(k) /\ RunOf[k] \in Runs
      BY WriteAssumption DEF WorkersHold
    <3>2. job'[k] = job[k] /\ dir' = dir /\ run'[RunOf[k]].alive = run[RunOf[k]].alive
          /\ run'[RunOf[k]].pid = run[RunOf[k]].pid
      BY <1>2, <1>4, <2>2, <3>1
    <3>3. job[k].temp \in Temps /\ job[k].temp[2] < run[RunOf[k]].seq => job[k].temp[2] < run'[RunOf[k]].seq
      BY <1>4, <3>1 DEF Temps, TypeOK
    <3>4. QED
      BY <3>1, <3>2, <3>3 DEF Holds
  <2>3. QED
    BY <2>1, <2>2 DEF WorkersHold
<1>8. TempsDiffer'
  <2>1. ASSUME NEW k \in Jobs, k # j, job[k].pc \in StagingPcs, job'[j].pc = "create"
        PROVE  job'[j].temp # job[k].temp
    <3>1. RunOf[k] \in Runs /\ run[RunOf[k]].alive /\ job[k].temp[1] = run[RunOf[k]].pid /\ job[k].temp[2] < run[RunOf[k]].seq
      BY <2>1, WriteAssumption DEF WorkersHold, Holds, StagingPcs
    <3>2. job'[j].temp[1] = run[RunOf[j]].pid /\ job'[j].temp[2] = run[RunOf[j]].seq
      BY <1>4, <2>1
    <3>3. CASE RunOf[k] = RunOf[j]
      BY <1>1, <3>1, <3>2, <3>3
    <3>4. CASE RunOf[k] # RunOf[j]
      BY <1>1, <3>1, <3>2 DEF RunsDiffer
    <3>5. QED
      BY <3>3, <3>4
  <2>2. QED
    BY <1>4, <2>1 DEF TempsDiffer, StagingPcs
<1>9. NamesDiffer'
  <2>1. dir'[Link] = SymLink /\ \A n \in Names \ {Link} : dir'[n] \in Inodes \cup {NoFile}
    BY <1>1, <1>2 DEF NamesDiffer
  <2>2. \A m, n \in Names : m # n /\ dir'[m] \in Inodes => dir'[m] # dir'[n]
    BY <1>1, <1>2 DEF NamesDiffer
  <2>3. \A t \in Temps : dir'[t] \in Inodes => dir'[t] # journal'
    BY <1>1, <1>2 DEF NamesDiffer
  <2>4. QED
    BY <2>1, <2>2, <2>3 DEF NamesDiffer
<1>10. Contents'
  <2>1. \A i \in {dir'[Src], journal'} : TextAt(i)' \in held'
    BY <1>1, <1>2, <1>3, <1>4 DEF Contents, TextAt
  <2>2. \A i \in {dir'[Src], journal'} \cap Inodes :
          file'[i].synced /\ file'[i].text.form # "torn" /\ file'[i].mode = "users"
    BY <1>1, <1>2, <1>3, <1>4, Private DEF Contents
  <2>3. ASSUME NEW k \in Jobs
        PROVE  Becoming(k)'
    <3>1. CASE k = j
      BY <1>1, <1>2, <1>3, <1>4, Private DEF Contents, Becoming
    <3>2. CASE k # j
      BY <1>1, <1>2, <1>3, <1>4, Private, NameFacts, WriteAssumption, TextFacts, <3>2 DEF Contents, Becoming, Holds, StagingIsPrivate
    <3>3. QED
      BY <3>1, <3>2
  <2>4. QED
    BY <1>1, <1>2, <2>1, <2>3 DEF Contents
<1>11. NoUnexplainedTemporary'
  BY <1>1, <1>2, <1>3, <1>4, NameFacts DEF NoUnexplainedTemporary
<1>12. RegisterStep
  BY <1>1, <1>2, <1>3 DEF RegisterStep, Source, TextAt
<1>13. QED
  BY <1>5, <1>6, <1>7, <1>8, <1>9, <1>10, <1>11, <1>12

\* The invariant survives the reading of the source.
LEMMA ReadKeeps ==
    ASSUME IInv, NEW j \in Jobs, Read(j)
    PROVE  IInv' /\ RegisterStep
<1> USE DEF IInv
<1>1. job[j].pc = "read" /\ job[j].temp = NoFile /\ job[j].inode \notin Inodes
  BY DEF Read, At, WorkersHold, Holds, StagingPcs
<1>2. /\ dir' = dir /\ journal' = journal /\ file' = file /\ litter' = litter
      /\ moves' = moves /\ losses' = losses /\ held' = held /\ run' = run
  BY DEF Read, fs, user
<1>3. dir[Resolved(PathOf[j])] = dir[Src]
  BY WriteAssumption DEF Resolved, NamesDiffer
<1>4. /\ job' \in [Jobs -> JobRecords] /\ \A k \in Jobs : k # j => job'[k] = job[k]
      /\ job'[j].temp = job[j].temp /\ job'[j].inode = job[j].inode
      /\ \/ job'[j].pc \in {"failed", "done"}
         \/ job'[j].pc = "name" /\ job'[j].text \in held \cap Raw
  <2>1. CASE Goes(j, "failed") \/ Goes(j, "done")
    BY <2>1, Going DEF Pcs
  <2>2. CASE /\ dir[Src] \in Inodes /\ file[dir[Src]].text.form = "raw"
             /\ job' = [job EXCEPT ![j] = [job[j] EXCEPT !.pc = "name", !.text = file[dir[Src]].text]]
    <3> DEFINE q == [job[j] EXCEPT !.pc = "name", !.text = file[dir[Src]].text]
    <3>1. job[j] \in JobRecords
      BY DEF TypeOK, JobRecords
    <3>2. file[dir[Src]].text \in Texts /\ file[dir[Src]].text \in held \cap Raw
      BY <2>2 DEF TypeOK, Texts, Raw, Contents, TextAt
    <3>3. q \in JobRecords
      BY <3>1, <3>2 DEF JobRecords, Pcs
    <3>4. q.pc = "name" /\ q.text = file[dir[Src]].text /\ q.temp = job[j].temp /\ q.inode = job[j].inode
      BY <3>1 DEF JobRecords
    <3> HIDE DEF q
    <3>5. job' \in [Jobs -> JobRecords] /\ job'[j] = q /\ \A k \in Jobs : k # j => job'[k] = job[k]
      BY <2>2, <3>3, JobMoves DEF q
    <3>6. QED
      BY <3>2, <3>4, <3>5
  <2>3. QED
    BY <1>3, <2>1, <2>2 DEF Read
<1>5. TypeOK'
  BY <1>1, <1>2, <1>4 DEF TypeOK, JobRecords
<1>6. RunsDiffer'
  BY <1>2 DEF RunsDiffer
<1>7. WorkersHold'
  <2>1. ASSUME NEW k \in Jobs
        PROVE  Holds(k)'
    <3>1. CASE k = j
      BY <1>1, <1>2, <1>3, <1>4, NameFacts DEF WorkersHold, Holds, StagingPcs, StagedPcs
    <3>2. CASE k # j
      BY <1>1, <1>2, <1>3, <1>4, NameFacts, WriteAssumption, Private, <3>2 DEF WorkersHold, Holds
    <3>3. QED
      BY <3>1, <3>2
  <2>2. QED
    BY <2>1 DEF WorkersHold
<1>8. TempsDiffer'
  BY <1>1, <1>4 DEF TempsDiffer, StagingPcs
<1>9. NamesDiffer'
  <2>1. dir'[Link] = SymLink /\ \A n \in Names \ {Link} : dir'[n] \in Inodes \cup {NoFile}
    BY <1>1, <1>2 DEF NamesDiffer
  <2>2. \A m, n \in Names : m # n /\ dir'[m] \in Inodes => dir'[m] # dir'[n]
    BY <1>1, <1>2 DEF NamesDiffer
  <2>3. \A t \in Temps : dir'[t] \in Inodes => dir'[t] # journal'
    BY <1>1, <1>2 DEF NamesDiffer
  <2>4. QED
    BY <2>1, <2>2, <2>3 DEF NamesDiffer
<1>10. Contents'
  <2>1. \A i \in {dir'[Src], journal'} : TextAt(i)' \in held'
    BY <1>1, <1>2, <1>3, <1>4 DEF Contents, TextAt
  <2>2. \A i \in {dir'[Src], journal'} \cap Inodes :
          file'[i].synced /\ file'[i].text.form # "torn" /\ file'[i].mode = "users"
    BY <1>1, <1>2, <1>3, <1>4, Private DEF Contents
  <2>3. ASSUME NEW k \in Jobs
        PROVE  Becoming(k)'
    <3>1. CASE k = j
      BY <1>1, <1>2, <1>3, <1>4, Private, <3>1 DEF Becoming, StagingPcs
    <3>2. CASE k # j
      BY <1>1, <1>2, <1>3, <1>4, Private, NameFacts, WriteAssumption, TextFacts, <3>2 DEF Contents, Becoming
    <3>3. QED
      BY <3>1, <3>2
  <2>4. QED
    BY <1>1, <1>2, <2>1, <2>3 DEF Contents
<1>11. NoUnexplainedTemporary'
  BY <1>1, <1>2, <1>3, <1>4 DEF NoUnexplainedTemporary
<1>12. RegisterStep
  BY <1>1, <1>2, <1>3 DEF RegisterStep, Source, TextAt
<1>13. QED
  BY <1>5, <1>6, <1>7, <1>8, <1>9, <1>10, <1>11, <1>12

\* The invariant survives the start of a run.
LEMMA StartKeeps ==
    ASSUME IInv, NEW r \in Runs, Start(r)
    PROVE  IInv' /\ RegisterStep
<1> USE DEF IInv
<1>1. /\ dir' = dir /\ journal' = journal /\ file' = file /\ litter' = litter
      /\ moves' = moves /\ losses' = losses /\ held' = held
  BY DEF Start, fs, user
<1>2. PICK p \in Pids :
        /\ \A q \in Runs : run[q].alive => run[q].pid # p
        /\ run' = [run EXCEPT ![r] = [alive |-> TRUE, pid |-> p, seq |-> 0]]
  BY DEF Start
<1>3. /\ run' \in [Runs -> [alive : BOOLEAN, pid : Pids \cup {NoFile}, seq : 0..MaxSeq]]
      /\ run'[r].alive /\ run'[r].pid = p /\ \A q \in Runs : q # r => run'[q] = run[q]
  BY <1>2, WriteAssumption DEF TypeOK
<1>4. /\ job' \in [Jobs -> JobRecords]
      /\ \A k \in Jobs : RunOf[k] = r =>
            job'[k].pc = "read" /\ job'[k].temp = NoFile /\ job'[k].inode = NoFile
      /\ \A k \in Jobs : RunOf[k] # r => job'[k] = job[k]
  <2> DEFINE q == [Idle EXCEPT !.pc = "read"]
  <2>1. q \in JobRecords /\ q.pc = "read" /\ q.temp = NoFile /\ q.inode = NoFile
    BY DEF Idle, JobRecords, Pcs
  <2>2. job' = [k \in Jobs |-> IF RunOf[k] = r THEN q ELSE job[k]]
    BY DEF Start
  <2> HIDE DEF q
  <2>3. QED
    BY <2>1, <2>2 DEF TypeOK, JobRecords
<1>5. \A k \in Jobs : RunOf[k] = r => job[k].pc = "idle" /\ job[k].temp = NoFile
  BY DEF Start, WorkersHold, Holds, StagingPcs
<1>6. TypeOK'
  BY <1>1, <1>2, <1>3, <1>4 DEF TypeOK, JobRecords
<1>7. RunsDiffer'
  BY <1>1, <1>2 DEF RunsDiffer
<1>8. WorkersHold'
  <2>1. ASSUME NEW k \in Jobs
        PROVE  Holds(k)'
    <3>1. CASE RunOf[k] = r
      BY <1>1, <1>2, <1>3, <1>4, <1>5, NameFacts, WriteAssumption, <3>1 DEF Holds, StagingPcs, StagedPcs
    <3>2. CASE RunOf[k] # r
      BY <1>1, <1>2, <1>3, <1>4, <1>5, NameFacts, WriteAssumption, Private, <3>2 DEF WorkersHold, Holds
    <3>3. QED
      BY <3>1, <3>2
  <2>2. QED
    BY <2>1 DEF WorkersHold
<1>9. TempsDiffer'
  BY <1>1, <1>2, <1>4 DEF TempsDiffer, StagingPcs
<1>10. NamesDiffer'
  <2>1. dir'[Link] = SymLink /\ \A n \in Names \ {Link} : dir'[n] \in Inodes \cup {NoFile}
    BY <1>1, <1>2 DEF NamesDiffer
  <2>2. \A m, n \in Names : m # n /\ dir'[m] \in Inodes => dir'[m] # dir'[n]
    BY <1>1, <1>2 DEF NamesDiffer
  <2>3. \A t \in Temps : dir'[t] \in Inodes => dir'[t] # journal'
    BY <1>1, <1>2 DEF NamesDiffer
  <2>4. QED
    BY <2>1, <2>2, <2>3 DEF NamesDiffer
<1>11. Contents'
  <2>1. \A i \in {dir'[Src], journal'} : TextAt(i)' \in held'
    BY <1>1, <1>2, <1>3, <1>4, <1>5 DEF Contents, TextAt
  <2>2. \A i \in {dir'[Src], journal'} \cap Inodes :
          file'[i].synced /\ file'[i].text.form # "torn" /\ file'[i].mode = "users"
    BY <1>1, <1>2, <1>3, <1>4, <1>5, Private DEF Contents
  <2>3. ASSUME NEW k \in Jobs
        PROVE  Becoming(k)'
    <3>1. CASE RunOf[k] = r
      BY <1>1, <1>2, <1>3, <1>4, <1>5, Private, <3>1 DEF Becoming, StagingPcs
    <3>2. CASE RunOf[k] # r
      BY <1>1, <1>2, <1>3, <1>4, <1>5, Private, NameFacts, WriteAssumption, TextFacts, <3>2 DEF Contents, Becoming
    <3>3. QED
      BY <3>1, <3>2
  <2>4. QED
    BY <1>1, <1>2, <2>1, <2>3 DEF Contents
<1>12. NoUnexplainedTemporary'
  BY <1>1, <1>2, <1>3, <1>4, <1>5 DEF NoUnexplainedTemporary
<1>13. RegisterStep
  BY <1>1, <1>2, <1>3, <1>4 DEF RegisterStep, Source, TextAt
<1>14. QED
  BY <1>6, <1>7, <1>8, <1>9, <1>10, <1>11, <1>12, <1>13

\* The invariant survives the end of a run.
LEMMA FinishKeeps ==
    ASSUME IInv, NEW r \in Runs, Finish(r)
    PROVE  IInv' /\ RegisterStep
<1> USE DEF IInv
<1>1. /\ dir' = dir /\ journal' = journal /\ file' = file /\ litter' = litter
      /\ moves' = moves /\ losses' = losses /\ held' = held
  BY DEF Finish, fs, user
<1>2. /\ run' \in [Runs -> [alive : BOOLEAN, pid : Pids \cup {NoFile}, seq : 0..MaxSeq]]
      /\ ~run'[r].alive /\ \A q \in Runs : q # r => run'[q] = run[q]
  BY DEF Finish, TypeOK
<1>3. Idle \in JobRecords /\ Idle.pc = "idle" /\ Idle.temp = NoFile /\ Idle.inode = NoFile
  BY DEF Idle, JobRecords, Pcs
<1>4. /\ job' \in [Jobs -> JobRecords]
      /\ \A k \in Jobs : RunOf[k] = r => job'[k] = Idle
      /\ \A k \in Jobs : RunOf[k] # r => job'[k] = job[k]
  BY <1>3 DEF Finish, TypeOK, JobRecords
<1>5. \A t \in Temps, k \in Jobs : RunOf[k] = r /\ job[k].temp = t /\ dir[t] \in Inodes => t \in litter'
  BY NameFacts DEF Finish, WorkersHold, Holds, StagingPcs
<1>6. litter' \subseteq Temps /\ litter \subseteq litter'
  BY <1>1 DEF TypeOK
<1>7. TypeOK'
  BY <1>1, <1>2, <1>3, <1>4 DEF TypeOK, JobRecords
<1>8. RunsDiffer'
  BY <1>2 DEF RunsDiffer
<1>9. WorkersHold'
  <2>1. ASSUME NEW k \in Jobs
        PROVE  Holds(k)'
    <3>1. CASE RunOf[k] = r
      BY <1>1, <1>2, <1>3, <1>4, <1>5, <1>6, NameFacts, WriteAssumption, <3>1 DEF Holds, StagingPcs, StagedPcs
    <3>2. CASE RunOf[k] # r
      BY <1>1, <1>2, <1>3, <1>4, <1>5, <1>6, NameFacts, WriteAssumption, Private, <3>2 DEF WorkersHold, Holds
    <3>3. QED
      BY <3>1, <3>2
  <2>2. QED
    BY <2>1 DEF WorkersHold
<1>10. TempsDiffer'
  BY <1>1, <1>2, <1>3, <1>4 DEF TempsDiffer, StagingPcs
<1>11. NamesDiffer'
  <2>1. dir'[Link] = SymLink /\ \A n \in Names \ {Link} : dir'[n] \in Inodes \cup {NoFile}
    BY <1>1, <1>2, <1>3 DEF NamesDiffer
  <2>2. \A m, n \in Names : m # n /\ dir'[m] \in Inodes => dir'[m] # dir'[n]
    BY <1>1, <1>2, <1>3 DEF NamesDiffer
  <2>3. \A t \in Temps : dir'[t] \in Inodes => dir'[t] # journal'
    BY <1>1, <1>2, <1>3 DEF NamesDiffer
  <2>4. QED
    BY <2>1, <2>2, <2>3 DEF NamesDiffer
<1>12. Contents'
  <2>1. \A i \in {dir'[Src], journal'} : TextAt(i)' \in held'
    BY <1>1, <1>2, <1>3, <1>4, <1>5, <1>6 DEF Contents, TextAt
  <2>2. \A i \in {dir'[Src], journal'} \cap Inodes :
          file'[i].synced /\ file'[i].text.form # "torn" /\ file'[i].mode = "users"
    BY <1>1, <1>2, <1>3, <1>4, <1>5, <1>6, Private DEF Contents
  <2>3. ASSUME NEW k \in Jobs
        PROVE  Becoming(k)'
    <3>1. CASE RunOf[k] = r
      BY <1>1, <1>2, <1>3, <1>4, <1>5, <1>6, Private, <3>1 DEF Becoming, StagingPcs
    <3>2. CASE RunOf[k] # r
      BY <1>1, <1>2, <1>3, <1>4, <1>5, <1>6, Private, NameFacts, WriteAssumption, TextFacts, <3>2 DEF Contents, Becoming
    <3>3. QED
      BY <3>1, <3>2
  <2>4. QED
    BY <1>1, <1>2, <1>3, <2>1, <2>3 DEF Contents
<1>13. NoUnexplainedTemporary'
  BY <1>1, <1>2, <1>3, <1>4, <1>5 DEF NoUnexplainedTemporary
<1>14. RegisterStep
  BY <1>1, <1>2, <1>3, <1>4, <1>5 DEF RegisterStep, Source, TextAt
<1>15. QED
  BY <1>7, <1>8, <1>9, <1>10, <1>11, <1>12, <1>13, <1>14

\* The invariant survives a kill.
LEMMA KillKeeps ==
    ASSUME IInv, NEW r \in Runs, Kill(r)
    PROVE  IInv' /\ RegisterStep
<1> USE DEF IInv
<1>1. /\ dir' = dir /\ journal' = journal /\ file' = file /\ litter' = litter \cup Left(r)
      /\ moves' = moves /\ losses' = losses /\ held' = held
  BY DEF Kill, fs, user
<1>2. /\ run' \in [Runs -> [alive : BOOLEAN, pid : Pids \cup {NoFile}, seq : 0..MaxSeq]]
      /\ ~run'[r].alive /\ \A q \in Runs : q # r => run'[q] = run[q]
  BY DEF Kill, TypeOK
<1>3. Idle \in JobRecords /\ Idle.pc = "idle" /\ Idle.temp = NoFile /\ Idle.inode = NoFile
  BY DEF Idle, JobRecords, Pcs
<1>4. /\ job' \in [Jobs -> JobRecords]
      /\ \A k \in Jobs : RunOf[k] = r => job'[k] = Idle
      /\ \A k \in Jobs : RunOf[k] # r => job'[k] = job[k]
  BY <1>3 DEF Kill, TypeOK, JobRecords
<1>5. \A t \in Temps, k \in Jobs : RunOf[k] = r /\ job[k].temp = t /\ dir[t] \in Inodes => t \in litter'
  BY <1>1 DEF Left
<1>6. litter' \subseteq Temps /\ litter \subseteq litter'
  BY <1>1 DEF TypeOK, Left
<1>7. TypeOK'
  BY <1>1, <1>2, <1>3, <1>4, <1>6 DEF TypeOK, JobRecords
<1>8. RunsDiffer'
  BY <1>2 DEF RunsDiffer
<1>9. WorkersHold'
  <2>1. ASSUME NEW k \in Jobs
        PROVE  Holds(k)'
    <3>1. CASE RunOf[k] = r
      BY <1>1, <1>2, <1>3, <1>4, <1>5, <1>6, NameFacts, WriteAssumption, <3>1 DEF Holds, StagingPcs, StagedPcs
    <3>2. CASE RunOf[k] # r
      BY <1>1, <1>2, <1>3, <1>4, <1>5, <1>6, NameFacts, WriteAssumption, Private, <3>2 DEF WorkersHold, Holds
    <3>3. QED
      BY <3>1, <3>2
  <2>2. QED
    BY <2>1 DEF WorkersHold
<1>10. TempsDiffer'
  BY <1>1, <1>2, <1>3, <1>4 DEF TempsDiffer, StagingPcs
<1>11. NamesDiffer'
  <2>1. dir'[Link] = SymLink /\ \A n \in Names \ {Link} : dir'[n] \in Inodes \cup {NoFile}
    BY <1>1, <1>2, <1>3 DEF NamesDiffer
  <2>2. \A m, n \in Names : m # n /\ dir'[m] \in Inodes => dir'[m] # dir'[n]
    BY <1>1, <1>2, <1>3 DEF NamesDiffer
  <2>3. \A t \in Temps : dir'[t] \in Inodes => dir'[t] # journal'
    BY <1>1, <1>2, <1>3 DEF NamesDiffer
  <2>4. QED
    BY <2>1, <2>2, <2>3 DEF NamesDiffer
<1>12. Contents'
  <2>1. \A i \in {dir'[Src], journal'} : TextAt(i)' \in held'
    BY <1>1, <1>2, <1>3, <1>4, <1>5, <1>6 DEF Contents, TextAt
  <2>2. \A i \in {dir'[Src], journal'} \cap Inodes :
          file'[i].synced /\ file'[i].text.form # "torn" /\ file'[i].mode = "users"
    BY <1>1, <1>2, <1>3, <1>4, <1>5, <1>6, Private DEF Contents
  <2>3. ASSUME NEW k \in Jobs
        PROVE  Becoming(k)'
    <3>1. CASE RunOf[k] = r
      BY <1>1, <1>2, <1>3, <1>4, <1>5, <1>6, Private, <3>1 DEF Becoming, StagingPcs
    <3>2. CASE RunOf[k] # r
      BY <1>1, <1>2, <1>3, <1>4, <1>5, <1>6, Private, NameFacts, WriteAssumption, TextFacts, <3>2 DEF Contents, Becoming
    <3>3. QED
      BY <3>1, <3>2
  <2>4. QED
    BY <1>1, <1>2, <1>3, <2>1, <2>3 DEF Contents
<1>13. NoUnexplainedTemporary'
  BY <1>1, <1>2, <1>3, <1>4, <1>5 DEF NoUnexplainedTemporary
<1>14. RegisterStep
  BY <1>1, <1>2, <1>3, <1>4, <1>5 DEF RegisterStep, Source, TextAt
<1>15. QED
  BY <1>7, <1>8, <1>9, <1>10, <1>11, <1>12, <1>13, <1>14

\* The invariant survives the user's save.
LEMMA SaveKeeps ==
    ASSUME IInv, Save
    PROVE  IInv' /\ RegisterStep
<1> USE DEF IInv
<1>1. /\ dir' = dir /\ journal' = journal /\ run' = run /\ job' = job /\ litter' = litter /\ losses' = losses
      /\ moves' \in 0..MaxSaves /\ dir[Src] \in Inodes
  BY WriteAssumption DEF Save, TypeOK
<1>2. /\ file' \in [Inodes -> Records]
      /\ file'[dir[Src]].text \in Raw /\ file'[dir[Src]].text \in Texts /\ file'[dir[Src]].text.form = "raw"
      /\ file'[dir[Src]].synced /\ file'[dir[Src]].mode = file[dir[Src]].mode
      /\ \A i \in Inodes : i # dir[Src] => file'[i] = file[i]
  <2> DEFINE t == [save |-> moves + 1, form |-> "raw"]
              q == [file[dir[Src]] EXCEPT !.text = t, !.synced = TRUE]
  <2>1. t \in Raw /\ t \in Texts /\ t.form = "raw"
    BY <1>1 DEF Save, Raw, Texts
  <2>2. file[dir[Src]] \in Records
    BY <1>1 DEF TypeOK, Records
  <2> HIDE DEF t
  <2>3. q \in Records /\ q.text = t /\ q.synced = TRUE /\ q.mode = file[dir[Src]].mode
    BY <2>1, <2>2 DEF Records
  <2>4. file' = [file EXCEPT ![dir[Src]] = q]
    BY DEF Save, t
  <2> HIDE DEF q
  <2>5. QED
    BY <1>1, <2>1, <2>3, <2>4 DEF TypeOK, Records
<1>3. \A k \in Jobs : job[k].inode \in Inodes => job[k].inode # dir[Src]
  BY Private DEF StagingIsPrivate
<1>4. held' = held \cup {file'[dir[Src]].text}
  BY DEF Save, Notes
<1>5. TypeOK'
  BY <1>1, <1>2, <1>4 DEF TypeOK, Records
<1>6. RunsDiffer'
  BY <1>1 DEF RunsDiffer
<1>7. WorkersHold'
  <2>1. ASSUME NEW k \in Jobs
        PROVE  Holds(k)'
    BY <1>1, <1>2, <1>3, <1>4, NameFacts DEF WorkersHold, Holds
  <2>2. QED
    BY <2>1 DEF WorkersHold
<1>8. TempsDiffer'
  BY <1>1 DEF TempsDiffer
<1>9. NamesDiffer'
  <2>1. dir'[Link] = SymLink /\ \A n \in Names \ {Link} : dir'[n] \in Inodes \cup {NoFile}
    BY <1>1 DEF NamesDiffer
  <2>2. \A m, n \in Names : m # n /\ dir'[m] \in Inodes => dir'[m] # dir'[n]
    BY <1>1 DEF NamesDiffer
  <2>3. \A t \in Temps : dir'[t] \in Inodes => dir'[t] # journal'
    BY <1>1 DEF NamesDiffer
  <2>4. QED
    BY <2>1, <2>2, <2>3 DEF NamesDiffer
<1>10. Contents'
  <2>1. \A i \in {dir'[Src], journal'} : TextAt(i)' \in held'
    BY <1>1, <1>2, <1>4 DEF Contents, TextAt
  <2>2. \A i \in {dir'[Src], journal'} \cap Inodes :
          file'[i].synced /\ file'[i].text.form # "torn" /\ file'[i].mode = "users"
    BY <1>1, <1>2 DEF Contents
  <2>3. ASSUME NEW k \in Jobs
        PROVE  Becoming(k)'
    <3>1. Becoming(k)
      BY DEF Contents
    <3>2. job[k].pc \in StagedPcs => file'[job[k].inode] = file[job[k].inode]
      BY <1>2, <1>3 DEF WorkersHold, Holds
    <3>3. QED
      BY <1>1, <1>4, <3>1, <3>2 DEF Becoming, StagedPcs
  <2>4. QED
    BY <2>1, <2>2, <2>3 DEF Contents
<1>11. NoUnexplainedTemporary'
  BY <1>1, <1>2, <1>3 DEF NoUnexplainedTemporary
<1>12. RegisterStep
  <2> DEFINE t == file'[dir[Src]].text
  <2>1. Source' = t /\ held' = held \cup {t} /\ t \in Raw
    BY <1>1, <1>2, <1>4 DEF Source, TextAt
  <2> HIDE DEF t
  <2>2. QED
    BY <2>1 DEF RegisterStep, Register!Next, Register!Save, Register!Becomes, Source, Raw
<1>13. QED
  BY <1>5, <1>6, <1>7, <1>8, <1>9, <1>10, <1>11, <1>12

\* The invariant survives the user's removal of the file.
LEMMA DeleteKeeps ==
    ASSUME IInv, Delete
    PROVE  IInv' /\ RegisterStep
<1> USE DEF IInv
<1>1. /\ journal' = journal /\ file' = file /\ run' = run /\ job' = job /\ litter' = litter /\ losses' = losses
      /\ moves' \in 0..MaxSaves
  BY WriteAssumption DEF Delete, TypeOK
<1>2. /\ dir' \in [Names -> Inodes \cup {NoFile, SymLink}] /\ dir'[Src] = NoFile
      /\ \A n \in Names : n # Src => dir'[n] = dir[n]
  BY NameFacts DEF Delete, TypeOK
<1>3. held' = held \cup {Absent}
  BY <1>2, WriteAssumption DEF Delete, Notes
<1>4. TypeOK'
  BY <1>1, <1>2, <1>3 DEF TypeOK
<1>5. RunsDiffer'
  BY <1>1 DEF RunsDiffer
<1>6. WorkersHold'
  <2>1. ASSUME NEW k \in Jobs
        PROVE  Holds(k)'
    BY <1>1, <1>2, <1>3, NameFacts DEF WorkersHold, Holds
  <2>2. QED
    BY <2>1 DEF WorkersHold
<1>7. TempsDiffer'
  BY <1>1 DEF TempsDiffer
<1>8. NamesDiffer'
  <2>1. dir'[Link] = SymLink /\ \A n \in Names \ {Link} : dir'[n] \in Inodes \cup {NoFile}
    BY <1>2, NameFacts DEF NamesDiffer
  <2>2. \A m, n \in Names : m # n /\ dir'[m] \in Inodes => dir'[m] # dir'[n]
    BY <1>2, WriteAssumption DEF NamesDiffer
  <2>3. \A t \in Temps : dir'[t] \in Inodes => dir'[t] # journal'
    BY <1>1, <1>2, NameFacts DEF NamesDiffer
  <2>4. QED
    BY <2>1, <2>2, <2>3 DEF NamesDiffer
<1>9. Contents'
  <2>1. \A i \in {dir'[Src], journal'} : TextAt(i)' \in held'
    BY <1>1, <1>2, <1>3, WriteAssumption DEF Contents, TextAt
  <2>2. \A i \in {dir'[Src], journal'} \cap Inodes :
          file'[i].synced /\ file'[i].text.form # "torn" /\ file'[i].mode = "users"
    BY <1>1, <1>2, <1>3, Private, WriteAssumption DEF Contents
  <2>3. ASSUME NEW k \in Jobs
        PROVE  Becoming(k)'
    BY <1>1, <1>2, <1>3, Private DEF Contents, Becoming
  <2>4. QED
    BY <2>1, <2>2, <2>3 DEF Contents
<1>10. NoUnexplainedTemporary'
  BY <1>1, <1>2, NameFacts DEF NoUnexplainedTemporary
<1>11. RegisterStep
  <2>1. Source' = Absent /\ held' = held \cup {Absent}
    BY <1>2, <1>3, WriteAssumption DEF Source, TextAt
  <2>2. QED
    BY <2>1 DEF RegisterStep, Register!Next, Register!Save, Register!Becomes, Source
<1>12. QED
  BY <1>4, <1>5, <1>6, <1>7, <1>8, <1>9, <1>10, <1>11

\* The invariant survives the journal's reaching the disk.
LEMMA CommitKeeps ==
    ASSUME IInv, Commit
    PROVE  IInv' /\ RegisterStep
<1> USE DEF IInv
<1>1. /\ dir' = dir /\ journal' = dir[Src] /\ file' = file /\ run' = run /\ job' = job /\ litter' = litter
      /\ moves' = moves /\ losses' = losses /\ held' = held
  BY DEF Commit, user
<1>2. dir[Src] \in Inodes \cup {NoFile}
  BY NameFacts DEF NamesDiffer
<1>3. TypeOK'
  BY <1>1, <1>2 DEF TypeOK
<1>4. RunsDiffer'
  BY <1>1 DEF RunsDiffer
<1>5. WorkersHold'
  <2>1. ASSUME NEW k \in Jobs
        PROVE  Holds(k)'
    BY <1>1, <1>2, NameFacts DEF WorkersHold, Holds
  <2>2. QED
    BY <2>1 DEF WorkersHold
<1>6. TempsDiffer'
  BY <1>1 DEF TempsDiffer
<1>7. NamesDiffer'
  <2>1. dir'[Link] = SymLink /\ \A n \in Names \ {Link} : dir'[n] \in Inodes \cup {NoFile}
    BY <1>1 DEF NamesDiffer
  <2>2. \A m, n \in Names : m # n /\ dir'[m] \in Inodes => dir'[m] # dir'[n]
    BY <1>1 DEF NamesDiffer
  <2>3. \A t \in Temps : dir'[t] \in Inodes => dir'[t] # journal'
    BY <1>1, NameFacts DEF NamesDiffer
  <2>4. QED
    BY <2>1, <2>2, <2>3 DEF NamesDiffer
<1>8. Contents'
  <2>1. \A i \in {dir'[Src], journal'} : TextAt(i)' \in held'
    BY <1>1, <1>2 DEF Contents, TextAt
  <2>2. \A i \in {dir'[Src], journal'} \cap Inodes :
          file'[i].synced /\ file'[i].text.form # "torn" /\ file'[i].mode = "users"
    BY <1>1, <1>2, Private DEF Contents
  <2>3. ASSUME NEW k \in Jobs
        PROVE  Becoming(k)'
    BY <1>1, <1>2, Private DEF Contents, Becoming
  <2>4. QED
    BY <1>1, <2>1, <2>3 DEF Contents
<1>9. NoUnexplainedTemporary'
  BY <1>1 DEF NoUnexplainedTemporary
<1>10. RegisterStep
  BY <1>1 DEF RegisterStep, Source, TextAt
<1>11. QED
  BY <1>3, <1>4, <1>5, <1>6, <1>7, <1>8, <1>9, <1>10

\* The invariant survives a loss of power.
LEMMA PowerLossKeeps ==
    ASSUME IInv, PowerLoss
    PROVE  IInv' /\ RegisterStep
<1> USE DEF IInv
<1>1. PICK source \in {journal, dir[Src]}, kept \in SUBSET {t \in Temps : dir[t] \in Inodes} :
        /\ dir' = [n \in Names |-> IF n = Src THEN source
                                   ELSE IF n = Link \/ n \in kept THEN dir[n] ELSE NoFile]
        /\ journal' = source
        /\ litter' = kept
  BY DEF PowerLoss
<1>2. PICK torn \in SUBSET {i \in Inodes : ~file[i].synced} :
        file' = [i \in Inodes |-> [file[i] EXCEPT
                   !.text = IF i \in torn THEN Torn(@) ELSE @, !.synced = TRUE]]
  BY DEF PowerLoss
<1>3. source \in Inodes \cup {NoFile} /\ TextAt(source) \in held /\ \A t \in Temps : dir[t] \in Inodes => dir[t] # source
  BY NameFacts DEF TypeOK, NamesDiffer, Contents
<1>4. /\ dir' \in [Names -> Inodes \cup {NoFile, SymLink}] /\ dir'[Src] = source /\ dir'[Link] = dir[Link]
      /\ \A t \in Temps : dir'[t] = IF t \in kept THEN dir[t] ELSE NoFile
  BY <1>1, NameFacts DEF TypeOK
<1>5. /\ file' \in [Inodes -> Records]
      /\ \A i \in Inodes : file'[i].synced /\ file'[i].mode = file[i].mode /\ (file[i].synced => file'[i].text = file[i].text)
  <2> DEFINE q(i) == [file[i] EXCEPT !.text = IF i \in torn THEN Torn(file[i].text) ELSE file[i].text, !.synced = TRUE]
  <2>1. ASSUME NEW i \in Inodes
        PROVE  /\ q(i) \in Records /\ q(i).synced = TRUE /\ q(i).mode = file[i].mode
               /\ file[i].synced => q(i).text = file[i].text
    <3>1. file[i] \in Records
      BY DEF TypeOK, Records
    <3>2. (IF i \in torn THEN Torn(file[i].text) ELSE file[i].text) \in Texts
      BY <3>1, TextFacts DEF Records
    <3>3. QED
      BY <3>1, <3>2 DEF Records
  <2>2. file' = [i \in Inodes |-> q(i)]
    BY <1>2
  <2> HIDE DEF q
  <2>3. QED
    BY <2>1, <2>2
<1>6. /\ run' \in [Runs -> [alive : BOOLEAN, pid : Pids \cup {NoFile}, seq : 0..MaxSeq]]
      /\ \A r \in Runs : ~run'[r].alive
  BY DEF PowerLoss, TypeOK
<1>7. Idle \in JobRecords /\ Idle.pc = "idle" /\ Idle.temp = NoFile /\ Idle.inode = NoFile
  BY DEF Idle, JobRecords, Pcs
<1>8. job' \in [Jobs -> JobRecords] /\ \A j \in Jobs : job'[j] = Idle
  BY <1>7 DEF PowerLoss
<1>9. litter' = kept /\ kept \subseteq Temps /\ losses' \in 0..MaxLosses /\ moves' = moves
  <2>1. losses' = losses + 1 /\ losses < MaxLosses /\ moves' = moves
    BY DEF PowerLoss
  <2>2. QED
    BY <1>1, <2>1, WriteAssumption DEF TypeOK
<1>10. (file'[source].synced /\ file'[source].text = file[source].text /\ file[source].synced) \/ source \notin Inodes
  BY <1>5 DEF Contents
<1>11. TextAt(source)' = TextAt(source) /\ held' = held \cup {TextAt(source)}
  BY <1>4, <1>10 DEF PowerLoss, Notes, TextAt
<1>12. TypeOK'
  <2>1. journal' \in Inodes \cup {NoFile}
    BY <1>1, <1>3
  <2>2. held' \subseteq Texts \cup {Absent}
    BY <1>3, <1>11 DEF TypeOK
  <2>3. litter' \subseteq Temps /\ moves' \in 0..MaxSaves /\ losses' \in 0..MaxLosses
    BY <1>9 DEF TypeOK
  <2>4. QED
    BY <1>4, <1>5, <1>6, <1>8, <2>1, <2>2, <2>3 DEF TypeOK, JobRecords, Records
<1>13. RunsDiffer'
  BY <1>6 DEF RunsDiffer
<1>14. WorkersHold'
  BY <1>7, <1>8, WriteAssumption DEF WorkersHold, Holds, StagingPcs, StagedPcs
<1>15. TempsDiffer'
  BY <1>7, <1>8 DEF TempsDiffer, StagingPcs
<1>16. NamesDiffer'
  <2>1. dir'[Link] = SymLink /\ \A n \in Names \ {Link} : dir'[n] \in Inodes \cup {NoFile}
    BY <1>3, <1>4, NameFacts DEF NamesDiffer
  <2>2. \A t \in Temps : dir'[t] \in Inodes => dir'[t] = dir[t] /\ dir[t] # source
    BY <1>3, <1>4, WriteAssumption
  <2>3. ASSUME NEW m \in Names, NEW n \in Names, m # n, dir'[m] \in Inodes
        PROVE  dir'[m] # dir'[n]
    <3>1. m # Link
      BY <1>4, <2>3, WriteAssumption DEF NamesDiffer
    <3>2. CASE n = Link
      BY <1>4, <2>3, <3>2, WriteAssumption DEF NamesDiffer
    <3>3. CASE m = Src /\ n \in Temps
      BY <1>4, <2>2, <2>3, <3>3
    <3>4. CASE m \in Temps /\ n = Src
      BY <1>4, <2>2, <2>3, <3>4
    <3>5. CASE m \in Temps /\ n \in Temps
      BY <2>2, <2>3, <3>5 DEF NamesDiffer
    <3>6. QED
      BY <2>3, <3>1, <3>2, <3>3, <3>4, <3>5, NameFacts
  <2>4. \A t \in Temps : dir'[t] \in Inodes => dir'[t] # journal'
    BY <1>1, <2>2
  <2>5. QED
    BY <2>1, <2>3, <2>4 DEF NamesDiffer
<1>17. Contents'
  <2>1. dir'[Src] = source /\ journal' = source
    BY <1>1, <1>4
  <2>2. \A i \in {dir'[Src], journal'} : TextAt(i)' \in held'
    BY <1>11, <2>1
  <2>3. source \in Inodes => file[source].text.form # "torn" /\ file[source].mode = "users" /\ file[source].synced
    BY DEF Contents
  <2>4. \A i \in {dir'[Src], journal'} \cap Inodes :
          file'[i].synced /\ file'[i].text.form # "torn" /\ file'[i].mode = "users"
    BY <1>5, <2>1, <2>3
  <2>5. \A j \in Jobs : Becoming(j)'
    BY <1>7, <1>8 DEF Becoming, StagingPcs
  <2>6. QED
    BY <2>2, <2>4, <2>5 DEF Contents
<1>18. NoUnexplainedTemporary'
  BY <1>4, <1>9, WriteAssumption DEF NoUnexplainedTemporary
<1>19. RegisterStep
  <2>1. source \in {journal, dir[Src]} /\ Source' = TextAt(source)
    BY <1>4, <1>11 DEF Source
  <2>2. QED
    BY <1>3, <1>11, <2>1, <1>4 DEF RegisterStep, Register!Next, Register!Crash, Register!Becomes
<1>20. QED
  BY <1>12, <1>13, <1>14, <1>15, <1>16, <1>17, <1>18, <1>19


------------------------------------------------------------------------------
\* Every step keeps the invariant, and is a step of the register or none.
LEMMA StepKeeps == IInv /\ [Next]_vars => IInv' /\ RegisterStep
<1> SUFFICES ASSUME IInv, [Next]_vars
             PROVE  IInv' /\ RegisterStep
  OBVIOUS
<1>1. CASE Save \/ Delete \/ Commit \/ PowerLoss
  BY <1>1, SaveKeeps, DeleteKeeps, CommitKeeps, PowerLossKeeps
<1>2. ASSUME NEW r \in Runs, Start(r) \/ Finish(r) \/ Kill(r)
      PROVE  IInv' /\ RegisterStep
  BY <1>2, StartKeeps, FinishKeeps, KillKeeps
<1>3. ASSUME NEW j \in Jobs, Worker(j)
      PROVE  IInv' /\ RegisterStep
  BY <1>3, ReadKeeps, NameKeeps, CreateKeeps, WriteKeeps, SyncKeeps, CopyModeKeeps, RenameKeeps,
     FailsKeeps, CleanKeeps DEF Worker
<1>4. CASE UNCHANGED vars
  <2>1. UNCHANGED <<dir, journal, file, run, job, litter, moves, losses, held>>
    BY <1>4 DEF vars, fs, user
  <2>2. TypeOK' /\ RunsDiffer' /\ TempsDiffer' /\ NamesDiffer' /\ NoUnexplainedTemporary'
    BY <2>1 DEF IInv, TypeOK, RunsDiffer, TempsDiffer, NamesDiffer, NoUnexplainedTemporary
  <2>3. WorkersHold' /\ Contents'
    BY <2>1 DEF IInv, WorkersHold, Holds, Contents, Becoming, TextAt
  <2>4. RegisterStep
    BY <2>1 DEF RegisterStep, Source, TextAt
  <2>5. QED
    BY <2>2, <2>3, <2>4 DEF IInv
<1>5. QED
  BY <1>1, <1>2, <1>3, <1>4 DEF Next

\* The invariant holds at every moment of every behaviour.
LEMMA Invariance == Spec => []IInv
BY InitEstablishes, StepKeeps, PTL DEF Spec

\* Every variable keeps its type.
THEOREM TypeCorrect == Spec => []TypeOK
BY Invariance, PTL DEF IInv

\* Two rewrites under way never stage into one file, whatever processes start,
\* die and inherit ids (atomic_write.rs temp_file_name).
THEOREM StagesAlone == Spec => []StagingIsPrivate
BY Invariance, Private, PTL

\* Whoever opens the source finds a whole, synced text, before and after a
\* loss of power (atomic_write.rs write_atomic).
THEOREM NeverAPrefix == Spec => []SourceIsWhole
<1>1. IInv => SourceIsWhole
  BY DEF IInv, Contents, SourceIsWhole
<1>2. QED
  BY <1>1, Invariance, PTL

\* The source keeps the user's mode, and the link stays a link
\* (copy_permissions, canonicalize).
THEOREM KeepsModeAndLink == Spec => []ModeAndLinkKept
<1>1. IInv => ModeAndLinkKept
  BY DEF IInv, Contents, NamesDiffer, ModeAndLinkKept
<1>2. QED
  BY <1>1, Invariance, PTL

\* A temporary is being staged, or was left by a process that died or could
\* not remove it (atomic_write.rs stage_and_rename).
THEOREM LeavesNoTemporary == Spec => []NoUnexplainedTemporary
BY Invariance, PTL DEF IInv

\* Rewriting a file implements replacing its text atomically: initial states
\* map to initial states, each step to a save, a replacement, a crash or none.
THEOREM WriteImplementsAtomicText == Spec => ImplementsAtomicText
<1>1. Init => Register!Init
  <2> SUFFICES ASSUME Init
               PROVE  Register!Init
    OBVIOUS
  <2>1. PICK i \in Inodes :
          dir = [n \in Names |-> IF n = Src THEN i ELSE IF n = Link THEN SymLink ELSE NoFile]
    BY DEF Init
  <2>2. TextAt(dir[Src]) = [save |-> 0, form |-> "raw"]
    BY NameFacts DEF Init, TextAt
  <2>3. held = {[save |-> 0, form |-> "raw"]} /\ [save |-> 0, form |-> "raw"] \in Raw
    BY WriteAssumption DEF Init, Raw
  <2>4. QED
    BY <2>2, <2>3 DEF Register!Init, Raw
<1>2. IInv /\ [Next]_vars => [Register!Next]_<<TextAt(dir[Src]), held>>
  BY StepKeeps DEF RegisterStep, Source
<1>3. QED
  BY <1>1, <1>2, Invariance, PTL DEF Spec, ImplementsAtomicText, Register!Spec
=============================================================================
