----------------------------- MODULE BackupsProofs -----------------------------
(***************************************************************************)
(* What holds of the database, the snapshots and their copies for any      *)
(* retention, any builds and any number of commands, kills and faults.     *)
(***************************************************************************)
EXTENDS Backups, TLAPS, FiniteSetTheorems, WellFoundedInduction

(***************************************************************************)
(* How a step moves its process.                                           *)
(***************************************************************************)
Slots == [op : Ops, step : Steps, file : Files, source : Files]
Alone(p) == \A q \in Procs \ {p} : proc'[q] = proc[q]

LEMMA NoFileIsAFile == NoFile \in Files /\ NoFile.of.inst = NoOne /\ Idle \in Slots
<1>1. Nothing \in Contents /\ Nothing.inst = NoOne
  BY DEF Nothing, Contents, NoOne
<1>2. NoFile \in Files /\ NoFile.of = Nothing
  BY <1>1 DEF NoFile, Files, Kinds, FileStates
<1> QED BY <1>1, <1>2 DEF Idle, Slots, Ops, Steps

LEMMA GoMoves ==
  ASSUME proc \in [Procs -> Slots], NEW p \in Procs, NEW s \in Steps, Go(p, s)
  PROVE  /\ proc' \in [Procs -> Slots] /\ Alone(p)
         /\ proc'[p].op = proc[p].op /\ proc'[p].step = s
         /\ proc'[p].file = proc[p].file /\ proc'[p].source = proc[p].source
BY DEF Go, Alone, Slots

LEMMA GoWithMoves ==
  ASSUME proc \in [Procs -> Slots], NEW p \in Procs, NEW s \in Steps, NEW f \in Files,
         GoWith(p, s, f)
  PROVE  /\ proc' \in [Procs -> Slots] /\ Alone(p)
         /\ proc'[p].op = proc[p].op /\ proc'[p].step = s
         /\ proc'[p].file = f /\ proc'[p].source = proc[p].source
BY DEF GoWith, Alone, Slots

LEMMA EndsMoves ==
  ASSUME proc \in [Procs -> Slots], NEW p \in Procs, Ends(p)
  PROVE  /\ proc' \in [Procs -> Slots] /\ Alone(p) /\ proc'[p] = Idle
         /\ proc'[p].op = "none" /\ proc'[p].step = "rest"
         /\ lock' = IF lock = p THEN NoProc ELSE lock
<1>1. Idle.op = "none" /\ Idle.step = "rest"
  BY DEF Idle
<1> QED BY <1>1, NoFileIsAFile DEF Ends, Alone

\* A failed snapshot sends the scheduler to its copy, a restore to the raw
\* bytes, and ends whatever else asked for it.
LEMMA GivenUpMoves ==
  ASSUME proc \in [Procs -> Slots], NEW p \in Procs, SnapshotGivenUp(p)
  PROVE  /\ proc' \in [Procs -> Slots] /\ Alone(p)
         /\ \/ /\ proc'[p] = Idle /\ proc'[p].op = "none" /\ proc'[p].step = "rest"
               /\ proc[p].op \notin {"serve", "restore"}
               /\ lock' = IF lock = p THEN NoProc ELSE lock
            \/ /\ proc[p].op = "serve" /\ proc'[p].op = "serve" /\ proc'[p].step = "copy"
               /\ proc'[p].file = NoFile /\ proc'[p].source = proc[p].source /\ lock' = lock
            \/ /\ proc[p].op = "restore" /\ proc'[p].op = "restore" /\ proc'[p].step = "aside"
               /\ proc'[p].file = NoFile /\ proc'[p].source = proc[p].source /\ lock' = lock
<1>1. CASE proc[p].op = "serve"
  BY <1>1, NoFileIsAFile, GoWithMoves DEF SnapshotGivenUp, Steps
<1>2. CASE proc[p].op = "restore"
  BY <1>2, NoFileIsAFile, GoWithMoves DEF SnapshotGivenUp, Steps
<1>3. CASE proc[p].op \notin {"serve", "restore"}
  BY <1>3, EndsMoves DEF SnapshotGivenUp
<1> QED BY <1>1, <1>2, <1>3

LEMMA CopyDoneMoves ==
  ASSUME proc \in [Procs -> Slots], NEW p \in Procs, CopyDone(p)
  PROVE  /\ proc' \in [Procs -> Slots] /\ Alone(p)
         /\ \/ /\ proc'[p] = Idle /\ proc'[p].op = "none" /\ proc'[p].step = "rest"
               /\ proc[p].op \notin {"serve", "open"}
               /\ lock' = IF lock = p THEN NoProc ELSE lock
            \/ /\ proc[p].op = "serve" /\ proc'[p].op = "serve" /\ proc'[p].step = "tick"
               /\ proc'[p].file = NoFile /\ proc'[p].source = proc[p].source /\ lock' = lock
            \/ /\ proc[p].op = "open" /\ proc'[p].op = "open" /\ proc'[p].step = "migrate"
               /\ proc'[p].file = proc[p].file /\ proc'[p].source = proc[p].source
               /\ lock' = lock
<1>1. CASE proc[p].op = "serve"
  BY <1>1, NoFileIsAFile, GoWithMoves DEF CopyDone, Steps
<1>2. CASE proc[p].op = "open"
  BY <1>2, GoMoves DEF CopyDone, Continues, Steps
<1>3. CASE proc[p].op \notin {"serve", "open"}
  BY <1>3, EndsMoves DEF CopyDone
<1> QED BY <1>1, <1>2, <1>3

\* What a command starts as.
LEMMA IdleFields ==
  ASSUME NEW op \in Ops, NEW s \in Steps
  PROVE  LET r == [Idle EXCEPT !.op = op, !.step = s]
         IN  r \in Slots /\ r.op = op /\ r.step = s /\ r.file = NoFile /\ r.source = NoFile
BY NoFileIsAFile DEF Idle, Slots

LEMMA OpeningMoves ==
  ASSUME proc \in [Procs -> Slots], NEW p \in Procs, Opening(p)
  PROVE  /\ proc' \in [Procs -> Slots] /\ Alone(p)
         /\ proc'[p].op = "open" /\ proc'[p].file = NoFile
         /\ proc'[p].step = IF MigrationPending THEN "take" ELSE "migrate"
<1> DEFINE s == IF MigrationPending THEN "take" ELSE "migrate"
           r == [Idle EXCEPT !.op = "open", !.step = s]
<1>1. proc' = [proc EXCEPT ![p] = r]
  BY DEF Opening
<1>2. s \in Steps /\ "open" \in Ops
  BY DEF Steps, Ops
<1> HIDE DEF s
<1>3. r \in Slots /\ r.op = "open" /\ r.step = s /\ r.file = NoFile
  BY <1>2, IdleFields
<1> HIDE DEF r
<1>4. proc' \in [Procs -> Slots] /\ Alone(p) /\ proc'[p] = r
  BY <1>1, <1>3 DEF Alone
<1> QED BY <1>3, <1>4 DEF s

LEMMA OpenedMoves ==
  ASSUME proc \in [Procs -> Slots], NEW p \in Procs, Opened(p)
  PROVE  /\ proc' \in [Procs -> Slots] /\ Alone(p)
         /\ \/ /\ p = "server" /\ proc'[p].op = "serve" /\ proc'[p].step = "tick"
               /\ proc'[p].file = NoFile /\ proc'[p].source = proc[p].source /\ lock' = lock
            \/ /\ p # "server" /\ proc'[p] = Idle
               /\ proc'[p].op = "none" /\ proc'[p].step = "rest"
               /\ lock' = IF lock = p THEN NoProc ELSE lock
<1>1. CASE p = "server"
  <2>1. proc' = [proc EXCEPT ![p].op = "serve", ![p].step = "tick", ![p].file = NoFile]
        /\ lock' = lock
    BY <1>1 DEF Opened
  <2> QED BY <1>1, <2>1, NoFileIsAFile DEF Alone, Slots, Ops, Steps
<1>2. CASE p # "server"
  BY <1>2, EndsMoves DEF Opened
<1> QED BY <1>1, <1>2

LEMMA ReopenMoves ==
  ASSUME proc \in [Procs -> Slots], NEW p \in Procs, Reopen(p)
  PROVE  /\ proc' \in [Procs -> Slots] /\ Alone(p)
         /\ proc'[p].op = "rebackup" /\ proc'[p].step = "take"
         /\ proc'[p].file = proc[p].file /\ proc'[p].source = proc[p].source
BY DEF Reopen, Alone, Slots, Ops, Steps

LEMMA StartBackupMoves ==
  ASSUME proc \in [Procs -> Slots], StartBackup
  PROVE  /\ proc' \in [Procs -> Slots] /\ Alone("command")
         /\ proc'["command"].op = "backup" /\ proc'["command"].step = "take"
         /\ proc'["command"].file = NoFile /\ proc'["command"].source = NoFile
<1> DEFINE r == [Idle EXCEPT !.op = "backup", !.step = "take"]
<1>1. proc' = [proc EXCEPT !["command"] = r]
  BY DEF StartBackup
<1>2. r \in Slots /\ r.op = "backup" /\ r.step = "take" /\ r.file = NoFile /\ r.source = NoFile
  BY IdleFields DEF Ops, Steps
<1> HIDE DEF r
<1> QED BY <1>1, <1>2 DEF Alone, Procs

\* A restore starts with the snapshot its operator named and checked.
LEMMA StartRestoreMoves ==
  ASSUME proc \in [Procs -> Slots], local \subseteq Files, copies \subseteq Files, StartRestore
  PROVE  /\ proc' \in [Procs -> Slots] /\ Alone("command")
         /\ proc'["command"].op = "restore" /\ proc'["command"].file = NoFile
         /\ proc'["command"].step = IF db.state = "absent" THEN "replace" ELSE "take"
         /\ proc'["command"].source \in Reachable /\ proc'["command"].source.state = "whole"
<1> DEFINE s == IF db.state = "absent" THEN "replace" ELSE "take"
<1>1. PICK f \in Reachable :
        /\ f.state = "whole"
        /\ proc' = [proc EXCEPT !["command"] = [Idle EXCEPT !.op = "restore", !.step = s, !.source = f]]
  BY DEF StartRestore
<1>2. s \in Steps /\ "restore" \in Ops
  BY DEF Steps, Ops
<1>3. f \in Files
  BY DEF Reachable, Snapshots
<1> DEFINE r == [Idle EXCEPT !.op = "restore", !.step = s, !.source = f]
<1> HIDE DEF s
<1>4. r \in Slots /\ r.op = "restore" /\ r.step = s /\ r.file = NoFile /\ r.source = f
  BY <1>2, <1>3, NoFileIsAFile DEF Idle, Slots
<1>5. proc' = [proc EXCEPT !["command"] = r]
  BY <1>1 DEF s
<1> HIDE DEF r
<1>6. proc' \in [Procs -> Slots] /\ Alone("command") /\ proc'["command"] = r
  BY <1>4, <1>5 DEF Alone, Procs
<1> QED BY <1>1, <1>4, <1>6 DEF s

(***************************************************************************)
(* Which steps change what.                                                *)
(***************************************************************************)
DbStep ==
  \/ Commit
  \/ \E p \in Procs : \/ Migrate(p) \/ CreateDatabase(p) \/ SetAsideRaw(p)
                      \/ Replace(p) \/ ReplaceDone(p) \/ Reopen(p)
LEMMA OnlyDbSteps == [Next]_vars => db' = db \/ DbStep
<1> SUFFICES ASSUME [Next]_vars, ~DbStep PROVE db' = db
  OBVIOUS
<1>1. CASE UNCHANGED vars
  BY <1>1 DEF vars
<1>2. ASSUME NEW p \in Procs, SnapshotStep(p) PROVE db' = db
  BY <1>2 DEF SnapshotStep, TakeSnapshot, WaitForTheNextSecond, SnapshotRefused, VacuumFails,
              ValidationFails, SnapshotTaken, Prune, disk
<1>3. ASSUME NEW p \in Procs, CopyStep(p) PROVE db' = db
  BY <1>3 DEF CopyStep, CopyBegins, CopyRefused, FinishRetention, CopyVerified, CopyFails,
              PruneCopies, disk
<1>4. ASSUME NEW p \in Procs, OpenStep(p) \/ RestoreStep(p) \/ Crash(p) PROVE db' = db
  BY <1>4 DEF DbStep, OpenStep, RestoreStep, Crash, OpenRefused, ReplaceFails, ReopenRefused, disk
<1>5. CASE \/ StartServer \/ OpenByCommand \/ StartBackup \/ StartRestore \/ SchedulerTick
           \/ TimePasses \/ ClockSetBack \/ InstallBuild
  BY <1>5 DEF StartServer, OpenByCommand, StartBackup, StartRestore, SchedulerTick, TimePasses,
              ClockSetBack, InstallBuild, disk
<1> QED BY <1>1, <1>2, <1>3, <1>4, <1>5 DEF Next, DbStep

LocalStep ==
  \E p \in Procs : \/ TakeSnapshot(p) \/ VacuumFails(p) \/ ValidationFails(p) \/ SnapshotTaken(p)
                   \/ Prune(p) \/ SetAsideRaw(p) \/ Crash(p)
LEMMA OnlyLocalSteps == [Next]_vars => local' = local \/ LocalStep
<1> SUFFICES ASSUME [Next]_vars, ~LocalStep PROVE local' = local
  OBVIOUS
<1>1. CASE UNCHANGED vars
  BY <1>1 DEF vars
<1>2. ASSUME NEW p \in Procs, SnapshotStep(p) PROVE local' = local
  BY <1>2 DEF LocalStep, SnapshotStep, WaitForTheNextSecond, SnapshotRefused, disk
<1>3. ASSUME NEW p \in Procs, CopyStep(p) PROVE local' = local
  BY <1>3 DEF CopyStep, CopyBegins, CopyRefused, FinishRetention, CopyVerified, CopyFails,
              PruneCopies, disk, files
<1>4. ASSUME NEW p \in Procs, OpenStep(p) \/ RestoreStep(p) \/ Crash(p) PROVE local' = local
  BY <1>4 DEF LocalStep, OpenStep, RestoreStep, Migrate, OpenRefused, CreateDatabase, Replace,
              ReplaceFails, ReplaceDone, Reopen, ReopenRefused, disk, files
<1>5. CASE \/ StartServer \/ OpenByCommand \/ StartBackup \/ StartRestore \/ SchedulerTick
           \/ TimePasses \/ ClockSetBack \/ InstallBuild \/ Commit
  BY <1>5 DEF StartServer, OpenByCommand, StartBackup, StartRestore, SchedulerTick, TimePasses,
              ClockSetBack, InstallBuild, Commit, disk, files
<1> QED BY <1>1, <1>2, <1>3, <1>4, <1>5 DEF Next

CopiesStep ==
  \E p \in Procs : FinishRetention(p) \/ CopyVerified(p) \/ PruneCopies(p)
LEMMA OnlyCopiesSteps == [Next]_vars => copies' = copies \/ CopiesStep
<1> SUFFICES ASSUME [Next]_vars, ~CopiesStep PROVE copies' = copies
  OBVIOUS
<1>1. CASE UNCHANGED vars
  BY <1>1 DEF vars
<1>2. ASSUME NEW p \in Procs, SnapshotStep(p) PROVE copies' = copies
  BY <1>2 DEF SnapshotStep, TakeSnapshot, WaitForTheNextSecond, SnapshotRefused, VacuumFails,
              ValidationFails, SnapshotTaken, Prune, disk
<1>3. ASSUME NEW p \in Procs, CopyStep(p) PROVE copies' = copies
  BY <1>3 DEF CopiesStep, CopyStep, CopyBegins, CopyRefused, CopyFails, disk, files
<1>4. ASSUME NEW p \in Procs, OpenStep(p) \/ RestoreStep(p) \/ Crash(p) PROVE copies' = copies
  BY <1>4 DEF OpenStep, RestoreStep, Crash, Migrate, OpenRefused, CreateDatabase, SetAsideRaw,
              Replace, ReplaceFails, ReplaceDone, Reopen, ReopenRefused, disk, files
<1>5. CASE \/ StartServer \/ OpenByCommand \/ StartBackup \/ StartRestore \/ SchedulerTick
           \/ TimePasses \/ ClockSetBack \/ InstallBuild \/ Commit
  BY <1>5 DEF StartServer, OpenByCommand, StartBackup, StartRestore, SchedulerTick, TimePasses,
              ClockSetBack, InstallBuild, Commit, disk, files
<1> QED BY <1>1, <1>2, <1>3, <1>4, <1>5 DEF Next

\* Identities are only ever given out, what an observer has seen stays seen,
\* and only ClockSetBack moves the clock back.
World ==
  /\ {identities', clock', commands', troubles'} \subseteq Nat /\ build' \in Builds
  /\ {steady', overwrote', crossed'} \subseteq BOOLEAN
  /\ identities <= identities'
  /\ steady' => steady /\ clock <= clock'
  /\ overwrote => overwrote'
  /\ crossed => crossed'
LEMMA WorldSteps == BackupsTypeOK /\ [Next]_vars => World
<1> SUFFICES ASSUME BackupsTypeOK, [Next]_vars PROVE World
  OBVIOUS
<1> USE DEF World, BackupsTypeOK
<1>1. CASE UNCHANGED vars
  BY <1>1 DEF vars
<1>2. ASSUME NEW p \in Procs, SnapshotStep(p) PROVE World
  BY <1>2 DEF SnapshotStep, TakeSnapshot, WaitForTheNextSecond, SnapshotRefused, VacuumFails,
              ValidationFails, SnapshotTaken, Prune, disk, observers, world, bounds, Fault, Trouble
<1>3. ASSUME NEW p \in Procs, CopyBegins(p) PROVE World
  BY <1>3 DEF CopyBegins, Crosses, world, bounds
<1>4. ASSUME NEW p \in Procs, CopyStep(p), ~CopyBegins(p) PROVE World
  <2>1. CASE CopyRefused(p) \/ FinishRetention(p) \/ CopyVerified(p) \/ PruneCopies(p)
    BY <2>1 DEF CopyRefused, FinishRetention, CopyVerified, PruneCopies, disk, observers, world, bounds
  <2>2. CASE CopyFails(p)
    BY <2>2 DEF CopyFails, disk, observers, world, bounds, Fault, Trouble
  <2> QED BY <1>4, <2>1, <2>2 DEF CopyStep
<1>5. ASSUME NEW p \in Procs, OpenStep(p) \/ Crash(p) PROVE World
  <2>1. CASE Migrate(p) \/ OpenRefused(p)
    BY <2>1 DEF Migrate, OpenRefused, disk, observers, world, bounds
  <2>2. CASE CreateDatabase(p)
    BY <2>2 DEF CreateDatabase, observers, bounds
  <2>3. CASE Crash(p)
    BY <2>3 DEF Crash, observers, world, Fault, Trouble
  <2> QED BY <1>5, <2>1, <2>2, <2>3 DEF OpenStep
<1>6. ASSUME NEW p \in Procs, RestoreStep(p) PROVE World
  <2>1. CASE SetAsideRaw(p)
    BY <2>1 DEF SetAsideRaw, world, bounds
  <2>2. CASE Replace(p) \/ ReplaceDone(p) \/ Reopen(p) \/ ReopenRefused(p)
    BY <2>2 DEF Replace, ReplaceDone, Reopen, ReopenRefused, disk, observers, world, bounds
  <2>3. CASE ReplaceFails(p)
    BY <2>3 DEF ReplaceFails, disk, observers, world, Fault, Trouble
  <2> QED BY <1>6, <2>1, <2>2, <2>3 DEF RestoreStep
<1>7. CASE StartServer \/ Commit \/ SchedulerTick
  BY <1>7 DEF StartServer, Commit, SchedulerTick, disk, observers, world, bounds
<1>8. CASE OpenByCommand \/ StartBackup \/ StartRestore
  <2>1. CommandStarts /\ UNCHANGED <<disk, world>>
    BY <1>8 DEF OpenByCommand, StartBackup, StartRestore
  <2> QED BY <2>1 DEF CommandStarts, disk, observers, world
<1>9. CASE TimePasses
  BY <1>9 DEF TimePasses, disk, observers, bounds
<1>10. CASE ClockSetBack
  <2>1. clock' \in Nat /\ steady' = FALSE /\ troubles' = troubles + 1
        /\ UNCHANGED <<overwrote, crossed, build, identities, commands>>
    BY <1>10 DEF ClockSetBack, Trouble, disk, observers
  <2>2. {identities', clock', commands', troubles'} \subseteq Nat /\ identities <= identities'
    BY <2>1
  <2>3. build' \in Builds /\ {steady', overwrote', crossed'} \subseteq BOOLEAN /\ ~steady'
        /\ (overwrote => overwrote') /\ (crossed => crossed')
    BY <2>1, Zenon
  <2> QED BY <2>2, <2>3
<1>11. CASE InstallBuild
  BY <1>11 DEF InstallBuild, disk, observers, bounds
<1> QED BY <1>1, <1>2, <1>3, <1>4, <1>5, <1>6, <1>7, <1>8, <1>9, <1>10, <1>11 DEF Next

(***************************************************************************)
(* Directories.                                                            *)
(***************************************************************************)
Distinct(dir) == \A f, g \in dir : Name(f) = Name(g) => f = g

LEMMA PruningRemoves ==
  ASSUME NEW dir
  PROVE  PruneIn(dir) \subseteq dir /\ PrunePreMigration(dir) \subseteq dir
BY DEF PruneIn, PrunePreMigration, KeepNewest

LEMMA FewerAreDistinct ==
  ASSUME NEW dir, NEW D \in SUBSET dir, Distinct(dir), IsFiniteSet(dir)
  PROVE  Distinct(D) /\ IsFiniteSet(D)
BY FS_Subset DEF Distinct

LEMMA ReplacedIsDistinct ==
  ASSUME NEW dir, NEW f, Distinct(dir), IsFiniteSet(dir)
  PROVE  Distinct(Replaced(dir, f)) /\ IsFiniteSet(Replaced(dir, f)) /\ f \in Replaced(dir, f)
<1>1. IsFiniteSet({g \in dir : Name(g) # Name(f)})
  BY FS_Subset
<1>2. IsFiniteSet({g \in dir : Name(g) # Name(f)} \cup {f})
  BY <1>1, FS_AddElement
<1> QED BY <1>2 DEF Distinct, Replaced

LEMMA NewSnapshotFields ==
  ASSUME BackupsTypeOK, NEW p \in Procs
  PROVE  /\ NewSnapshot(p) \in Files /\ NewSnapshot(p).of = db.of /\ NewSnapshot(p).stamp = clock
         /\ NewSnapshot(p).kind = KindTaken(p) /\ NewSnapshot(p).state = "unreadable"
<1>1. KindTaken(p) \in Kinds
  BY DEF KindTaken, Kinds
<1> HIDE DEF KindTaken
<1> QED BY <1>1 DEF NewSnapshot, Files, FileStates, BackupsTypeOK

\* A file's state is all that its writer changes of it.
LEMMA WrittenFields ==
  ASSUME NEW f \in Files, NEW s \in FileStates
  PROVE  LET g == [f EXCEPT !.state = s]
         IN  /\ g \in Files /\ g.state = s /\ g.kind = f.kind /\ g.stamp = f.stamp /\ g.of = f.of
             /\ Name(g) = Name(f)
BY DEF Files, Name

Writes(p, g) ==
  /\ proc[p].step = "vacuum" /\ g \in Files
  /\ g.kind = proc[p].file.kind /\ g.stamp = proc[p].file.stamp /\ g.of = proc[p].file.of
  /\ Name(g) = Name(proc[p].file)
SetsAside(p, g) ==
  /\ At(p, "restore", "aside") /\ g \in Files
  /\ g.kind = "damaged" /\ g.stamp = clock /\ g.of = db.of

LEMMA HalfWritten ==
  ASSUME BackupsTypeOK, NEW p \in Procs, proc[p].step = "vacuum", LeftHalfWritten(p)
  PROVE  \/ local' = local
         \/ \E g : Writes(p, g) /\ g.state # "whole" /\ local' = Replaced(local, g)
<1>1. proc[p].file \in Files
  BY DEF BackupsTypeOK
<1>2. PICK s \in {"torn", "unreadable"} :
        local' = IF Named(local, Name(proc[p].file)) = {} THEN local
                 ELSE Replaced(local, [proc[p].file EXCEPT !.state = s])
  BY DEF LeftHalfWritten
<1> DEFINE g == [proc[p].file EXCEPT !.state = s]
<1>3. s \in FileStates /\ s # "whole"
  BY DEF FileStates
<1>4. Writes(p, g) /\ g.state # "whole"
  BY <1>1, <1>3, WrittenFields DEF Writes
<1> HIDE DEF g
<1> QED BY <1>2, <1>4 DEF g

LEMMA Finished ==
  ASSUME BackupsTypeOK, NEW p \in Procs, SnapshotTaken(p)
  PROVE  \E g : /\ Writes(p, g) /\ g.state = "whole" /\ local' = Replaced(local, g)
                /\ CASE proc[p].op = "rebackup" -> Ends(p)
                     [] proc[p].op = "restore" -> GoWith(p, "replace", NoFile) /\ UNCHANGED lock
                     [] OTHER -> GoWith(p, "prune", g) /\ UNCHANGED lock
<1>1. proc[p].file \in Files /\ "whole" \in FileStates /\ proc[p].step = "vacuum"
  BY DEF BackupsTypeOK, FileStates, SnapshotTaken
<1> DEFINE g == [proc[p].file EXCEPT !.state = "whole"]
<1>2. Writes(p, g) /\ g.state = "whole"
  BY <1>1, WrittenFields DEF Writes
<1>3. /\ local' = Replaced(local, g)
      /\ CASE proc[p].op = "rebackup" -> Ends(p)
           [] proc[p].op = "restore" -> GoWith(p, "replace", NoFile) /\ UNCHANGED lock
           [] OTHER -> GoWith(p, "prune", g) /\ UNCHANGED lock
  BY DEF SnapshotTaken
<1> HIDE DEF g
<1> QED BY <1>2, <1>3

LEMMA MovedAside ==
  ASSUME BackupsTypeOK, NEW p \in Procs, SetAsideRaw(p)
  PROVE  \E g : /\ SetsAside(p, g) /\ local' = Replaced(local, g)
                /\ g.state = (IF Whole THEN "whole" ELSE "torn")
                /\ overwrote' = (overwrote \/ Named(local, Name(g)) # {})
<1> DEFINE g == [kind |-> "damaged", stamp |-> clock,
                 state |-> IF Whole THEN "whole" ELSE "torn", of |-> db.of]
<1>1. g \in Files
  BY DEF Files, Kinds, FileStates, BackupsTypeOK
<1>2. local' = Replaced(local, g) /\ overwrote' = (overwrote \/ Named(local, Name(g)) # {})
  BY DEF SetAsideRaw
<1>3. g.kind = "damaged" /\ g.stamp = clock /\ g.of = db.of /\ g.state = (IF Whole THEN "whole" ELSE "torn")
  OBVIOUS
<1> HIDE DEF g
<1> QED BY <1>1, <1>2, <1>3 DEF SetsAside, SetAsideRaw

\* What a step may do to backups/: add the snapshot begun, leave or finish the
\* one being written under its name, set the raw bytes aside, or only remove.
LEMMA LocalShapes ==
  ASSUME BackupsTypeOK, LocalStep
  PROVE  \/ local' \subseteq local
         \/ \E p \in Procs : TakeSnapshot(p) /\ local' = local \cup {NewSnapshot(p)}
         \/ \E p \in Procs : \E g : (Writes(p, g) \/ SetsAside(p, g)) /\ local' = Replaced(local, g)
<1>1. PICK p \in Procs : \/ TakeSnapshot(p) \/ VacuumFails(p) \/ ValidationFails(p) \/ SnapshotTaken(p)
                         \/ Prune(p) \/ SetAsideRaw(p) \/ Crash(p)
  BY DEF LocalStep
<1>2. CASE TakeSnapshot(p)
  BY <1>2 DEF TakeSnapshot
<1>3. CASE VacuumFails(p)
  BY <1>3, HalfWritten DEF VacuumFails
<1>4. CASE ValidationFails(p)
  BY <1>4 DEF ValidationFails
<1>5. CASE SnapshotTaken(p)
  BY <1>5, Finished
<1>6. CASE Prune(p)
  BY <1>6, PruningRemoves DEF Prune
<1>7. CASE SetAsideRaw(p)
  BY <1>7, MovedAside
<1>8. CASE Crash(p)
  BY <1>8, HalfWritten DEF Crash
<1> QED BY <1>1, <1>2, <1>3, <1>4, <1>5, <1>6, <1>7, <1>8

LEMMA CopiesShapes ==
  ASSUME BackupsTypeOK, CopiesStep
  PROVE  \/ copies' \subseteq copies
         \/ \E p \in Procs : /\ CopyVerified(p) /\ copies' = Replaced(copies, proc[p].file)
                             /\ proc[p].file \in local
<1>1. PICK p \in Procs : FinishRetention(p) \/ CopyVerified(p) \/ PruneCopies(p)
  BY DEF CopiesStep
<1>2. CASE FinishRetention(p)
  BY <1>2, PruningRemoves DEF FinishRetention
<1>3. CASE CopyVerified(p)
  BY <1>3 DEF CopyVerified, SourceUnchanged, Named
<1>4. CASE PruneCopies(p)
  BY <1>4, PruningRemoves DEF PruneCopies
<1> QED BY <1>1, <1>2, <1>3, <1>4

\* Names order the backups of a directory, so one of them is the newest.
LEMMA BeforeOrders ==
  ASSUME NEW S \in SUBSET Files
  PROVE  /\ \A f \in S : ~Before(f, f)
         /\ \A f, g, h \in S : Before(f, g) /\ Before(g, h) => Before(f, h)
         /\ Distinct(S) /\ S = OwnBackups(S) =>
              \A f, g \in S : f # g => Before(f, g) \/ Before(g, f)
<1>1. \A f \in S : f.stamp \in Nat /\ Rank(f) \in Nat /\ f.kind \in Kinds
  BY DEF Files, Rank
<1>2. \A f \in S : ~Before(f, f)
  BY <1>1 DEF Before
<1>3. \A f, g, h \in S : Before(f, g) /\ Before(g, h) => Before(f, h)
  BY <1>1 DEF Before
<1>4. ASSUME Distinct(S), S = OwnBackups(S), NEW f \in S, NEW g \in S, f # g
      PROVE  Before(f, g) \/ Before(g, f)
  <2>1. f.kind \in {"scheduled", "premigration"} /\ g.kind \in {"scheduled", "premigration"}
    BY <1>1, <1>4 DEF OwnBackups, Snapshots, Kinds
  <2>2. f.kind # g.kind \/ f.stamp # g.stamp
    BY <1>4 DEF Distinct, Name
  <2>3. f.kind # g.kind => Rank(f) < Rank(g) \/ Rank(g) < Rank(f)
    BY <2>1 DEF Rank
  <2> HIDE DEF Rank
  <2> QED BY <1>1, <2>2, <2>3 DEF Before
<1> QED BY <1>2, <1>3, <1>4

LEMMA LeastOfNaturals ==
  ASSUME NEW T \in SUBSET Nat, T # {}
  PROVE  \E x \in T : \A y \in T : x <= y
<1> DEFINE R == {ss \in Nat \X Nat : ss[1] < ss[2]}
<1>1. IsWellFoundedOn(R, Nat)
  BY NatLessThanWellFounded DEF OpToRel
<1>2. PICK x \in T : \A y \in T : <<y, x>> \notin R
  <2> HIDE DEF R
  <2> QED BY <1>1, WFMin
<1>3. ASSUME NEW y \in T PROVE x <= y
  <2>1. x \in Nat /\ y \in Nat /\ <<y, x>> \in Nat \X Nat /\ <<y, x>>[1] = y /\ <<y, x>>[2] = x
    OBVIOUS
  <2>2. ~(y < x)
    BY <1>2, <2>1
  <2> QED BY <2>1, <2>2
<1> QED BY <1>3

LEMMA NewestIsOne ==
  ASSUME NEW S \in SUBSET Files, IsFiniteSet(S), Distinct(S), S = OwnBackups(S), S # {}
  PROVE  Newest(S) \in S /\ \A g \in S \ {Newest(S)} : Before(g, Newest(S))
<1> DEFINE Above(f) == {g \in S : Before(f, g)}
           Counts == {Cardinality(Above(f)) : f \in S}
<1>1. \A f \in S : IsFiniteSet(Above(f)) /\ Cardinality(Above(f)) \in Nat
  <2> TAKE f \in S
  <2>1. Above(f) \in SUBSET S
    OBVIOUS
  <2> HIDE DEF Above
  <2> QED BY <2>1, FS_Subset, FS_CardinalityType
<1>2. Counts \in SUBSET Nat /\ Counts # {}
  BY <1>1
<1>3. PICK f \in S : \A g \in S : Cardinality(Above(f)) <= Cardinality(Above(g))
  <2>1. PICK x \in Counts : \A y \in Counts : x <= y
    BY <1>2, LeastOfNaturals
  <2>2. PICK f \in S : x = Cardinality(Above(f))
    BY <2>1
  <2> QED BY <2>1, <2>2
<1>4. \A g \in S : ~Before(f, g)
  <2> SUFFICES ASSUME NEW g \in S, Before(f, g) PROVE FALSE
    OBVIOUS
  <2>1. Above(g) \in SUBSET Above(f) /\ g \in Above(f) /\ g \notin Above(g)
    BY BeforeOrders
  <2> HIDE DEF Above
  <2>2. Cardinality(Above(g)) <= Cardinality(Above(f)) /\ Cardinality(Above(g)) # Cardinality(Above(f))
    BY <1>1, <2>1, FS_Subset
  <2> QED BY <1>1, <1>3, <2>2
<1>5. \A g \in S \ {f} : Before(g, f)
  BY <1>4, BeforeOrders
<1> HIDE DEF Above, Counts
<1> QED BY <1>5 DEF Newest

(***************************************************************************)
(* What each step makes of the process that takes it.                      *)
(***************************************************************************)
Rests(p) ==
  /\ proc'[p] = Idle /\ proc'[p].op = "none" /\ proc'[p].step = "rest"
  /\ lock' = IF lock = p THEN NoProc ELSE lock
Holds(p, s, f) ==
  /\ proc'[p].op = proc[p].op /\ proc'[p].step = s
  /\ proc'[p].file = f /\ proc'[p].source = proc[p].source
  /\ lock' = lock
Stays(p, s) == Holds(p, s, proc[p].file)
Others(p) == proc' \in [Procs -> Slots] /\ Alone(p)

LEMMA SnapshotEffects ==
  ASSUME BackupsTypeOK, NEW p \in Procs, SnapshotStep(p)
  PROVE  /\ Others(p)
         /\ \/ TakeSnapshot(p) /\ Holds(p, "vacuum", NewSnapshot(p))
            \/ WaitForTheNextSecond(p) /\ Stays(p, "wait")
            \/ /\ SnapshotRefused(p) \/ VacuumFails(p) \/ ValidationFails(p)
               /\ \/ proc[p].op \notin {"serve", "restore"} /\ Rests(p)
                  \/ proc[p].op = "serve" /\ Holds(p, "copy", NoFile)
                  \/ proc[p].op = "restore" /\ Holds(p, "aside", NoFile)
            \/ /\ SnapshotTaken(p)
               /\ \E g : /\ Writes(p, g) /\ g.state = "whole" /\ local' = Replaced(local, g)
                         /\ \/ proc[p].op = "rebackup" /\ Rests(p)
                            \/ proc[p].op = "restore" /\ Holds(p, "replace", NoFile)
                            \/ proc[p].op \notin {"rebackup", "restore"} /\ Holds(p, "prune", g)
            \/ Prune(p) /\ proc[p].op = "open" /\ p = "command" /\ Stays(p, "migrate")
            \/ Prune(p) /\ ~(proc[p].op = "open" /\ p = "command") /\ Stays(p, "copy")
<1> USE DEF Others, Stays
<1>1. proc \in [Procs -> Slots]
  BY DEF BackupsTypeOK, Slots
<1>2. CASE TakeSnapshot(p)
  BY <1>1, <1>2, NewSnapshotFields, GoWithMoves DEF TakeSnapshot, Steps, Holds
<1>3. CASE WaitForTheNextSecond(p)
  BY <1>1, <1>3, GoMoves DEF WaitForTheNextSecond, Steps, Holds
<1>4. CASE SnapshotRefused(p) \/ VacuumFails(p) \/ ValidationFails(p)
  <2>1. SnapshotGivenUp(p)
    BY <1>4 DEF SnapshotRefused, VacuumFails, ValidationFails
  <2> QED BY <1>1, <1>4, <2>1, GivenUpMoves DEF Rests, Holds
<1>5. CASE SnapshotTaken(p)
  <2>1. PICK g : /\ Writes(p, g) /\ g.state = "whole" /\ local' = Replaced(local, g)
                 /\ CASE proc[p].op = "rebackup" -> Ends(p)
                      [] proc[p].op = "restore" -> GoWith(p, "replace", NoFile) /\ UNCHANGED lock
                      [] OTHER -> GoWith(p, "prune", g) /\ UNCHANGED lock
    BY <1>5, Finished
  <2>2. g \in Files /\ {"replace", "prune"} \subseteq Steps
    BY <2>1 DEF Writes, Steps
  <2>3. CASE proc[p].op = "rebackup"
    BY <1>1, <1>5, <2>1, <2>3, EndsMoves DEF Rests
  <2>4. CASE proc[p].op = "restore"
    BY <1>1, <1>5, <2>1, <2>2, <2>4, NoFileIsAFile, GoWithMoves DEF Holds
  <2>5. CASE proc[p].op \notin {"rebackup", "restore"}
    BY <1>1, <1>5, <2>1, <2>2, <2>5, GoWithMoves DEF Holds
  <2> QED BY <2>3, <2>4, <2>5
<1>6. CASE Prune(p)
  <2>1. CASE proc[p].op = "open" /\ p = "command"
    BY <1>1, <1>6, <2>1, GoMoves DEF Prune, Steps, Holds
  <2>2. CASE ~(proc[p].op = "open" /\ p = "command")
    BY <1>1, <1>6, <2>2, GoMoves DEF Prune, Steps, Holds
  <2> QED BY <2>1, <2>2
<1> QED BY <1>2, <1>3, <1>4, <1>5, <1>6 DEF SnapshotStep

(***************************************************************************)
(* The course of a process: which steps each operation takes, which        *)
(* process runs it, and what kind of file it has in hand.                  *)
(***************************************************************************)
KindOf(op) ==
  CASE op = "open" -> "premigration" [] op = "restore" -> "prerestore" [] OTHER -> "scheduled"
Taking == {"take", "wait", "vacuum"}
CopyingSteps == {"copy", "copying", "pruneCopies"}
StepsOf(p, op) ==
  CASE op = "none" -> {"rest"}
    [] op = "open" -> Taking \cup {"prune", "migrate"}
                      \cup (IF p = "server" THEN CopyingSteps ELSE {})
    [] op = "serve" -> Taking \cup {"tick", "prune"} \cup CopyingSteps
    [] op = "backup" -> Taking \cup {"prune"} \cup CopyingSteps
    [] op = "restore" -> Taking \cup {"aside", "replace", "replacing", "reopen"}
    [] OTHER -> Taking
OpsOf(p) ==
  IF p = "server" THEN {"none", "open", "serve"}
  ELSE {"none", "open", "backup", "restore", "rebackup"}
InCourse(p, r) ==
  /\ r.op \in OpsOf(p) /\ r.step \in StepsOf(p, r.op)
  /\ r.step \in {"vacuum", "prune"} => r.file.kind = KindOf(r.op)
  /\ r.step = "copy" /\ r.op # "serve" => r.file.kind = KindOf(r.op)
  /\ r.step \in {"copying", "pruneCopies"} => r.file.kind \in {"scheduled", "premigration"}
Course == \A p \in Procs : InCourse(p, proc[p])

\* A process killed, refused or done is where it began.
LEMMA AtRest == \A p \in Procs : \A r : r.op = "none" /\ r.step = "rest" => InCourse(p, r)
BY DEF InCourse, OpsOf, StepsOf

\* The process that steps stays in its course; the other does not move.
Moved(p) == proc' \in [Procs -> Slots] /\ Alone(p) /\ InCourse(p, proc'[p])

LEMMA SnapshotCourse ==
  ASSUME BackupsTypeOK, Course, NEW p \in Procs, SnapshotStep(p)
  PROVE  Moved(p)
<1>1. Others(p) /\ InCourse(p, proc[p])
  BY SnapshotEffects DEF Course
<1>2. KindTaken(p) = KindOf(proc[p].op) /\ NoFile.kind = "scheduled"
  BY DEF KindTaken, KindOf, NoFile
<1>3. CASE TakeSnapshot(p) /\ Holds(p, "vacuum", NewSnapshot(p))
  <2>1. NewSnapshot(p).kind = KindTaken(p) /\ proc[p].step \in {"take", "wait"}
    BY <1>3, NewSnapshotFields DEF TakeSnapshot
  <2> QED BY <1>1, <1>2, <1>3, <2>1 DEF Moved, Others, Holds, InCourse, OpsOf, StepsOf, Taking
<1>4. CASE WaitForTheNextSecond(p) /\ Stays(p, "wait")
  <2>1. proc[p].step = "take"
    BY <1>4 DEF WaitForTheNextSecond
  <2> QED BY <1>1, <1>4, <2>1 DEF Moved, Others, Stays, Holds, InCourse, OpsOf, StepsOf, Taking
<1>5. CASE Rests(p)
  BY <1>1, <1>5, AtRest DEF Moved, Others, Rests
<1>6. CASE proc[p].op = "serve" /\ Holds(p, "copy", NoFile)
  BY <1>1, <1>2, <1>6 DEF Moved, Others, Holds, InCourse, OpsOf, StepsOf, Taking, CopyingSteps
<1>7. CASE proc[p].op = "restore" /\ (Holds(p, "aside", NoFile) \/ Holds(p, "replace", NoFile))
  BY <1>1, <1>7 DEF Moved, Others, Holds, InCourse, OpsOf, StepsOf, Taking
<1>8. ASSUME NEW g, Writes(p, g), proc[p].op \notin {"rebackup", "restore"}, Holds(p, "prune", g)
      PROVE  Moved(p)
  BY <1>1, <1>8 DEF Writes, Moved, Others, Holds, InCourse, OpsOf, StepsOf, Taking, CopyingSteps
<1>9. CASE Prune(p) /\ proc[p].op = "open" /\ p = "command" /\ Stays(p, "migrate")
  BY <1>1, <1>9 DEF Moved, Others, Stays, Holds, InCourse, OpsOf, StepsOf, Taking, CopyingSteps
<1>10. CASE Prune(p) /\ ~(proc[p].op = "open" /\ p = "command") /\ Stays(p, "copy")
  <2>1. proc[p].step = "prune"
    BY <1>10 DEF Prune
  <2> QED BY <1>1, <1>10, <2>1
          DEF Moved, Others, Stays, Holds, InCourse, OpsOf, StepsOf, Taking, CopyingSteps, Procs
<1> QED BY <1>3, <1>4, <1>5, <1>6, <1>7, <1>8, <1>9, <1>10, SnapshotEffects

\* Identities come from what was given out, and a directory lists its finitely
\* many files by name.
Numbered ==
  /\ \A f \in local \cup copies : f.of.inst \in 1..identities
  /\ \A p \in Procs : proc[p].op = "restore" => proc[p].source.of.inst \in 1..identities
  /\ \A p \in Procs : proc[p].step = "vacuum" => proc[p].file.of.inst \in 1..identities
Listed == IsFiniteSet(local) /\ IsFiniteSet(copies) /\ Distinct(local) /\ Distinct(copies)
Sound == BackupsTypeOK /\ Numbered /\ Listed /\ Course

LEMMA OwnIsListed ==
  ASSUME NEW dir \in SUBSET Files, IsFiniteSet(dir), Distinct(dir)
  PROVE  LET S == OwnBackups(dir)
         IN  S \in SUBSET Files /\ IsFiniteSet(S) /\ Distinct(S) /\ S = OwnBackups(S) /\ S \subseteq dir
<1>1. OwnBackups(dir) \in SUBSET dir /\ OwnBackups(dir) = OwnBackups(OwnBackups(dir))
  BY DEF OwnBackups, Snapshots
<1> QED BY <1>1, FewerAreDistinct

LEMMA CopiedIsLocal ==
  ASSUME Sound, NEW p \in Procs, NEW f \in ToCopy(p)
  PROVE  /\ f \in local
         /\ proc[p].op = "serve" => f.kind \in {"scheduled", "premigration"}
         /\ proc[p].op # "serve" => f.kind = proc[p].file.kind
<1>1. local \in SUBSET Files /\ IsFiniteSet(local) /\ Distinct(local)
  BY DEF Sound, BackupsTypeOK, Listed
<1>2. CASE proc[p].op # "serve"
  BY <1>2 DEF ToCopy, Named, Name
<1>3. CASE proc[p].op = "serve"
  <2> DEFINE S == OwnBackups(local)
  <2>1. S # {} /\ f = Newest(S)
    BY <1>3 DEF ToCopy
  <2>2. S \in SUBSET Files /\ IsFiniteSet(S) /\ Distinct(S) /\ S = OwnBackups(S) /\ S \subseteq local
    BY <1>1, OwnIsListed
  <2>3. f \in S
    <3> HIDE DEF S
    <3> QED BY <2>1, <2>2, NewestIsOne
  <2>4. f.kind \in {"scheduled", "premigration"} /\ f \in local
    BY <2>2, <2>3 DEF OwnBackups, Snapshots, Files, Kinds
  <2> QED BY <1>3, <2>4
<1> QED BY <1>2, <1>3

LEMMA CopyEffects ==
  ASSUME Sound, NEW p \in Procs, CopyStep(p)
  PROVE  /\ Others(p)
         /\ \/ \E f \in ToCopy(p) : CopyBegins(p) /\ Copyable(f) /\ Holds(p, "copying", f)
                                   /\ crossed' = (crossed \/ Crosses(p, f))
            \/ CopyVerified(p) /\ Stays(p, "pruneCopies")
            \/ /\ CopyRefused(p) \/ FinishRetention(p) \/ CopyFails(p) \/ PruneCopies(p)
               /\ proc[p].step \in CopyingSteps
               /\ \/ proc[p].op \notin {"serve", "open"} /\ Rests(p)
                  \/ proc[p].op = "serve" /\ Holds(p, "tick", NoFile)
                  \/ proc[p].op = "open" /\ Stays(p, "migrate")
<1> USE DEF Others, Stays
<1>1. proc \in [Procs -> Slots]
  BY DEF Sound, BackupsTypeOK, Slots
<1>2. CASE CopyBegins(p)
  <2>1. PICK f \in ToCopy(p) : /\ Copyable(f) /\ GoWith(p, "copying", f)
                              /\ crossed' = (crossed \/ Crosses(p, f))
    BY <1>2 DEF CopyBegins
  <2>2. f \in Files /\ "copying" \in Steps /\ lock' = lock
    BY <1>2, <2>1, CopiedIsLocal DEF Sound, BackupsTypeOK, Steps, CopyBegins
  <2> QED BY <1>1, <1>2, <2>1, <2>2, GoWithMoves DEF Holds
<1>3. CASE CopyVerified(p)
  BY <1>1, <1>3, GoMoves DEF CopyVerified, Steps, Holds
<1>4. CASE CopyRefused(p) \/ FinishRetention(p) \/ CopyFails(p) \/ PruneCopies(p)
  <2>1. CopyDone(p) /\ proc[p].step \in CopyingSteps
    BY <1>4 DEF CopyRefused, FinishRetention, CopyFails, PruneCopies, At, CopyingSteps
  <2> QED BY <1>1, <1>4, <2>1, CopyDoneMoves DEF Rests, Holds
<1> QED BY <1>2, <1>3, <1>4 DEF CopyStep

LEMMA CopyCourse ==
  ASSUME Sound, NEW p \in Procs, CopyStep(p)
  PROVE  Moved(p)
<1>1. Others(p) /\ InCourse(p, proc[p])
  BY CopyEffects DEF Sound, Course
<1>2. ASSUME NEW f \in ToCopy(p), CopyBegins(p), Holds(p, "copying", f) PROVE Moved(p)
  <2>1. proc[p].step = "copy"
    BY <1>2 DEF CopyBegins
  <2>2. f.kind \in {"scheduled", "premigration"}
    <3>1. CASE proc[p].op = "serve"
      BY <1>2, <3>1, CopiedIsLocal
    <3>2. CASE proc[p].op # "serve"
      <4>1. f.kind = KindOf(proc[p].op)
        BY <1>1, <1>2, <2>1, <3>2, CopiedIsLocal DEF InCourse
      <4>2. proc[p].op # "restore"
        BY <1>1, <2>1 DEF InCourse, StepsOf, Taking
      <4> QED BY <4>1, <4>2 DEF KindOf
    <3> QED BY <3>1, <3>2
  <2> QED BY <1>1, <1>2, <2>1, <2>2
          DEF Moved, Others, Holds, InCourse, OpsOf, StepsOf, Taking, CopyingSteps
<1>3. CASE CopyVerified(p) /\ Stays(p, "pruneCopies")
  <2>1. proc[p].step = "copying"
    BY <1>3 DEF CopyVerified
  <2> QED BY <1>1, <1>3, <2>1
          DEF Moved, Others, Stays, Holds, InCourse, OpsOf, StepsOf, Taking, CopyingSteps
<1>4. CASE Rests(p)
  BY <1>1, <1>4, AtRest DEF Moved, Others, Rests
<1>5. CASE proc[p].op = "serve" /\ Holds(p, "tick", NoFile)
  BY <1>1, <1>5 DEF Moved, Others, Holds, InCourse, OpsOf, StepsOf, Taking
<1>6. CASE proc[p].op = "open" /\ Stays(p, "migrate")
  BY <1>1, <1>6 DEF Moved, Others, Stays, Holds, InCourse, OpsOf, StepsOf, Taking
<1> QED BY <1>2, <1>3, <1>4, <1>5, <1>6, CopyEffects

LEMMA OpenEffects ==
  ASSUME BackupsTypeOK, NEW p \in Procs, OpenStep(p) \/ RestoreStep(p) \/ Crash(p)
  PROVE  /\ Others(p)
         /\ \/ /\ OpenRefused(p) \/ ReplaceFails(p) \/ ReopenRefused(p) \/ Crash(p)
               /\ Rests(p)
            \/ /\ Migrate(p) \/ CreateDatabase(p)
               /\ \/ p = "server" /\ proc'[p].op = "serve" /\ proc'[p].step = "tick" /\ lock' = lock
                  \/ p # "server" /\ Rests(p)
            \/ SetAsideRaw(p) /\ Stays(p, "replace")
            \/ Replace(p) /\ Stays(p, "replacing")
            \/ ReplaceDone(p) /\ Stays(p, "reopen")
            \/ /\ Reopen(p) /\ proc'[p].op = "rebackup" /\ proc'[p].step = "take" /\ lock' = lock
<1> USE DEF Others, Stays
<1>1. proc \in [Procs -> Slots] /\ {"replace", "replacing", "reopen"} \subseteq Steps
  BY DEF BackupsTypeOK, Slots, Steps
<1>2. CASE OpenRefused(p) \/ ReplaceFails(p) \/ ReopenRefused(p) \/ Crash(p)
  <2>1. Ends(p)
    BY <1>2 DEF OpenRefused, ReplaceFails, ReopenRefused, Crash
  <2> QED BY <1>1, <1>2, <2>1, EndsMoves DEF Rests
<1>3. CASE Migrate(p) \/ CreateDatabase(p)
  <2>1. Opened(p)
    BY <1>3 DEF Migrate, CreateDatabase
  <2> QED BY <1>1, <1>3, <2>1, OpenedMoves DEF Rests
<1>4. CASE SetAsideRaw(p)
  BY <1>1, <1>4, GoMoves DEF SetAsideRaw, Holds
<1>5. CASE Replace(p)
  BY <1>1, <1>5, GoMoves DEF Replace, Holds
<1>6. CASE ReplaceDone(p)
  BY <1>1, <1>6, GoMoves DEF ReplaceDone, Holds
<1>7. CASE Reopen(p)
  BY <1>1, <1>7, ReopenMoves DEF Reopen
<1> QED BY <1>2, <1>3, <1>4, <1>5, <1>6, <1>7 DEF OpenStep, RestoreStep

LEMMA OpenCourse ==
  ASSUME Sound, NEW p \in Procs, OpenStep(p) \/ RestoreStep(p) \/ Crash(p)
  PROVE  Moved(p)
<1>1. Others(p) /\ InCourse(p, proc[p])
  BY OpenEffects DEF Sound, Course
<1>2. CASE Rests(p)
  BY <1>1, <1>2, AtRest DEF Moved, Others, Rests
<1>3. CASE p = "server" /\ proc'[p].op = "serve" /\ proc'[p].step = "tick"
  BY <1>1, <1>3 DEF Moved, Others, InCourse, OpsOf, StepsOf, Taking
<1>4. ASSUME NEW s \in {"replace", "replacing", "reopen"}, Stays(p, s), proc[p].op = "restore"
      PROVE  Moved(p)
  BY <1>1, <1>4 DEF Moved, Others, Stays, Holds, InCourse, OpsOf, StepsOf, Taking
<1>5. CASE SetAsideRaw(p) /\ Stays(p, "replace")
  BY <1>4, <1>5 DEF SetAsideRaw, At
<1>6. CASE Replace(p) /\ Stays(p, "replacing")
  BY <1>4, <1>6 DEF Replace, At
<1>7. CASE ReplaceDone(p) /\ Stays(p, "reopen")
  BY <1>4, <1>7 DEF ReplaceDone, At
<1>8. CASE Reopen(p) /\ proc'[p].op = "rebackup" /\ proc'[p].step = "take"
  <2>1. p # "server"
    BY <1>1, <1>8 DEF Reopen, At, InCourse, OpsOf
  <2> QED BY <1>1, <1>8, <2>1 DEF Moved, Others, InCourse, OpsOf, StepsOf, Taking
<1> QED BY <1>2, <1>3, <1>5, <1>6, <1>7, <1>8, OpenEffects DEF Sound

Opens(p) ==
  /\ Others(p) /\ proc'[p].op = "open" /\ proc'[p].file = NoFile
  /\ MigrationPending => proc'[p].step = "take"
  /\ ~MigrationPending => proc'[p].step = "migrate"

LEMMA StartEffects ==
  ASSUME BackupsTypeOK
  PROVE  /\ StartServer => Opens("server")
         /\ OpenByCommand => Opens("command")
         /\ SchedulerTick => /\ Others("server")
                             /\ \E s \in {"take", "copy"} : Stays("server", s)
         /\ StartBackup => /\ Others("command") /\ lock' = lock
                           /\ proc'["command"].op = "backup" /\ proc'["command"].step = "take"
         /\ StartRestore => /\ Others("command")
                            /\ proc'["command"].op = "restore" /\ proc'["command"].file = NoFile
                            /\ db.state = "absent" => proc'["command"].step = "replace"
                            /\ db.state # "absent" => proc'["command"].step = "take"
                            /\ proc'["command"].source \in Reachable
                            /\ proc'["command"].source.state = "whole"
<1>1. proc \in [Procs -> Slots] /\ {"server", "command"} \subseteq Procs
  BY DEF BackupsTypeOK, Slots, Procs
<1>2. ASSUME StartServer PROVE Opens("server")
  BY <1>1, <1>2, OpeningMoves DEF StartServer, Others, Opens
<1>3. ASSUME OpenByCommand PROVE Opens("command")
  BY <1>1, <1>3, OpeningMoves DEF OpenByCommand, Others, Opens
<1>4. ASSUME StartBackup
      PROVE  /\ Others("command") /\ lock' = lock
             /\ proc'["command"].op = "backup" /\ proc'["command"].step = "take"
  BY <1>1, <1>4, StartBackupMoves DEF StartBackup, disk, Others
<1>5. ASSUME StartRestore
      PROVE  /\ Others("command")
             /\ proc'["command"].op = "restore" /\ proc'["command"].file = NoFile
             /\ db.state = "absent" => proc'["command"].step = "replace"
             /\ db.state # "absent" => proc'["command"].step = "take"
             /\ proc'["command"].source \in Reachable
             /\ proc'["command"].source.state = "whole"
  BY <1>1, <1>5, StartRestoreMoves DEF Others, BackupsTypeOK
<1>6. ASSUME SchedulerTick
      PROVE  Others("server") /\ \E s \in {"take", "copy"} : Stays("server", s)
  <2>1. PICK s \in {"take", "copy"} : Go("server", s) /\ lock' = lock
    BY <1>6 DEF SchedulerTick
  <2>2. s \in Steps
    BY DEF Steps
  <2> QED BY <1>1, <2>1, <2>2, GoMoves DEF Others, Holds, Stays
<1> QED BY <1>2, <1>3, <1>4, <1>5, <1>6

LEMMA CourseKept ==
  ASSUME Sound, [Next]_vars
  PROVE  Course' /\ proc' \in [Procs -> Slots]
<1>1. proc \in [Procs -> Slots] /\ BackupsTypeOK /\ Course
  BY DEF Sound, BackupsTypeOK, Slots
<1>2. ASSUME NEW p \in Procs, Moved(p) PROVE Course' /\ proc' \in [Procs -> Slots]
  BY <1>1, <1>2 DEF Moved, Alone, Course
<1>3. ASSUME proc' = proc PROVE Course' /\ proc' \in [Procs -> Slots]
  BY <1>1, <1>3 DEF Course
<1>4. CASE UNCHANGED vars
  BY <1>3, <1>4 DEF vars
<1>5. ASSUME NEW p \in Procs,
             SnapshotStep(p) \/ CopyStep(p) \/ OpenStep(p) \/ RestoreStep(p) \/ Crash(p)
      PROVE  Course' /\ proc' \in [Procs -> Slots]
  BY <1>1, <1>2, <1>5, SnapshotCourse, CopyCourse, OpenCourse
<1>6. {"server", "command"} \subseteq Procs /\ InCourse("server", proc["server"])
  BY <1>1 DEF Procs, Course
<1>7. CASE StartServer \/ OpenByCommand
  <2>1. ASSUME NEW p \in Procs, Opens(p) PROVE Moved(p)
    BY <2>1 DEF Opens, Others, Moved, InCourse, OpsOf, StepsOf, Taking
  <2> QED BY <1>1, <1>2, <1>6, <1>7, <2>1, StartEffects
<1>8. CASE SchedulerTick
  <2>1. Others("server") /\ proc["server"].op = "serve"
        /\ \E s \in {"take", "copy"} : Stays("server", s)
    BY <1>1, <1>8, StartEffects DEF SchedulerTick, At
  <2>2. Moved("server")
    BY <1>6, <2>1 DEF Others, Moved, Stays, Holds, InCourse, OpsOf, StepsOf, Taking, CopyingSteps
  <2> QED BY <1>2, <1>6, <2>2
<1>9. CASE StartBackup
  <2>1. Moved("command")
    BY <1>1, <1>9, StartEffects DEF Others, Moved, InCourse, OpsOf, StepsOf, Taking
  <2> QED BY <1>2, <1>6, <2>1
<1>10. CASE StartRestore
  <2>1. Moved("command")
    BY <1>1, <1>10, StartEffects DEF Others, Moved, InCourse, OpsOf, StepsOf, Taking
  <2> QED BY <1>2, <1>6, <2>1
<1>11. CASE Commit \/ TimePasses \/ ClockSetBack \/ InstallBuild
  BY <1>3, <1>11 DEF Commit, TimePasses, ClockSetBack, InstallBuild
<1> QED BY <1>4, <1>5, <1>7, <1>8, <1>9, <1>10, <1>11 DEF Next

LEMMA LockTypes ==
  ASSUME Sound, [Next]_vars
  PROVE  lock' \in {lock, NoProc, "server", "command"}
<1>1. CASE UNCHANGED vars
  BY <1>1 DEF vars
<1>2. ASSUME NEW p \in Procs,
             SnapshotStep(p) \/ CopyStep(p) \/ OpenStep(p) \/ RestoreStep(p) \/ Crash(p)
      PROVE  lock' \in {lock, NoProc}
  BY <1>2, SnapshotEffects, CopyEffects, OpenEffects DEF Sound, Rests, Holds, Stays
<1>3. CASE \/ StartServer \/ OpenByCommand \/ StartBackup \/ StartRestore \/ SchedulerTick
           \/ TimePasses \/ ClockSetBack \/ InstallBuild \/ Commit
  BY <1>3 DEF StartServer, OpenByCommand, StartBackup, StartRestore, SchedulerTick, TimePasses,
              ClockSetBack, InstallBuild, Commit
<1> QED BY <1>1, <1>2, <1>3 DEF Next

LEMMA DbTypes ==
  ASSUME Sound, [Next]_vars
  PROVE  /\ db' \in [state : {"whole", "torn", "absent"}, of : Contents]
         /\ db'.of.inst \in 1..identities'
<1>1. db \in [state : {"whole", "torn", "absent"}, of : Contents] /\ db.of.inst \in 1..identities
      /\ identities \in Nat /\ identities' \in Nat /\ identities <= identities' /\ build \in Nat
  BY WorldSteps, BackupAssumption DEF Sound, BackupsTypeOK, World
<1>2. CASE db' = db
  BY <1>1, <1>2
<1>3. CASE Commit
  <2>1. db' = [db EXCEPT !.of.work = @ + 1] /\ identities' = identities
    BY <1>3 DEF Commit, world
  <2> QED BY <1>1, <2>1 DEF Contents
<1> DEFINE Typed == /\ db' \in [state : {"whole", "torn", "absent"}, of : Contents]
                   /\ db'.of.inst \in 1..identities'
<1>4. ASSUME NEW p \in Procs, Migrate(p) \/ Reopen(p) PROVE Typed
  <2>1. db' = [db EXCEPT !.of.schema = build] /\ identities' = identities
    BY <1>4 DEF Migrate, Reopen, world
  <2> QED BY <1>1, <2>1 DEF Contents
<1>5. ASSUME NEW p \in Procs, CreateDatabase(p) PROVE Typed
  <2>1. db' = [state |-> "whole", of |-> [inst |-> identities + 1, work |-> 0, schema |-> build]]
        /\ identities' = identities + 1
    BY <1>5 DEF CreateDatabase
  <2>2. [inst |-> identities + 1, work |-> 0, schema |-> build] \in Contents
    BY <1>1 DEF Contents
  <2> QED BY <1>1, <2>1, <2>2
<1>6. ASSUME NEW p \in Procs, SetAsideRaw(p) \/ Replace(p) PROVE Typed
  <2>1. db'.of = db.of /\ db'.state \in {"torn", "absent"} /\ identities' = identities
        /\ db' \in [state : {"torn", "absent"}, of : Contents]
    BY <1>1, <1>6 DEF SetAsideRaw, Replace, world
  <2> QED BY <1>1, <2>1
<1>7. ASSUME NEW p \in Procs, ReplaceDone(p) PROVE Typed
  <2>1. db' = [state |-> "whole", of |-> proc[p].source.of] /\ identities' = identities
        /\ proc[p].op = "restore"
    BY <1>7 DEF ReplaceDone, world, At
  <2>2. proc[p].source.of \in Contents /\ proc[p].source.of.inst \in 1..identities
    BY <2>1 DEF Sound, Numbered, BackupsTypeOK, Files
  <2> QED BY <2>1, <2>2
<1> QED BY <1>2, <1>3, <1>4, <1>5, <1>6, <1>7, OnlyDbSteps DEF DbStep

LEMMA DirectoryTypes ==
  ASSUME Sound, [Next]_vars
  PROVE  local' \subseteq Files /\ copies' \subseteq Files /\ Listed'
<1>1. /\ local \in SUBSET Files /\ copies \in SUBSET Files /\ BackupsTypeOK
      /\ IsFiniteSet(local) /\ IsFiniteSet(copies) /\ Distinct(local) /\ Distinct(copies)
  BY DEF Sound, BackupsTypeOK, Listed
<1>2. local' \subseteq Files /\ IsFiniteSet(local') /\ Distinct(local')
  <2>1. CASE local' \subseteq local
    BY <1>1, <2>1, FewerAreDistinct
  <2>2. ASSUME NEW p \in Procs, TakeSnapshot(p), local' = local \cup {NewSnapshot(p)}
        PROVE  local' \subseteq Files /\ IsFiniteSet(local') /\ Distinct(local')
    <3>1. NewSnapshot(p) \in Files /\ \A f \in local : Name(f) # Name(NewSnapshot(p))
      BY <1>1, <2>2, NewSnapshotFields DEF TakeSnapshot, NameTaken, Named
    <3> QED BY <1>1, <2>2, <3>1, FS_AddElement DEF Distinct
  <2>3. ASSUME NEW p \in Procs, NEW g, Writes(p, g) \/ SetsAside(p, g), local' = Replaced(local, g)
        PROVE  local' \subseteq Files /\ IsFiniteSet(local') /\ Distinct(local')
    <3>1. g \in Files
      BY <2>3 DEF Writes, SetsAside
    <3>2. Replaced(local, g) \subseteq local \cup {g}
      BY DEF Replaced
    <3> QED BY <1>1, <2>3, <3>1, <3>2, ReplacedIsDistinct
  <2> QED BY <1>1, <2>1, <2>2, <2>3, OnlyLocalSteps, LocalShapes
<1>3. copies' \subseteq Files /\ IsFiniteSet(copies') /\ Distinct(copies')
  <2>1. CASE copies' \subseteq copies
    BY <1>1, <2>1, FewerAreDistinct
  <2>2. ASSUME NEW p \in Procs, copies' = Replaced(copies, proc[p].file), proc[p].file \in local
        PROVE  copies' \subseteq Files /\ IsFiniteSet(copies') /\ Distinct(copies')
    <3>1. Replaced(copies, proc[p].file) \subseteq copies \cup {proc[p].file}
      BY DEF Replaced
    <3> QED BY <1>1, <2>2, <3>1, ReplacedIsDistinct
  <2> QED BY <1>1, <2>1, <2>2, OnlyCopiesSteps, CopiesShapes
<1> QED BY <1>2, <1>3 DEF Listed

\* A process moves by a step of its own.
LEMMA WhoMoves ==
  ASSUME Sound, [Next]_vars, NEW p \in Procs
  PROVE  \/ proc'[p] = proc[p]
         \/ SnapshotStep(p) \/ CopyStep(p) \/ OpenStep(p) \/ RestoreStep(p) \/ Crash(p)
         \/ p = "server" /\ (StartServer \/ SchedulerTick)
         \/ p = "command" /\ (OpenByCommand \/ StartBackup \/ StartRestore)
<1>1. BackupsTypeOK
  BY DEF Sound
<1>2. ASSUME NEW q \in Procs, q # p,
             SnapshotStep(q) \/ CopyStep(q) \/ OpenStep(q) \/ RestoreStep(q) \/ Crash(q)
      PROVE  proc'[p] = proc[p]
  BY <1>1, <1>2, SnapshotEffects, CopyEffects, OpenEffects DEF Others, Alone
<1>3. CASE \/ StartServer \/ SchedulerTick \/ OpenByCommand \/ StartBackup \/ StartRestore
  BY <1>1, <1>3, StartEffects DEF Opens, Others, Alone, Procs
<1>4. CASE Commit \/ TimePasses \/ ClockSetBack \/ InstallBuild \/ UNCHANGED vars
  BY <1>4 DEF Commit, TimePasses, ClockSetBack, InstallBuild, vars
<1> QED BY <1>2, <1>3, <1>4 DEF Next

LEMMA VacuumBegan ==
  ASSUME Sound, [Next]_vars, NEW p \in Procs, proc'[p].step = "vacuum"
  PROVE  \/ proc'[p] = proc[p]
         \/ TakeSnapshot(p) /\ Holds(p, "vacuum", NewSnapshot(p))
<1>1. BackupsTypeOK
  BY DEF Sound
<1>2. CASE SnapshotStep(p)
  BY <1>1, <1>2, SnapshotEffects DEF Rests, Holds, Stays
<1>3. CASE CopyStep(p) \/ OpenStep(p) \/ RestoreStep(p) \/ Crash(p)
  BY <1>1, <1>3, CopyEffects, OpenEffects DEF Rests, Holds, Stays
<1>4. CASE \/ p = "server" /\ (StartServer \/ SchedulerTick)
           \/ p = "command" /\ (OpenByCommand \/ StartBackup \/ StartRestore)
  BY <1>1, <1>4, StartEffects DEF Opens, Holds, Stays
<1> QED BY <1>2, <1>3, <1>4, WhoMoves

LEMMA CopyBegan ==
  ASSUME Sound, [Next]_vars, NEW p \in Procs, proc'[p].step = "copying"
  PROVE  \/ proc'[p] = proc[p]
         \/ \E f \in ToCopy(p) : /\ CopyBegins(p) /\ Copyable(f) /\ Holds(p, "copying", f)
                                 /\ crossed' = (crossed \/ Crosses(p, f))
<1>1. BackupsTypeOK
  BY DEF Sound
<1>2. CASE CopyStep(p)
  BY <1>2, CopyEffects DEF Rests, Holds, Stays
<1>3. CASE SnapshotStep(p) \/ OpenStep(p) \/ RestoreStep(p) \/ Crash(p)
  BY <1>1, <1>3, SnapshotEffects, OpenEffects DEF Rests, Holds, Stays
<1>4. CASE \/ p = "server" /\ (StartServer \/ SchedulerTick)
           \/ p = "command" /\ (OpenByCommand \/ StartBackup \/ StartRestore)
  BY <1>1, <1>4, StartEffects DEF Opens, Holds, Stays
<1> QED BY <1>2, <1>3, <1>4, WhoMoves

LEMMA RestoreBegan ==
  ASSUME Sound, [Next]_vars, NEW p \in Procs, proc'[p].op = "restore"
  PROVE  \/ proc[p].op = "restore" /\ proc'[p].source = proc[p].source
         \/ /\ p = "command" /\ StartRestore
            /\ proc'[p].source \in Reachable /\ proc'[p].source.state = "whole"
<1>1. BackupsTypeOK
  BY DEF Sound
<1>2. CASE SnapshotStep(p)
  BY <1>1, <1>2, SnapshotEffects DEF Rests, Holds, Stays
<1>3. CASE CopyStep(p) \/ OpenStep(p) \/ RestoreStep(p) \/ Crash(p)
  BY <1>1, <1>3, CopyEffects, OpenEffects DEF Rests, Holds, Stays
<1>4. CASE \/ p = "server" /\ (StartServer \/ SchedulerTick)
           \/ p = "command" /\ (OpenByCommand \/ StartBackup \/ StartRestore)
  <2>1. CASE p = "server" /\ SchedulerTick
    BY <1>1, <2>1, StartEffects DEF Holds, Stays, SchedulerTick, At
  <2> QED BY <1>1, <1>4, <2>1, StartEffects DEF Opens
<1> QED BY <1>2, <1>3, <1>4, WhoMoves

LEMMA NumbersKept ==
  ASSUME Sound, [Next]_vars
  PROVE  Numbered'
<1>1. /\ BackupsTypeOK /\ identities \in Nat /\ identities' \in Nat /\ identities <= identities'
      /\ db.of.inst \in 1..identities
  BY WorldSteps DEF Sound, BackupsTypeOK, World
<1>2. /\ \A f \in local \cup copies : f.of.inst \in 1..identities
      /\ \A p \in Procs : proc[p].op = "restore" => proc[p].source.of.inst \in 1..identities
      /\ \A p \in Procs : proc[p].step = "vacuum" => proc[p].file.of.inst \in 1..identities
  BY DEF Sound, Numbered
<1>3. \A i \in 1..identities : i \in 1..identities'
  BY <1>1
<1>4. ASSUME NEW f \in local' PROVE f.of.inst \in 1..identities'
  <2>1. CASE f \in local
    BY <1>2, <1>3, <2>1
  <2>2. CASE f \notin local
    <3>1. LocalStep
      BY <2>2, OnlyLocalSteps
    <3>2. ASSUME NEW p \in Procs, local' = local \cup {NewSnapshot(p)} PROVE f.of.inst \in 1..identities
      BY <1>1, <2>2, <3>2, NewSnapshotFields
    <3>3. ASSUME NEW p \in Procs, NEW g, Writes(p, g) \/ SetsAside(p, g), local' = Replaced(local, g)
          PROVE  f.of.inst \in 1..identities
      <4>1. f = g
        BY <2>2, <3>3 DEF Replaced
      <4> QED BY <1>1, <1>2, <3>3, <4>1 DEF Writes, SetsAside
    <3> QED BY <1>1, <1>3, <2>2, <3>1, <3>2, <3>3, LocalShapes
  <2> QED BY <2>1, <2>2
<1>5. ASSUME NEW f \in copies' PROVE f.of.inst \in 1..identities'
  <2>1. f \in copies \/ f \in local
    <3>1. CASE copies' = copies
      BY <3>1
    <3>2. CASE CopiesStep
      BY <1>1, <3>2, CopiesShapes DEF Replaced
    <3> QED BY <3>1, <3>2, OnlyCopiesSteps
  <2> QED BY <1>2, <1>3, <2>1
<1>6. ASSUME NEW p \in Procs, proc'[p].op = "restore" PROVE proc'[p].source.of.inst \in 1..identities'
  BY <1>2, <1>3, <1>6, RestoreBegan DEF Reachable, Snapshots
<1>7. ASSUME NEW p \in Procs, proc'[p].step = "vacuum" PROVE proc'[p].file.of.inst \in 1..identities'
  <2>1. NewSnapshot(p).of = db.of
    BY <1>1, NewSnapshotFields
  <2> QED BY <1>1, <1>2, <1>3, <1>7, <2>1, VacuumBegan DEF Holds
<1> QED BY <1>4, <1>5, <1>6, <1>7 DEF Numbered

LEMMA SoundInitially == Init => Sound
<1> SUFFICES ASSUME Init PROVE Sound
  OBVIOUS
<1>1. proc = [p \in Procs |-> Idle] /\ Idle \in Slots /\ Idle.op = "none" /\ Idle.step = "rest"
  BY NoFileIsAFile DEF Init, Idle
<1>2. build \in Nat /\ build \in Builds
  BY BackupAssumption DEF Init
<1> DEFINE old == [kind |-> "scheduled", stamp |-> 0, state |-> "whole",
                   of |-> [inst |-> 1, work |-> 0, schema |-> build]]
<1>3. old \in Files /\ old.of.inst = 1
  BY <1>2 DEF Files, Kinds, FileStates, Contents
<1>4. local = {} /\ copies \in {{}, {old}} /\ identities = 2
  BY DEF Init
<1>5. db = [state |-> "whole", of |-> [inst |-> 2, work |-> 0, schema |-> build]]
  BY DEF Init
<1> HIDE DEF old
<1>6. BackupsTypeOK
  <2>1. db \in [state : {"whole", "torn", "absent"}, of : Contents] /\ db.of.inst \in 1..identities
    BY <1>2, <1>4, <1>5 DEF Contents
  <2>2. clock = 0 /\ identities = 2 /\ commands = 0 /\ troubles = 0 /\ lock = NoProc
    BY DEF Init
  <2>3. steady = TRUE /\ overwrote = FALSE /\ crossed = FALSE
    BY DEF Init
  <2>4. steady \in BOOLEAN /\ overwrote \in BOOLEAN /\ crossed \in BOOLEAN
    BY <2>3, Zenon
  <2> QED BY <1>1, <1>2, <1>3, <1>4, <2>1, <2>2, <2>4 DEF BackupsTypeOK, Slots
<1>7. Numbered
  <2>1. proc = [p \in Procs |-> Idle] /\ \A p \in Procs : proc[p].op = "none" /\ proc[p].step = "rest"
    BY <1>1
  <2> QED BY <1>3, <1>4, <2>1 DEF Numbered
<1>8. Listed
  <2>1. IsFiniteSet({}) /\ IsFiniteSet({old})
    BY FS_EmptySet, FS_Singleton
  <2>2. IsFiniteSet(local) /\ IsFiniteSet(copies)
    BY <1>4, <2>1
  <2>3. Distinct(local) /\ Distinct(copies)
    BY <1>4 DEF Distinct
  <2> QED BY <2>2, <2>3 DEF Listed
<1>9. Course
  BY <1>1, AtRest DEF Course
<1> QED BY <1>6, <1>7, <1>8, <1>9 DEF Sound

LEMMA SoundInductive == Sound /\ [Next]_vars => Sound'
<1> SUFFICES ASSUME Sound, [Next]_vars PROVE Sound'
  OBVIOUS
<1>1. Course' /\ Numbered' /\ Listed'
  BY CourseKept, NumbersKept, DirectoryTypes
<1>2. BackupsTypeOK'
  <2>1. World /\ lock \in Procs \cup {NoProc}
    BY WorldSteps DEF Sound, BackupsTypeOK
  <2>2. lock' \in Procs \cup {NoProc}
    BY <2>1, LockTypes DEF Procs
  <2> QED BY <2>1, <2>2, CourseKept, DirectoryTypes, DbTypes DEF World, BackupsTypeOK, Slots
<1> QED BY <1>1, <1>2 DEF Sound

\* Every variable stays in its domain, and the database has an identity that
\* was given out.
THEOREM BackupsTypes == Spec => []BackupsTypeOK
<1>1. Sound => BackupsTypeOK
  BY DEF Sound
<1> QED BY <1>1, SoundInitially, SoundInductive, PTL DEF Spec

(***************************************************************************)
(* The lock: a server holds it for as long as it lives, a restore, and a   *)
(* command that migrates.                                                  *)
(***************************************************************************)
Locking ==
  /\ lock = "server" <=> proc["server"].op # "none"
  /\ proc["command"].op \in {"restore", "rebackup"} => lock = "command"
  /\ lock = "command" => proc["command"].op \in {"open", "restore", "rebackup"}
  /\ proc["command"].op = "open" /\ proc["command"].step # "migrate" => lock = "command"

OwnStep(p) == SnapshotStep(p) \/ CopyStep(p) \/ OpenStep(p) \/ RestoreStep(p) \/ Crash(p)

\* A process keeps its lock and its operation until it rests, except that an
\* opening server goes on to serve and a restore to its last backup.
LEMMA OpMoves ==
  ASSUME Sound, NEW p \in Procs, OwnStep(p)
  PROVE  /\ Others(p)
         /\ \/ Rests(p)
            \/ lock' = lock /\ proc'[p].op = proc[p].op /\ proc[p].step # "migrate"
            \/ lock' = lock /\ p = "server" /\ proc[p].op = "open" /\ proc'[p].op = "serve"
            \/ lock' = lock /\ proc[p].op = "restore" /\ proc'[p].op = "rebackup"
<1>1. BackupsTypeOK
  BY DEF Sound
<1>2. CASE SnapshotStep(p)
  <2>1. proc[p].step # "migrate"
    BY <1>2 DEF SnapshotStep, TakeSnapshot, WaitForTheNextSecond, SnapshotRefused, VacuumFails,
                ValidationFails, SnapshotTaken, Prune
  <2> QED BY <1>1, <1>2, <2>1, SnapshotEffects DEF Holds, Stays
<1>3. CASE CopyStep(p)
  <2>1. proc[p].step # "migrate"
    BY <1>3 DEF CopyStep, CopyBegins, CopyRefused, FinishRetention, CopyVerified, CopyFails,
                PruneCopies, At
  <2> QED BY <1>1, <1>3, <2>1, CopyEffects DEF Holds, Stays
<1>4. CASE OpenStep(p) \/ RestoreStep(p) \/ Crash(p)
  <2>1. Migrate(p) \/ CreateDatabase(p) => proc[p].op = "open"
    BY DEF Migrate, CreateDatabase, At
  <2>2. Reopen(p) => proc[p].op = "restore"
    BY DEF Reopen, At
  <2>3. SetAsideRaw(p) \/ Replace(p) \/ ReplaceDone(p) => proc[p].step # "migrate"
    BY DEF SetAsideRaw, Replace, ReplaceDone, At
  <2> QED BY <1>1, <1>4, <2>1, <2>2, <2>3, OpenEffects DEF Holds, Stays
<1> QED BY <1>2, <1>3, <1>4 DEF OwnStep

LEMMA LockingKept ==
  ASSUME Sound, Locking, [Next]_vars
  PROVE  Locking'
<1>1. BackupsTypeOK /\ {"server", "command"} \subseteq Procs /\ NoProc \notin Procs
      /\ lock \in {"server", "command", NoProc}
      /\ proc["server"].op \in {"none", "open", "serve"}
      /\ proc["command"].op \in {"none", "open", "backup", "restore", "rebackup"}
  BY DEF Sound, BackupsTypeOK, Procs, NoProc, Course, InCourse, OpsOf
<1>2. ASSUME lock' = lock, \A p \in Procs : proc'[p].op = proc[p].op /\ proc'[p].step = proc[p].step
      PROVE  Locking'
  BY <1>1, <1>2 DEF Locking
<1>3. CASE UNCHANGED vars \/ Commit \/ TimePasses \/ ClockSetBack \/ InstallBuild
  BY <1>2, <1>3 DEF vars, Commit, TimePasses, ClockSetBack, InstallBuild
<1>4. CASE OwnStep("server")
  <2>1. proc'["command"] = proc["command"]
    BY <1>1, <1>4, OpMoves DEF Others, Alone, Procs
  <2>2. \/ Rests("server")
        \/ lock' = lock /\ proc'["server"].op = proc["server"].op
        \/ lock' = lock /\ proc["server"].op = "open" /\ proc'["server"].op = "serve"
    BY <1>1, <1>4, OpMoves
  <2> QED BY <1>1, <2>1, <2>2 DEF Locking, Rests, NoProc
<1>5. CASE OwnStep("command")
  <2>1. proc'["server"] = proc["server"]
    BY <1>1, <1>5, OpMoves DEF Others, Alone, Procs
  <2>2. \/ Rests("command")
        \/ lock' = lock /\ proc'["command"].op = proc["command"].op /\ proc["command"].step # "migrate"
        \/ lock' = lock /\ proc["command"].op = "restore" /\ proc'["command"].op = "rebackup"
    BY <1>1, <1>5, OpMoves
  <2> QED BY <1>1, <2>1, <2>2 DEF Locking, Rests, NoProc
<1>6. CASE StartServer
  <2>1. lock = NoProc /\ lock' = "server" /\ proc'["server"].op = "open"
        /\ proc'["command"] = proc["command"]
    BY <1>1, <1>6, StartEffects DEF StartServer, Opens, Others, Alone, Procs
  <2> QED BY <1>1, <2>1 DEF Locking, NoProc
<1>7. CASE OpenByCommand
  <2>1. proc["command"].op = "none" /\ proc'["command"].op = "open"
        /\ proc'["server"] = proc["server"]
        /\ (~MigrationPending => lock' = lock /\ proc'["command"].step = "migrate")
        /\ (MigrationPending => lock = NoProc /\ lock' = "command")
    BY <1>1, <1>7, StartEffects DEF OpenByCommand, CommandStarts, Opens, Others, Alone, Procs
  <2> QED BY <1>1, <2>1 DEF Locking, NoProc
<1>8. CASE StartBackup \/ StartRestore
  <2>1. proc["command"].op = "none" /\ proc'["server"] = proc["server"]
        /\ \/ lock' = lock /\ proc'["command"].op = "backup"
           \/ lock = NoProc /\ lock' = "command" /\ proc'["command"].op = "restore"
    BY <1>1, <1>8, StartEffects
       DEF StartBackup, StartRestore, CommandStarts, Others, Alone, Procs
  <2> QED BY <1>1, <2>1 DEF Locking, NoProc
<1>9. CASE SchedulerTick
  <2>1. lock' = lock /\ proc'["server"].op = proc["server"].op /\ proc'["command"] = proc["command"]
    BY <1>1, <1>9, StartEffects DEF Stays, Holds, Others, Alone, Procs
  <2> QED BY <2>1 DEF Locking
<1> QED BY <1>3, <1>4, <1>5, <1>6, <1>7, <1>8, <1>9 DEF Next, Procs, OwnStep

(***************************************************************************)
(* One installation's backups in a copy directory.                         *)
(***************************************************************************)
\* While no two copies of different installations are in flight together, the
\* readable backups there and the files on their way there are all of one.
Readable(dir) == {f \in OwnBackups(dir) : f.state # "unreadable"}
CopyingFile(p) == proc[p].step = "copying"
Alike ==
  /\ \A c, d \in Readable(copies) : c.of.inst = d.of.inst
  /\ \A p \in Procs : CopyingFile(p) /\ proc[p].file.state # "unreadable" =>
       \A c \in Readable(copies) : c.of.inst = proc[p].file.of.inst
  /\ \A p, q \in Procs : CopyingFile(p) /\ CopyingFile(q) =>
       proc[p].file.of.inst = proc[q].file.of.inst
AllAlike == crossed \/ Alike

\* The check of a copy's installation compares it with every readable backup
\* there, as long as those are of one.
LEMMA CheckedIsAlike ==
  ASSUME Sound, \A c, d \in Readable(copies) : c.of.inst = d.of.inst,
         NEW f, SameInstallation(f), NEW c \in Readable(copies)
  PROVE  c.of.inst = f.of.inst
<1> DEFINE readable == {g \in Snapshots(copies) : g.state # "unreadable"}
           own == OwnBackups(readable)
<1>1. own = Readable(copies)
  BY DEF OwnBackups, Snapshots, Readable
<1>2. copies \in SUBSET Files /\ IsFiniteSet(copies) /\ Distinct(copies)
  BY DEF Sound, BackupsTypeOK, Listed
<1>3. readable \in SUBSET Files /\ IsFiniteSet(readable) /\ Distinct(readable)
  <2>1. readable \in SUBSET copies
    BY DEF Snapshots
  <2> HIDE DEF readable
  <2> QED BY <1>2, <2>1, FewerAreDistinct
<1>4. own \in SUBSET Files /\ IsFiniteSet(own) /\ Distinct(own) /\ own = OwnBackups(own)
  <2> HIDE DEF readable
  <2> QED BY <1>3, OwnIsListed
<1>5. Newest(own) \in own
  <2>1. own # {}
    BY <1>1
  <2> HIDE DEF own
  <2> QED BY <1>4, <2>1, NewestIsOne
<1>6. Claimant(copies) = Newest(own).of.inst
  <2>1. own # {}
    BY <1>1
  <2> QED BY <2>1 DEF Claimant
<1> HIDE DEF own, readable
<1>7. Newest(own) \in copies
  BY <1>1, <1>5 DEF Readable, OwnBackups, Snapshots
<1>8. Claimant(copies) # NoOne
  <2>1. Newest(own).of.inst \in 1..identities /\ identities \in Nat
    BY <1>7 DEF Sound, Numbered, BackupsTypeOK
  <2> QED BY <1>6, <2>1 DEF NoOne
<1> QED BY <1>1, <1>5, <1>6, <1>8 DEF SameInstallation

LEMMA ReadableMoves ==
  ASSUME Sound, [Next]_vars, NEW c \in Readable(copies')
  PROVE  c \in Readable(copies) \/ \E p \in Procs : CopyingFile(p) /\ c = proc[p].file
<1>1. BackupsTypeOK
  BY DEF Sound
<1>2. c \in copies' /\ (c \in copies => c \in Readable(copies))
  BY DEF Readable, OwnBackups, Snapshots
<1>3. ASSUME NEW p \in Procs, CopyVerified(p), copies' = Replaced(copies, proc[p].file), c \notin copies
      PROVE  CopyingFile(p) /\ c = proc[p].file
  BY <1>2, <1>3 DEF Replaced, CopyVerified, CopyingFile
<1> QED BY <1>1, <1>2, <1>3, OnlyCopiesSteps, CopiesShapes

LEMMA AlikeKept ==
  ASSUME Sound, AllAlike, [Next]_vars
  PROVE  AllAlike'
<1> SUFFICES ASSUME ~crossed' PROVE Alike'
  BY DEF AllAlike
<1>1. BackupsTypeOK /\ ~crossed /\ Alike
  BY WorldSteps DEF AllAlike, Sound, World
<1>2. \A p \in Procs : proc'[p].step = "copying" =>
        \/ proc'[p] = proc[p]
        \/ \E f \in ToCopy(p) : /\ CopyBegins(p) /\ Copyable(f) /\ Holds(p, "copying", f)
                                /\ crossed' = (crossed \/ Crosses(p, f)) /\ Others(p)
  BY CopyBegan, CopyEffects DEF CopyStep
<1>3. ASSUME NEW c \in Readable(copies'), NEW d \in Readable(copies') PROVE c.of.inst = d.of.inst
  <2>1. c \in Readable(copies) \/ \E p \in Procs : CopyingFile(p) /\ c = proc[p].file
    BY ReadableMoves
  <2>2. d \in Readable(copies) \/ \E p \in Procs : CopyingFile(p) /\ d = proc[p].file
    BY ReadableMoves
  <2>3. c.state # "unreadable" /\ d.state # "unreadable"
    BY DEF Readable
  <2> QED BY <1>1, <2>1, <2>2, <2>3 DEF Alike
<1>4. ASSUME NEW p \in Procs, proc'[p].step = "copying", proc'[p].file.state # "unreadable",
             NEW c \in Readable(copies')
      PROVE  c.of.inst = proc'[p].file.of.inst
  <2>1. CASE proc'[p] = proc[p]
    <3>1. c \in Readable(copies) \/ \E q \in Procs : CopyingFile(q) /\ c = proc[q].file
      BY ReadableMoves
    <3> QED BY <1>1, <1>4, <2>1, <3>1 DEF Alike, CopyingFile
  <2>2. ASSUME NEW f \in ToCopy(p), CopyBegins(p), Copyable(f), Holds(p, "copying", f)
        PROVE  c.of.inst = proc'[p].file.of.inst
    <3>1. copies' = copies /\ proc'[p].file = f /\ SameInstallation(f)
      BY <2>2 DEF CopyBegins, files, Copyable, Holds
    <3>2. c \in Readable(copies)
      BY <3>1
    <3> QED BY <1>1, <3>1, <3>2, CheckedIsAlike DEF Alike
  <2> QED BY <1>2, <1>4, <2>1, <2>2
<1>5. ASSUME NEW p \in Procs, NEW q \in Procs, proc'[p].step = "copying", proc'[q].step = "copying"
      PROVE  proc'[p].file.of.inst = proc'[q].file.of.inst
  <2>1. ASSUME NEW r \in Procs, NEW s \in Procs, r # s, proc'[s].step = "copying",
               NEW f \in ToCopy(r), Holds(r, "copying", f), Others(r),
               crossed' = (crossed \/ Crosses(r, f))
        PROVE  proc'[r].file.of.inst = proc'[s].file.of.inst
    <3>1. proc'[s] = proc[s] /\ proc'[r].file = f /\ ~Crosses(r, f)
      BY <2>1 DEF Others, Alone, Holds
    <3> QED BY <2>1, <3>1 DEF Crosses
  <2>2. CASE proc'[p] = proc[p] /\ proc'[q] = proc[q]
    BY <1>1, <1>5, <2>2 DEF Alike, CopyingFile
  <2> QED BY <1>2, <1>5, <2>1, <2>2
<1>6. (\A c, d \in Readable(copies) : c.of.inst = d.of.inst)'
  BY <1>3 DEF Readable, OwnBackups, Snapshots
<1>7. (\A p \in Procs : CopyingFile(p) /\ proc[p].file.state # "unreadable" =>
         \A c \in Readable(copies) : c.of.inst = proc[p].file.of.inst)'
  BY <1>4 DEF Readable, OwnBackups, Snapshots, CopyingFile
<1>8. (\A p, q \in Procs : CopyingFile(p) /\ CopyingFile(q) =>
         proc[p].file.of.inst = proc[q].file.of.inst)'
  BY <1>5 DEF CopyingFile
<1> QED BY <1>6, <1>7, <1>8 DEF Alike

\* A copy directory holds one installation's backups (backup_copy.rs:17), as
\* long as the two processes never copy two installations' backups at the same
\* time: whichever process copies, whatever a crash or a restore has made of
\* the server's identity, and whatever is pruned meanwhile.
THEOREM CopiesOfOneInstallation == Spec => []OneInstallationPerDirectory
<1>1. Init => AllAlike
  <2> SUFFICES ASSUME Init PROVE Alike
    BY DEF AllAlike
  <2>1. proc = [p \in Procs |-> Idle] /\ Idle.step # "copying"
    BY DEF Init, Idle
  <2>2. \A c, d \in copies : c = d
    BY DEF Init
  <2>3. Readable(copies) \subseteq copies
    BY DEF Readable, OwnBackups, Snapshots
  <2> QED BY <2>1, <2>2, <2>3 DEF Alike, CopyingFile
<1>2. AllAlike => OneInstallationPerDirectory
  BY DEF AllAlike, Alike, OneInstallationPerDirectory, CopiesAreOneInstallations, Readable
<1> QED BY <1>1, <1>2, SoundInitially, SoundInductive, AlikeKept, PTL DEF Spec

(***************************************************************************)
(* What an interrupted restore leaves.                                     *)
(***************************************************************************)
\* Without a whole database no process is past opening it, and only a restore
\* is at work on it; a restore has what it replaces whole in backups/ before it
\* touches the database.
Guarded == overwrote \/ \E f \in local : f.state = "whole" /\ f.of = db.of
Waiting ==
  /\ proc["server"].op = "none" \/ At("server", "open", "migrate")
  /\ \/ proc["command"].op = "none"
     \/ At("command", "open", "migrate") \/ At("command", "backup", "take")
     \/ /\ proc["command"].op = "restore"
        /\ proc["command"].step \in {"take", "aside", "replace", "replacing"}
Calm ==
  /\ ~Whole => Guarded /\ Waiting
  /\ At("command", "restore", "vacuum") => proc["command"].file.of = db.of
  /\ At("command", "restore", "replace") => Guarded

\* A restore has the installation to itself.
LEMMA RestoreIsAlone ==
  ASSUME Sound, Locking, [Next]_vars, proc["command"].op = "restore"
  PROVE  /\ proc["server"].op = "none"
         /\ OwnStep("command") \/ UNCHANGED <<db, local, copies, proc, lock, overwrote>>
<1>1. lock = "command" /\ proc["server"].op = "none"
  BY DEF Locking
<1>2. proc["server"].step = "rest"
  BY <1>1 DEF Sound, Course, InCourse, StepsOf, Procs
<1>3. ~OwnStep("server")
  <2>1. ~SnapshotStep("server")
    BY <1>2 DEF SnapshotStep, TakeSnapshot, WaitForTheNextSecond, SnapshotRefused,
                VacuumFails, ValidationFails, SnapshotTaken, Prune
  <2>2. ~CopyStep("server")
    BY <1>2 DEF CopyStep, CopyBegins, CopyRefused, FinishRetention, CopyVerified, CopyFails,
                PruneCopies, At
  <2>3. ~OpenStep("server") /\ ~RestoreStep("server") /\ ~Crash("server")
    BY <1>1 DEF OpenStep, Migrate, OpenRefused, CreateDatabase, RestoreStep, SetAsideRaw, Replace,
                ReplaceFails, ReplaceDone, Reopen, ReopenRefused, Crash, At
  <2> QED BY <2>1, <2>2, <2>3 DEF OwnStep
<1>4. ~StartServer /\ ~OpenByCommand /\ ~StartBackup /\ ~StartRestore /\ ~Commit /\ ~SchedulerTick
      /\ ~InstallBuild
  BY <1>1 DEF StartServer, OpenByCommand, StartBackup, StartRestore, CommandStarts, Commit, Serving,
              SchedulerTick, At, InstallBuild, NoProc, Procs
<1>5. CASE TimePasses \/ ClockSetBack \/ UNCHANGED vars
  BY <1>1, <1>5 DEF TimePasses, ClockSetBack, disk, observers, vars
<1>6. CASE \E p \in Procs : OwnStep(p)
  BY <1>1, <1>3, <1>6 DEF Procs
<1> QED BY <1>4, <1>5, <1>6 DEF Next, OwnStep

\* Only a restore takes the database away.
LEMMA WholeStays ==
  ASSUME Sound, [Next]_vars, proc["command"].op # "restore", Whole
  PROVE  Whole'
<1>1. \A p \in Procs : proc[p].op # "restore"
  BY DEF Sound, Course, InCourse, OpsOf, Procs
<1>2. CASE Commit
  BY <1>2 DEF Commit, Whole, Sound, BackupsTypeOK
<1>3. ASSUME NEW p \in Procs, Migrate(p) \/ CreateDatabase(p) PROVE Whole'
  BY <1>3 DEF Migrate, CreateDatabase, Whole, Sound, BackupsTypeOK
<1>4. \A p \in Procs : ~SetAsideRaw(p) /\ ~Replace(p) /\ ~ReplaceDone(p) /\ ~Reopen(p)
  BY <1>1 DEF SetAsideRaw, Replace, ReplaceDone, Reopen, At
<1> QED BY <1>2, <1>3, <1>4, OnlyDbSteps DEF DbStep, Whole

LEMMA RestoreStarts ==
  ASSUME Sound, [Next]_vars, proc["command"].op # "restore", proc'["command"].op = "restore"
  PROVE  /\ StartRestore /\ UNCHANGED <<db, local, copies, overwrote>>
         /\ proc'["command"].step \in {"take", "replace"}
         /\ proc'["command"].step = "replace" => db.state = "absent"
         /\ proc'["command"].source \in Reachable /\ proc'["command"].source.state = "whole"
<1>1. BackupsTypeOK /\ "command" \in Procs
  BY DEF Sound, Procs
<1>2. StartRestore
  BY <1>1, RestoreBegan
<1> QED BY <1>1, <1>2, StartEffects DEF StartRestore, disk, observers

\* Without a whole database and a restore, nobody touches backups/.
LEMMA NothingStirs ==
  ASSUME Sound, Waiting, ~Whole, [Next]_vars, proc["command"].op # "restore", ~Whole'
  PROVE  UNCHANGED <<db, local>> /\ Waiting'
<1>1. BackupsTypeOK /\ {"server", "command"} \subseteq Procs
  BY DEF Sound, Procs
<1>2. \A p \in Procs : /\ proc[p].op \in {"none", "open", "backup"}
                       /\ proc[p].op = "none" => proc[p].step = "rest"
                       /\ proc[p].op = "open" => proc[p].step = "migrate"
                       /\ proc[p].op = "backup" => proc[p].step = "take" /\ p = "command"
  BY DEF Waiting, At, Procs, Sound, Course, InCourse, StepsOf
<1>3. ~Commit /\ ~SchedulerTick
  BY <1>1, <1>2 DEF Commit, SchedulerTick, Serving, At
<1>4. \A p \in Procs : /\ ~Migrate(p) /\ ~SetAsideRaw(p) /\ ~Replace(p) /\ ~ReplaceDone(p) /\ ~Reopen(p)
                       /\ ~CreateDatabase(p)
  BY <1>2 DEF Migrate, SetAsideRaw, Replace, ReplaceDone, Reopen, CreateDatabase, Whole, At
<1>5. \A p \in Procs : /\ ~TakeSnapshot(p) /\ ~VacuumFails(p) /\ ~ValidationFails(p)
                       /\ ~SnapshotTaken(p) /\ ~Prune(p) /\ ~WaitForTheNextSecond(p)
                       /\ Crash(p) => local' = local
  BY <1>2 DEF TakeSnapshot, VacuumFails, ValidationFails, SnapshotTaken, Prune, Crash,
              WaitForTheNextSecond
<1>6. UNCHANGED <<db, local>>
  BY <1>3, <1>4, <1>5, OnlyDbSteps, OnlyLocalSteps DEF DbStep, LocalStep
<1>7. ASSUME NEW p \in Procs, OwnStep(p) PROVE Alone(p) /\ proc'[p].op = "none"
  <2>1. ~CopyStep(p)
    BY <1>2 DEF CopyStep, CopyBegins, CopyRefused, FinishRetention, CopyVerified, CopyFails,
                PruneCopies, At
  <2>2. CASE SnapshotStep(p)
    BY <1>1, <1>2, <1>5, <2>2, SnapshotEffects DEF Others, Rests
  <2>3. CASE OpenStep(p) \/ RestoreStep(p) \/ Crash(p)
    BY <1>1, <1>4, <2>3, OpenEffects DEF Others, Rests
  <2> QED BY <1>7, <2>1, <2>2, <2>3 DEF OwnStep
<1>8. Waiting'
  <2>1. CASE \E p \in Procs : OwnStep(p)
    BY <1>1, <1>7, <2>1 DEF Waiting, Alone, Procs, At
  <2>2. CASE StartServer \/ OpenByCommand
    BY <1>1, <2>2, StartEffects DEF MigrationPending, Opens, Others, Alone, Waiting, Procs, At
  <2>3. CASE StartBackup
    BY <1>1, <2>3, StartEffects DEF Others, Alone, Waiting, Procs, At
  <2>4. CASE StartRestore
    BY <1>1, <2>4, StartEffects DEF Others, Alone, Waiting, Procs, At
  <2>5. CASE TimePasses \/ ClockSetBack \/ InstallBuild \/ UNCHANGED vars
    BY <2>5 DEF TimePasses, ClockSetBack, InstallBuild, vars, Waiting, At
  <2> QED BY <1>3, <2>1, <2>2, <2>3, <2>4, <2>5 DEF Next, OwnStep
<1> QED BY <1>6, <1>8

LEMMA CalmInRestore ==
  ASSUME Sound, Locking, Calm, [Next]_vars, proc["command"].op = "restore"
  PROVE  Calm'
<1> DEFINE p == "command"
<1>1. BackupsTypeOK /\ "command" \in Procs /\ InCourse("command", proc["command"])
      /\ proc["server"].op = "none"
  BY RestoreIsAlone DEF Sound, Course, Procs
<1>2. ASSUME UNCHANGED <<db, local, copies, proc, lock, overwrote>> PROVE Calm'
  BY <1>2 DEF Calm, Whole, Guarded, Waiting, At
<1>3. (Whole \/ Guarded) /\ (overwrote => overwrote')
  BY <1>1, WorldSteps DEF Calm, World
<1>4. proc["command"].step = "vacuum" => Whole /\ proc["command"].file.of = db.of
  BY DEF Calm, Waiting, At
<1>5. ASSUME OwnStep("command") PROVE proc'["server"] = proc["server"]
  BY <1>1, <1>5, OpMoves DEF Others, Alone, Procs
<1>6. CASE SnapshotStep("command")
  <2>1. UNCHANGED <<db, overwrote>> /\ ~Prune("command")
    <3>1. UNCHANGED <<db, overwrote>>
      BY <1>6 DEF SnapshotStep, TakeSnapshot, WaitForTheNextSecond, SnapshotRefused, VacuumFails,
                  ValidationFails, SnapshotTaken, Prune, disk, observers
    <3> QED BY <1>1, <3>1 DEF Prune, InCourse, StepsOf, Taking
  <2>2. CASE Whole
    <3>1. Whole'
      BY <2>1, <2>2 DEF Whole
    <3>2. CASE TakeSnapshot("command") /\ Holds("command", "vacuum", NewSnapshot("command"))
      <4>1. NewSnapshot("command").of = db.of
        BY <1>1, NewSnapshotFields
      <4> QED BY <2>1, <3>1, <3>2, <4>1 DEF Calm, Holds, At
    <3>3. CASE Stays("command", "wait") \/ Holds("command", "aside", NoFile)
      BY <3>1, <3>3 DEF Calm, Stays, Holds, At
    <3>4. ASSUME NEW g, Writes("command", g), g.state = "whole", local' = Replaced(local, g),
                 Holds("command", "replace", NoFile)
          PROVE  Calm'
      <4>1. g \in local' /\ g.of = db'.of
        BY <1>4, <2>1, <3>4 DEF Writes, Replaced
      <4>2. Guarded'
        BY <3>4, <4>1 DEF Guarded
      <4> QED BY <3>1, <3>4, <4>2 DEF Calm, Holds, At
    <3> QED BY <1>1, <1>6, <2>1, <3>2, <3>3, <3>4, SnapshotEffects
  <2>3. CASE ~Whole
    <3>1. SnapshotRefused("command") /\ proc["command"].step # "vacuum"
      BY <1>4, <1>6, <2>1, <2>3
         DEF SnapshotStep, TakeSnapshot, WaitForTheNextSecond, VacuumFails, ValidationFails, SnapshotTaken
    <3>2. local' = local /\ Holds("command", "aside", NoFile)
      BY <1>1, <1>6, <3>1, SnapshotEffects
         DEF SnapshotRefused, disk, TakeSnapshot, WaitForTheNextSecond, VacuumFails, ValidationFails,
             SnapshotTaken, Prune, Whole
    <3>3. Guarded'
      BY <1>3, <2>1, <2>3, <3>2 DEF Guarded
    <3> QED BY <1>1, <1>5, <1>6, <3>2, <3>3 DEF Calm, Waiting, Holds, At, OwnStep
  <2> QED BY <2>2, <2>3
<1>7. ~CopyStep("command") /\ ~OpenStep("command")
  BY <1>1 DEF InCourse, StepsOf, Taking, OpenStep, Migrate, OpenRefused, CreateDatabase, At,
              CopyStep, CopyBegins, CopyRefused, FinishRetention, CopyVerified, CopyFails, PruneCopies
<1>8. CASE SetAsideRaw("command")
  <2>1. PICK g : /\ SetsAside("command", g) /\ local' = Replaced(local, g)
                 /\ g.state = (IF Whole THEN "whole" ELSE "torn")
                 /\ overwrote' = (overwrote \/ Named(local, Name(g)) # {})
    BY <1>1, <1>8, MovedAside
  <2>2. db'.of = db.of /\ db'.state = "absent" /\ Stays("command", "replace")
    <3>1. db' = [db EXCEPT !.state = "absent"] /\ db \in [state : {"whole", "torn", "absent"}, of : Contents]
      BY <1>1, <1>8 DEF SetAsideRaw, BackupsTypeOK
    <3>2. ~OpenRefused("command") /\ ~Migrate("command") /\ ~CreateDatabase("command")
      BY <1>7 DEF OpenStep
    <3>3. Stays("command", "replace")
      <4>1. Go("command", "replace") /\ lock' = lock
        BY <1>8 DEF SetAsideRaw
      <4>2. proc \in [Procs -> Slots] /\ "replace" \in Steps
        BY <1>1 DEF BackupsTypeOK, Slots, Steps
      <4> QED BY <1>1, <4>1, <4>2, GoMoves DEF Stays, Holds
    <3> QED BY <3>1, <3>3
  <2>3. Guarded'
    <3>1. CASE Whole
      <4>1. g \in local' /\ g.state = "whole" /\ g.of = db'.of
        BY <2>1, <2>2, <3>1 DEF Replaced, SetsAside
      <4> QED BY <4>1 DEF Guarded
    <3>2. CASE ~Whole /\ ~overwrote'
      <4>1. PICK f \in local : f.state = "whole" /\ f.of = db.of
        BY <1>3, <3>2 DEF Guarded
      <4>2. Name(f) # Name(g)
        BY <2>1, <3>2 DEF Named
      <4> QED BY <2>1, <2>2, <4>1, <4>2 DEF Guarded, Replaced
    <3> QED BY <3>1, <3>2 DEF Guarded
  <2> QED BY <1>1, <1>5, <1>8, <2>2, <2>3
          DEF Calm, Waiting, Stays, Holds, At, OwnStep, RestoreStep, Whole
<1>9. CASE Replace("command")
  <2>1. Guarded /\ local' = local /\ overwrote' = overwrote /\ db'.of = db.of
    BY <1>1, <1>9 DEF Replace, Calm, files, observers, BackupsTypeOK
  <2>2. Guarded'
    BY <2>1 DEF Guarded
  <2>3. Stays("command", "replacing") /\ proc["command"].op = "restore"
    <3>1. Go("command", "replacing") /\ lock' = lock
      BY <1>9 DEF Replace
    <3>2. proc \in [Procs -> Slots] /\ "replacing" \in Steps
      BY <1>1 DEF BackupsTypeOK, Slots, Steps
    <3> QED BY <1>1, <3>1, <3>2, GoMoves DEF Stays, Holds
  <2> QED BY <1>1, <1>5, <1>9, <2>2, <2>3 DEF Calm, Waiting, Stays, Holds, At, OwnStep, RestoreStep
<1>10. CASE ReplaceDone("command") \/ Reopen("command")
  <2>1. Whole'
    <3>1. CASE ReplaceDone("command")
      BY <3>1 DEF ReplaceDone, Whole
    <3>2. CASE Reopen("command")
      <4>1. Whole /\ db' = [db EXCEPT !.of.schema = build]
        BY <3>2 DEF Reopen, Calm, Waiting, At
      <4> QED BY <1>1, <4>1 DEF Whole, BackupsTypeOK
    <3> QED BY <1>10, <3>1, <3>2
  <2>2. proc'["command"].step \in {"reopen", "take"}
    <3>1. proc \in [Procs -> Slots] /\ "reopen" \in Steps
      BY <1>1 DEF BackupsTypeOK, Slots, Steps
    <3>2. Reopen("command") => proc'["command"].step = "take"
      BY <1>1, <3>1, ReopenMoves
    <3>3. ReplaceDone("command") => proc'["command"].step = "reopen"
      BY <1>1, <3>1, GoMoves DEF ReplaceDone
    <3> QED BY <1>10, <3>2, <3>3
  <2> QED BY <2>1, <2>2 DEF Calm, At
<1>11. CASE ReplaceFails("command") \/ ReopenRefused("command") \/ Crash("command")
  <2>1. Rests("command")
    BY <1>1, <1>11, EndsMoves DEF ReplaceFails, ReopenRefused, Crash, Rests, BackupsTypeOK, Slots
  <2>2. UNCHANGED <<db, overwrote>> /\ (~Whole => local' = local)
    BY <1>4, <1>11 DEF ReplaceFails, ReopenRefused, Crash, disk, observers
  <2>3. ~Whole' => Guarded'
    BY <1>3, <2>2 DEF Guarded, Whole
  <2> QED BY <1>1, <1>5, <1>11, <2>1, <2>3 DEF Calm, Waiting, Rests, At, OwnStep, RestoreStep
<1> QED BY <1>2, <1>6, <1>7, <1>8, <1>9, <1>10, <1>11, RestoreIsAlone DEF OwnStep, RestoreStep

LEMMA CalmKept ==
  ASSUME Sound, Locking, Calm, [Next]_vars
  PROVE  Calm'
<1>1. BackupsTypeOK /\ (overwrote => overwrote')
  BY WorldSteps DEF Sound, World
<1>2. CASE proc["command"].op = "restore"
  BY <1>2, CalmInRestore
<1>3. CASE proc["command"].op # "restore" /\ Whole
  BY <1>3, WholeStays, RestoreStarts DEF Calm, At, Whole
<1>4. CASE proc["command"].op # "restore" /\ ~Whole
  <2>1. CASE Whole'
    BY <1>4, <2>1, RestoreStarts DEF Calm, At, Whole
  <2>2. CASE ~Whole'
    <3>1. UNCHANGED <<db, local>> /\ Waiting' /\ Guarded'
      BY <1>1, <1>4, <2>2, NothingStirs DEF Calm, Guarded
    <3> QED BY <1>4, <3>1, RestoreStarts DEF Calm, At
  <2> QED BY <2>1, <2>2
<1> QED BY <1>2, <1>3, <1>4

\* However a restore is interrupted, and whatever is tried afterwards, the
\* database is whole or backups/ has a whole file of what it last was
\* (restore.rs:50 "so a mistaken restore is itself recoverable").
THEOREM RestoresAreRecoverable == Spec => []Recoverable
<1>1. Init => Locking /\ Calm
  <2> SUFFICES ASSUME Init PROVE Locking /\ Calm
    OBVIOUS
  <2>1. proc = [p \in Procs |-> Idle] /\ Idle.op = "none" /\ Idle.step = "rest" /\ lock = NoProc
    BY DEF Init, Idle
  <2>2. Whole
    BY DEF Init, Whole
  <2>3. \A p \in Procs : proc[p].op = "none" /\ proc[p].step = "rest"
    BY <2>1
  <2> QED BY <2>1, <2>2, <2>3 DEF Locking, Calm, At, NoProc, Procs
<1>2. Calm => Recoverable
  BY DEF Calm, Guarded, Recoverable
<1> QED BY <1>1, <1>2, SoundInitially, SoundInductive, LockingKept, CalmKept, PTL DEF Spec

(***************************************************************************)
(* What an upgrade leaves: a whole file of what it migrates.               *)
(***************************************************************************)
\* A restore's snapshot stays where its operator found it, and it is what the
\* database is once it is in place.
SourceKept ==
  /\ proc["command"].op = "restore" =>
       /\ proc["command"].source.state = "whole" /\ proc["command"].source.kind # "damaged"
       /\ \/ proc["command"].source \in copies
          \/ /\ proc["command"].source \in local
             /\ proc["command"].step = "vacuum" =>
                  Name(proc["command"].source) # Name(proc["command"].file)
  /\ At("command", "restore", "replacing") => ~Whole
  /\ At("command", "restore", "reopen") => db.of = proc["command"].source.of

LEMMA SourceIsKept ==
  ASSUME Sound, Locking, SourceKept, [Next]_vars
  PROVE  SourceKept'
<1>1. BackupsTypeOK /\ "command" \in Procs /\ InCourse("command", proc["command"])
  BY DEF Sound, Course, Procs
<1>2. CASE proc'["command"].op # "restore"
  BY <1>2 DEF SourceKept, At
<1>3. CASE proc["command"].op # "restore" /\ proc'["command"].op = "restore"
  BY <1>3, RestoreStarts DEF SourceKept, At, Reachable, Snapshots
<1>4. CASE proc["command"].op = "restore" /\ UNCHANGED <<db, local, copies, proc>>
  BY <1>4 DEF SourceKept, At, Whole
<1>5. CASE proc["command"].op = "restore" /\ proc'["command"].op = "restore" /\ OwnStep("command")
  <2> DEFINE s == proc["command"].source
  <2>1. s.state = "whole" /\ s.kind # "damaged" /\ proc'["command"].source = s
    <3>1. ~StartRestore
      BY <1>5 DEF StartRestore, CommandStarts
    <3> QED BY <1>1, <1>5, <3>1, RestoreBegan DEF SourceKept
  <2>2. ASSUME \/ s \in copies'
               \/ s \in local' /\ (proc'["command"].step = "vacuum" => Name(s) # Name(proc'["command"].file)),
               proc'["command"].step = "replacing" => ~Whole',
               proc'["command"].step = "reopen" => db'.of = s.of
        PROVE  SourceKept'
    BY <2>1, <2>2 DEF SourceKept, At
  <2>3. CASE SnapshotStep("command")
    <3>1. copies' = copies /\ ~Prune("command")
      BY <1>1, <1>5, <2>3 DEF SnapshotStep, TakeSnapshot, WaitForTheNextSecond, SnapshotRefused,
            VacuumFails, ValidationFails, SnapshotTaken, Prune, disk, InCourse, StepsOf, Taking
    <3>2. proc'["command"].step \in {"vacuum", "wait", "aside", "replace"}
      BY <1>1, <1>5, <2>3, <3>1, SnapshotEffects DEF Holds, Stays
    <3>3. CASE s \in copies
      BY <2>2, <3>1, <3>2, <3>3
    <3>4. CASE s \in local /\ TakeSnapshot("command")
      <4>1. Holds("command", "vacuum", NewSnapshot("command"))
        BY <1>1, <2>3, <3>4, SnapshotEffects
           DEF Holds, Stays, TakeSnapshot, WaitForTheNextSecond, SnapshotRefused, VacuumFails,
               ValidationFails, SnapshotTaken, Prune, NameTaken
      <4>2. s \in local' /\ Name(s) # Name(proc'["command"].file)
        BY <3>4, <4>1 DEF TakeSnapshot, NameTaken, Named, Holds
      <4> QED BY <2>2, <3>2, <4>2
    <3>5. CASE s \in local /\ (proc["command"].step = "vacuum" => Name(s) # Name(proc["command"].file))
               /\ ~TakeSnapshot("command")
      <4>1. proc'["command"].step # "vacuum"
        BY <1>1, <1>5, <2>3, <3>1, <3>5, SnapshotEffects DEF Rests, Holds, Stays
      <4>2. s \in local'
        <5>1. CASE WaitForTheNextSecond("command") \/ SnapshotRefused("command")
          BY <3>5, <5>1 DEF WaitForTheNextSecond, SnapshotRefused, disk
        <5>2. CASE VacuumFails("command")
          <6>1. proc["command"].step = "vacuum"
                /\ \/ local' = local
                   \/ \E g : Writes("command", g) /\ local' = Replaced(local, g)
            BY <1>1, <5>2, HalfWritten DEF VacuumFails
          <6> QED BY <3>5, <6>1 DEF Writes, Replaced
        <5>3. CASE ValidationFails("command")
          BY <3>5, <5>3 DEF ValidationFails, Named
        <5>4. CASE SnapshotTaken("command")
          <6>1. PICK g : Writes("command", g) /\ local' = Replaced(local, g)
            BY <1>1, <5>4, Finished
          <6> QED BY <3>5, <6>1 DEF Writes, Replaced
        <5> QED BY <2>3, <3>1, <3>5, <5>1, <5>2, <5>3, <5>4 DEF SnapshotStep
      <4> QED BY <2>2, <3>2, <4>1, <4>2
    <3> QED BY <1>5, <3>3, <3>4, <3>5 DEF SourceKept
  <2>4. CASE RestoreStep("command")
    <3>1. copies' = copies /\ proc["command"].step # "vacuum"
      BY <2>4 DEF RestoreStep, SetAsideRaw, Replace, ReplaceFails, ReplaceDone, Reopen, ReopenRefused,
                  disk, files, At
    <3>2. s \in local => s \in local'
      <4>1. CASE SetAsideRaw("command")
        <5>1. PICK g : SetsAside("command", g) /\ local' = Replaced(local, g)
          BY <1>1, <4>1, MovedAside
        <5>2. Name(s) # Name(g)
          BY <2>1, <5>1 DEF SetsAside, Name
        <5> QED BY <5>1, <5>2 DEF Replaced
      <4> QED BY <2>4, <4>1 DEF RestoreStep, Replace, ReplaceFails, ReplaceDone, Reopen,
                                ReopenRefused, disk, files
    <3>3. \/ proc'["command"].step = "replace"
          \/ proc'["command"].step = "replacing" /\ ~Whole'
          \/ proc'["command"].step = "reopen" /\ db'.of = s.of
      <4>1. CASE SetAsideRaw("command") \/ Replace("command") \/ ReplaceDone("command")
        <5>1. Replace("command") => ~Whole'
          BY <1>1 DEF Replace, Whole, BackupsTypeOK
        <5>2. ReplaceDone("command") => db'.of = s.of
          BY DEF ReplaceDone
        <5>3. \/ SetAsideRaw("command") /\ Go("command", "replace")
              \/ Replace("command") /\ Go("command", "replacing")
              \/ ReplaceDone("command") /\ Go("command", "reopen")
          BY <4>1 DEF SetAsideRaw, Replace, ReplaceDone
        <5>4. proc \in [Procs -> Slots] /\ {"replace", "replacing", "reopen"} \subseteq Steps
          BY <1>1 DEF BackupsTypeOK, Slots, Steps
        <5> QED BY <1>1, <5>1, <5>2, <5>3, <5>4, GoMoves
      <4>2. ~ReplaceFails("command") /\ ~Reopen("command") /\ ~ReopenRefused("command")
        BY <1>1, <1>5, EndsMoves, ReopenMoves
           DEF ReplaceFails, Reopen, ReopenRefused, BackupsTypeOK, Slots
      <4> QED BY <2>4, <4>1, <4>2 DEF RestoreStep
    <3> QED BY <1>5, <2>2, <3>1, <3>2, <3>3 DEF SourceKept
  <2>5. ~CopyStep("command") /\ ~OpenStep("command") /\ ~Crash("command")
    <3>1. ~Crash("command")
      BY <1>1, <1>5, EndsMoves DEF Crash, BackupsTypeOK, Slots
    <3> QED BY <1>1, <1>5, <3>1 DEF InCourse, StepsOf, Taking, OpenStep, Migrate, OpenRefused,
                CreateDatabase, At, CopyStep, CopyBegins, CopyRefused, FinishRetention, CopyVerified,
                CopyFails, PruneCopies
  <2> QED BY <1>5, <2>3, <2>4, <2>5 DEF OwnStep
<1> QED BY <1>2, <1>3, <1>4, <1>5, RestoreIsAlone

\* No file is dated after the clock, unless the clock was set back.
Dated ==
  steady => /\ \A f \in local : f.stamp <= clock
            /\ \A p \in Procs : proc[p].step \in {"vacuum", "prune"} => proc[p].file.stamp <= clock

LEMMA PruneBegan ==
  ASSUME Sound, [Next]_vars, NEW p \in Procs, proc'[p].step = "prune"
  PROVE  \/ proc'[p] = proc[p]
         \/ \E g : /\ SnapshotTaken(p) /\ Writes(p, g) /\ g.state = "whole"
                  /\ local' = Replaced(local, g) /\ Holds(p, "prune", g)
<1>1. BackupsTypeOK
  BY DEF Sound
<1>2. CASE SnapshotStep(p)
  BY <1>1, <1>2, SnapshotEffects DEF Rests, Holds, Stays
<1>3. CASE CopyStep(p) \/ OpenStep(p) \/ RestoreStep(p) \/ Crash(p)
  BY <1>1, <1>3, CopyEffects, OpenEffects DEF Rests, Holds, Stays
<1>4. CASE \/ p = "server" /\ (StartServer \/ SchedulerTick)
           \/ p = "command" /\ (OpenByCommand \/ StartBackup \/ StartRestore)
  BY <1>1, <1>4, StartEffects DEF Opens, Holds, Stays
<1> QED BY <1>2, <1>3, <1>4, WhoMoves

LEMMA DatedKept ==
  ASSUME Sound, Dated, [Next]_vars
  PROVE  Dated'
<1> SUFFICES ASSUME steady'
             PROVE  /\ \A f \in local' : f.stamp <= clock'
                    /\ \A p \in Procs : proc'[p].step \in {"vacuum", "prune"} => proc'[p].file.stamp <= clock'
  BY DEF Dated
<1>1. /\ BackupsTypeOK /\ clock \in Nat /\ clock' \in Nat /\ clock <= clock'
      /\ \A f \in local : f.stamp \in Nat /\ f.stamp <= clock
      /\ \A p \in Procs : /\ proc[p].file.stamp \in Nat
                          /\ proc[p].step \in {"vacuum", "prune"} => proc[p].file.stamp <= clock
      /\ \A p \in Procs : NewSnapshot(p).stamp = clock
  <2>1. BackupsTypeOK /\ steady /\ clock' \in Nat /\ clock <= clock'
    BY WorldSteps DEF Sound, World
  <2> QED BY <2>1, NewSnapshotFields DEF BackupsTypeOK, Files, Dated
<1>2. ASSUME NEW p \in Procs, NEW g, Writes(p, g) \/ SetsAside(p, g) PROVE g.stamp <= clock
  BY <1>1, <1>2 DEF Writes, SetsAside
<1>3. ASSUME NEW f \in local' PROVE f.stamp <= clock'
  <2>1. CASE f \in local
    BY <1>1, <2>1
  <2>2. CASE f \notin local
    <3>1. LocalStep
      BY <2>2, OnlyLocalSteps
    <3>2. f.stamp <= clock /\ f.stamp \in Nat
      <4>1. ASSUME NEW p \in Procs, local' = local \cup {NewSnapshot(p)} PROVE f.stamp = clock
        BY <1>1, <2>2, <4>1
      <4>2. ASSUME NEW p \in Procs, NEW g, Writes(p, g) \/ SetsAside(p, g), local' = Replaced(local, g)
            PROVE  f = g
        BY <2>2, <4>2 DEF Replaced
      <4>3. f \in Files
        BY DirectoryTypes
      <4> QED BY <1>1, <1>2, <2>2, <3>1, <4>1, <4>2, <4>3, LocalShapes DEF Files
    <3> QED BY <1>1, <3>2
  <2> QED BY <2>1, <2>2
<1>4. ASSUME NEW p \in Procs, proc'[p].step \in {"vacuum", "prune"} PROVE proc'[p].file.stamp <= clock'
  <2>1. proc'[p].file.stamp <= clock /\ proc'[p].file.stamp \in Nat
    <3>1. CASE proc'[p] = proc[p]
      BY <1>1, <1>4, <3>1
    <3>2. CASE Holds(p, "vacuum", NewSnapshot(p))
      BY <1>1, <3>2 DEF Holds
    <3>3. ASSUME NEW g, Writes(p, g), Holds(p, "prune", g)
          PROVE  proc'[p].file.stamp <= clock /\ proc'[p].file.stamp \in Nat
      BY <1>2, <3>3 DEF Holds, Writes, Files
    <3> QED BY <1>4, <3>1, <3>2, <3>3, VacuumBegan, PruneBegan
  <2> QED BY <1>1, <2>1
<1> QED BY <1>3, <1>4

\* A process that opens a database it will migrate holds the lock.
Pending == Whole /\ db.of.schema < build
Locked == proc["command"].op = "open" /\ Pending => lock = "command"

\* Nothing makes a database older than the executable beside a process that is
\* opening it; what is pending stays as it is until it is migrated.
LEMMA PendingWas ==
  ASSUME Sound, Locking, [Next]_vars, NEW p \in Procs, proc'[p].op = "open", Pending'
  PROVE  \/ proc[p].op = "open" /\ Pending /\ build' = build
         \/ proc[p].op # "open" /\ proc'[p].step = "take" /\ (p = "command" => lock' = "command")
<1>1. BackupsTypeOK /\ {"server", "command"} \subseteq Procs
  BY DEF Sound, Procs
<1>2. CASE proc[p].op # "open"
  <2>1. (p = "server" /\ StartServer) \/ (p = "command" /\ OpenByCommand)
    <3>1. ~(SnapshotStep(p) \/ CopyStep(p) \/ OpenStep(p) \/ RestoreStep(p) \/ Crash(p))
      <4>1. ~OwnStep(p)
        BY <1>2, OpMoves DEF Rests
      <4> QED BY <4>1 DEF OwnStep
    <3>2. p = "server" => ~SchedulerTick
      BY <1>1, <1>2, StartEffects DEF Stays, Holds
    <3>3. p = "command" => ~StartBackup /\ ~StartRestore
      BY <1>1, StartEffects
    <3> QED BY <1>2, <3>1, <3>2, <3>3, WhoMoves
  <2>2. MigrationPending /\ Opens(p)
    BY <1>1, <2>1, StartEffects
       DEF StartServer, OpenByCommand, disk, world, Pending, MigrationPending, Whole
  <2> QED BY <1>2, <2>1, <2>2 DEF Opens, OpenByCommand
<1>3. CASE proc[p].op = "open"
  <2>1. build' = build
    <3>1. ~InstallBuild
      BY <1>3 DEF InstallBuild
    <3>2. CASE \E q \in Procs : SnapshotStep(q) \/ CopyStep(q)
      BY <3>2 DEF SnapshotStep, TakeSnapshot, WaitForTheNextSecond, SnapshotRefused, VacuumFails,
                  ValidationFails, SnapshotTaken, Prune, CopyStep, CopyBegins, CopyRefused,
                  FinishRetention, CopyVerified, CopyFails, PruneCopies, world
    <3>3. CASE \E q \in Procs : OpenStep(q) \/ RestoreStep(q) \/ Crash(q)
      BY <3>3 DEF OpenStep, Migrate, OpenRefused, CreateDatabase, RestoreStep, SetAsideRaw, Replace,
                  ReplaceFails, ReplaceDone, Reopen, ReopenRefused, Crash, world
    <3>4. CASE \/ StartServer \/ OpenByCommand \/ StartBackup \/ StartRestore
               \/ Commit \/ SchedulerTick \/ TimePasses \/ ClockSetBack \/ UNCHANGED vars
      BY <3>4 DEF StartServer, OpenByCommand, StartBackup, StartRestore, Commit, SchedulerTick,
                  TimePasses, ClockSetBack, world, vars
    <3> QED BY <3>1, <3>2, <3>3, <3>4 DEF Next
  <2>2. Pending
    <3>1. CASE db' = db
      BY <2>1, <3>1 DEF Pending, Whole
    <3>2. CASE Commit
      <4>1. db'.of.schema = db.of.schema /\ db'.state = db.state
        BY <1>1, <3>2 DEF Commit, BackupsTypeOK, Contents
      <4> QED BY <2>1, <4>1 DEF Pending, Whole
    <3>3. ASSUME NEW q \in Procs, Migrate(q) \/ CreateDatabase(q) \/ Reopen(q) PROVE FALSE
      <4>1. db'.of.schema = build /\ build \in Nat
        BY <1>1, <3>3, BackupAssumption DEF Migrate, CreateDatabase, Reopen, BackupsTypeOK, Contents
      <4> QED BY <2>1, <4>1 DEF Pending
    <3>4. ASSUME NEW q \in Procs, SetAsideRaw(q) \/ Replace(q) PROVE FALSE
      BY <1>1, <3>4 DEF SetAsideRaw, Replace, Pending, Whole, BackupsTypeOK
    <3>5. ASSUME NEW q \in Procs, ReplaceDone(q) PROVE FALSE
      <4>1. proc[q].op = "restore" /\ q = "command"
        BY <1>1, <3>5 DEF ReplaceDone, At, Sound, Course, InCourse, OpsOf, Procs
      <4> QED BY <1>3, <4>1, RestoreIsAlone DEF Procs
    <3> QED BY <3>1, <3>2, <3>3, <3>4, <3>5, OnlyDbSteps DEF DbStep
  <2> QED BY <1>3, <2>1, <2>2
<1> QED BY <1>2, <1>3

LEMMA LockedKept ==
  ASSUME Sound, Locking, Locked, [Next]_vars
  PROVE  Locked'
<1> SUFFICES ASSUME proc'["command"].op = "open", Pending' PROVE lock' = "command"
  BY DEF Locked
<1>1. BackupsTypeOK /\ {"server", "command"} \subseteq Procs
  BY DEF Sound, Procs
<1>2. CASE proc["command"].op # "open"
  BY <1>1, <1>2, PendingWas
<1>3. CASE proc["command"].op = "open" /\ lock = "command"
  <2>1. CASE OwnStep("command")
    BY <1>1, <1>3, <2>1, OpMoves DEF Rests
  <2>2. CASE OwnStep("server")
    BY <1>1, <1>3, <2>2, OpMoves DEF Rests
  <2>3. ~StartServer /\ ~OpenByCommand /\ ~StartBackup /\ ~StartRestore
    BY <1>3 DEF StartServer, OpenByCommand, StartBackup, StartRestore, CommandStarts, NoProc
  <2>4. CASE Commit \/ SchedulerTick \/ TimePasses \/ ClockSetBack \/ InstallBuild \/ UNCHANGED vars
    BY <1>3, <2>4 DEF Commit, SchedulerTick, TimePasses, ClockSetBack, InstallBuild, vars
  <2> QED BY <2>1, <2>2, <2>3, <2>4 DEF Next, OwnStep, Procs
<1> QED BY <1>1, <1>2, <1>3, PendingWas DEF Locked

\* Beside a pending migration there is at most a backup command.
LEMMA OnlyABackupBeside ==
  ASSUME Sound, Locking, Locked, NEW p \in Procs, NEW q \in Procs \ {p}, proc[p].op = "open", Pending
  PROVE  /\ lock = p /\ proc[q].op \in {"none", "backup"}
         /\ proc[q].step \in {"vacuum", "prune"} => proc[q].file.kind = "scheduled"
         /\ proc[q].op = "none" => proc[q].step = "rest"
<1>1. InCourse(q, proc[q])
  BY DEF Sound, Course
<1>2. lock = p /\ proc[q].op \in {"none", "backup"}
  <2>1. CASE p = "server"
    BY <1>1, <2>1 DEF Locking, Locked, InCourse, OpsOf, Procs
  <2>2. CASE p = "command"
    BY <2>2 DEF Locking, Locked, Procs
  <2> QED BY <2>1, <2>2 DEF Procs
<1> QED BY <1>1, <1>2 DEF InCourse, StepsOf, KindOf

\* Of a pre-migration file w, of what else backups/ holds, and of the file f a
\* backup command has in hand beside it, whose step is s: w is the newest but
\* for scheduled ones, and a backup that is newer than w holds what w does.
Order(w, dir) ==
  /\ w.kind = "premigration"
  /\ \A h \in Snapshots(dir) : h.kind # "scheduled" => h.stamp <= w.stamp
Beside(w, f, s, dir, of) ==
  s \in {"vacuum", "prune"} =>
    /\ f.stamp <= w.stamp => \A h \in Snapshots(dir) : h.stamp <= w.stamp
    /\ f.stamp > w.stamp =>
         /\ f.of = of /\ \A h \in Snapshots(dir) : h.stamp <= f.stamp
         /\ s = "vacuum" => \A h \in dir : Name(h) = Name(f) => h.state # "whole"
         /\ s = "prune" => f \in dir /\ f.state = "whole"
Safe(w, dir, of) ==
  \/ \E g \in dir : Name(g) = Name(w) /\ g.state = "whole" /\ g.of = of
  \/ \E g \in dir : g.kind = "scheduled" /\ g.stamp > w.stamp /\ g.state = "whole" /\ g.of = of
Past == {"vacuum", "prune", "copy", "copying", "pruneCopies", "migrate"}
Upgrading(p, q) ==
  /\ proc[p].step = "vacuum" => proc[p].file.of = db.of
  /\ Order(proc[p].file, local)
  /\ Beside(proc[p].file, proc[q].file, proc[q].step, local, db.of)
  /\ proc[p].step # "vacuum" => Safe(proc[p].file, local, db.of)
Upgrades ==
  steady /\ Keep > 1 =>
    \A p \in Procs : \A q \in Procs \ {p} :
      proc[p].op = "open" /\ Pending /\ proc[p].step \in Past => Upgrading(p, q)

LEMMA SameNames ==
  ASSUME NEW w \in Files, NEW v \in Files, Name(v) = Name(w)
  PROVE  v.kind = w.kind /\ v.stamp = w.stamp
BY DEF Name

\* Retention keeps a file that fewer than its number are newer than.
LEMMA NewestIsKept ==
  ASSUME NEW dir, NEW S, NEW g \in dir, NEW n \in Nat, n > 0, \A h \in S : ~Before(g, h)
  PROVE  g \in KeepNewest(dir, S, n)
<1>1. {h \in S : Before(g, h)} = {}
  OBVIOUS
<1>2. Cardinality({h \in S : Before(g, h)}) = 0
  BY <1>1, FS_EmptySet
<1> QED BY <1>2 DEF KeepNewest

LEMMA NextNewestIsKept ==
  ASSUME NEW dir, NEW S, NEW g \in dir, NEW n \in Nat, n > 1,
         \A h, k \in S : Before(g, h) /\ Before(g, k) => h = k
  PROVE  g \in KeepNewest(dir, S, n)
<1> DEFINE above == {h \in S : Before(g, h)}
<1>1. Cardinality(above) \in {0, 1}
  <2>1. CASE above = {}
    BY <2>1, FS_EmptySet
  <2>2. ASSUME NEW h \in above PROVE Cardinality(above) = 1
    <3>1. above = {h}
      BY <2>2
    <3> HIDE DEF above
    <3> QED BY <3>1, FS_Singleton
  <2> QED BY <2>1, <2>2
<1> QED BY <1>1 DEF KeepNewest

\* The upgrade's own retention counts only files as old as its own or older.
LEMMA PruningOwn ==
  ASSUME NEW dir \in SUBSET Files, NEW w \in Files, NEW of, Order(w, dir), Safe(w, dir, of)
  PROVE  /\ Safe(w, PrunePreMigration(dir), of)
         /\ \A f \in dir : f.kind = "scheduled" => f \in PrunePreMigration(dir)
<1>1. PRE_MIGRATION_KEEP \in Nat /\ PRE_MIGRATION_KEEP > 0
  BY BackupAssumption
<1>2. ASSUME NEW g \in dir, Name(g) = Name(w) PROVE g \in PrunePreMigration(dir)
  <2>1. g.kind = "premigration" /\ g.stamp = w.stamp
    BY <1>2, SameNames DEF Order
  <2>2. \A h \in PreMigrations(dir) : h.stamp <= w.stamp /\ h.kind = g.kind /\ h.stamp \in Nat
    BY <2>1 DEF Order, PreMigrations, Snapshots, Files
  <2>3. \A h \in PreMigrations(dir) : ~Before(g, h)
    <3> SUFFICES ASSUME NEW h \in PreMigrations(dir) PROVE ~Before(g, h)
      OBVIOUS
    <3>1. Rank(h) = Rank(g) /\ Rank(g) \in Nat
      BY <2>1, <2>2 DEF Rank
    <3>2. w.stamp \in Nat
      BY DEF Files
    <3> QED BY <2>1, <2>2, <3>1, <3>2 DEF Before
  <2> QED BY <1>1, <2>3, NewestIsKept DEF PrunePreMigration
<1>3. ASSUME NEW f \in dir, f.kind = "scheduled" PROVE f \in PrunePreMigration(dir)
  BY <1>3 DEF PrunePreMigration, KeepNewest, PreMigrations
<1> QED BY <1>2, <1>3 DEF Safe

\* A backup command's retention keeps two snapshots or more: the newest
\* scheduled one, when it is newer than the upgrade's, or the upgrade's, which a
\* safety copy of the same second may stand before.
LEMMA PruningBeside ==
  ASSUME NEW dir \in SUBSET Files, NEW w \in Files, NEW f \in Files, NEW of,
         Keep > 1, Distinct(dir), f.kind = "scheduled",
         Order(w, dir), Beside(w, f, "prune", dir, of), Safe(w, dir, of)
  PROVE  Safe(w, PruneIn(dir), of)
<1>1. AtLeastOne(Keep) \in Nat /\ AtLeastOne(Keep) > 1
  BY BackupAssumption DEF AtLeastOne
<1>2. /\ w.stamp \in Nat /\ f.stamp \in Nat /\ Snapshots(dir) \subseteq dir
      /\ \A h \in dir : h.stamp \in Nat /\ h.kind \in Kinds
  BY DEF Files, Snapshots
<1>3. CASE f.stamp > w.stamp
  <2>1. /\ f.of = of /\ f \in dir /\ f.state = "whole"
        /\ \A h \in Snapshots(dir) : h.stamp <= f.stamp
    BY <1>3 DEF Beside
  <2>2. \A h \in Snapshots(dir) : ~Before(f, h)
    <3> SUFFICES ASSUME NEW h \in Snapshots(dir), Before(f, h) PROVE FALSE
      OBVIOUS
    <3>1. h.stamp = f.stamp /\ Rank(f) < Rank(h)
      BY <1>2, <2>1 DEF Before
    <3>2. Rank(f) = 0 /\ h.kind # "scheduled"
      BY <3>1 DEF Rank
    <3> QED BY <1>2, <1>3, <3>1, <3>2 DEF Order
  <2>3. f \in PruneIn(dir)
    BY <1>1, <2>1, <2>2, NewestIsKept DEF PruneIn
  <2> QED BY <1>3, <2>1, <2>3 DEF Safe
<1>4. CASE ~(f.stamp > w.stamp)
  <2>1. \A h \in Snapshots(dir) : h.stamp <= w.stamp
    BY <1>2, <1>4 DEF Beside
  <2>2. PICK g \in dir : Name(g) = Name(w) /\ g.state = "whole" /\ g.of = of
    BY <1>2, <2>1 DEF Safe, Snapshots
  <2>3. g.kind = "premigration" /\ g.stamp = w.stamp
    BY <2>2, SameNames DEF Order
  <2>4. ASSUME NEW h \in Snapshots(dir), Before(g, h) PROVE Name(h) = <<"prerestore", w.stamp>>
    <3>1. h.stamp = w.stamp /\ Rank(g) < Rank(h)
      BY <1>2, <2>1, <2>3, <2>4 DEF Before
    <3>2. h.kind = "prerestore"
      BY <1>2, <2>3, <3>1 DEF Rank, Kinds, Snapshots
    <3> QED BY <3>1, <3>2 DEF Name
  <2>5. \A h, k \in Snapshots(dir) : Before(g, h) /\ Before(g, k) => h = k
    BY <1>2, <2>4 DEF Distinct
  <2>6. g \in PruneIn(dir)
    BY <1>1, <2>5, NextNewestIsKept DEF PruneIn
  <2> QED BY <2>2, <2>6 DEF Safe
<1> QED BY <1>3, <1>4

\* Whatever becomes of a backup command's unfinished file, w is as safe.
LEMMA UnfinishedIsNotNeeded ==
  ASSUME NEW dir \in SUBSET Files, NEW rest, NEW w \in Files, NEW f \in Files, NEW of,
         f.kind = "scheduled", Order(w, dir), Beside(w, f, "vacuum", dir, of), Safe(w, dir, of),
         \A h \in dir : Name(h) # Name(f) => h \in rest
  PROVE  Safe(w, rest, of)
<1>1. CASE \E g \in dir : Name(g) = Name(w) /\ g.state = "whole" /\ g.of = of
  <2>1. PICK g \in dir : Name(g) = Name(w) /\ g.state = "whole" /\ g.of = of
    BY <1>1
  <2>2. Name(g) # Name(f)
    BY <2>1 DEF Order, Name
  <2> QED BY <2>1, <2>2 DEF Safe
<1>2. CASE \E g \in dir : g.kind = "scheduled" /\ g.stamp > w.stamp /\ g.state = "whole" /\ g.of = of
  <2>1. PICK g \in dir : g.kind = "scheduled" /\ g.stamp > w.stamp /\ g.state = "whole" /\ g.of = of
    BY <1>2
  <2>2. Name(g) # Name(f)
    <3> SUFFICES ASSUME Name(g) = Name(f) PROVE FALSE
      OBVIOUS
    <3>1. g.stamp = f.stamp
      BY DEF Name
    <3> QED BY <2>1, <3>1 DEF Beside
  <2> QED BY <2>1, <2>2 DEF Safe
<1> QED BY <1>1, <1>2 DEF Safe

\* A backup command begins, finishes or gives up its file beside an upgrade.
LEMMA BegunBeside ==
  ASSUME NEW dir \in SUBSET Files, NEW w \in Files, NEW n \in Files, NEW of,
         n.kind = "scheduled", n.state # "whole", n.of = of, \A h \in dir : h.stamp <= n.stamp,
         \A h \in dir : Name(h) # Name(n), Order(w, dir)
  PROVE  /\ Order(w, dir \cup {n}) /\ Beside(w, n, "vacuum", dir \cup {n}, of)
         /\ Safe(w, dir, of) => Safe(w, dir \cup {n}, of)
<1>1. \A h \in dir \cup {n} : h.stamp <= n.stamp /\ h.stamp \in Nat /\ w.stamp \in Nat
  BY DEF Files
<1>2. Snapshots(dir \cup {n}) \subseteq dir \cup {n}
  BY DEF Snapshots
<1>3. Order(w, dir \cup {n})
  BY DEF Order, Snapshots
<1>4. Beside(w, n, "vacuum", dir \cup {n}, of)
  <2>1. \A h \in Snapshots(dir \cup {n}) : h.stamp <= n.stamp /\ h.stamp \in Nat
    BY <1>1, <1>2
  <2>2. n.stamp <= w.stamp => \A h \in Snapshots(dir \cup {n}) : h.stamp <= w.stamp
    BY <1>1, <2>1
  <2>3. \A h \in dir \cup {n} : Name(h) = Name(n) => h.state # "whole"
    OBVIOUS
  <2> QED BY <2>1, <2>2, <2>3 DEF Beside
<1> QED BY <1>3, <1>4 DEF Safe

LEMMA FinishedBeside ==
  ASSUME NEW dir \in SUBSET Files, NEW w \in Files, NEW f \in Files, NEW g \in Files, NEW of,
         f.kind = "scheduled", g.kind = f.kind, g.stamp = f.stamp, g.of = f.of, g.state = "whole",
         Order(w, dir), Beside(w, f, "vacuum", dir, of)
  PROVE  Order(w, Replaced(dir, g)) /\ Beside(w, g, "prune", Replaced(dir, g), of)
<1>1. Snapshots(Replaced(dir, g)) \subseteq Snapshots(dir) \cup {g} /\ g \in Replaced(dir, g)
  BY DEF Snapshots, Replaced
<1>2. g.stamp \in Nat /\ w.stamp \in Nat
  BY DEF Files
<1>3. Order(w, Replaced(dir, g))
  BY <1>1 DEF Order
<1>4. Beside(w, g, "prune", Replaced(dir, g), of)
  BY <1>1, <1>2 DEF Beside
<1> QED BY <1>3, <1>4

LEMMA FewerInOrder ==
  ASSUME NEW dir, NEW rest, NEW w, Order(w, dir),
         \A h \in rest : h \in dir \/ h.kind = "scheduled"
  PROVE  Order(w, rest)
BY DEF Order, Snapshots

\* The upgrade's own file, begun and finished.
LEMMA BegunUpgrade ==
  ASSUME NEW dir \in SUBSET Files, NEW w \in Files, NEW f \in Files, NEW s, NEW of,
         w.kind = "premigration", \A h \in dir : h.stamp <= w.stamp,
         s \in {"vacuum", "prune"} => f.stamp <= w.stamp
  PROVE  Order(w, dir \cup {w}) /\ Beside(w, f, s, dir \cup {w}, of)
<1>1. Snapshots(dir \cup {w}) \subseteq dir \cup {w} /\ w.stamp \in Nat /\ f.stamp \in Nat
  BY DEF Snapshots, Files
<1>2. \A h \in Snapshots(dir \cup {w}) : h.stamp <= w.stamp
  BY <1>1
<1>3. s \in {"vacuum", "prune"} => ~(f.stamp > w.stamp)
  BY <1>1
<1>4. Beside(w, f, s, dir \cup {w}, of)
  BY <1>2, <1>3 DEF Beside
<1> QED BY <1>2, <1>4 DEF Order

LEMMA FinishedUpgrade ==
  ASSUME NEW dir \in SUBSET Files, NEW w \in Files, NEW g \in Files, NEW f \in Files, NEW s, NEW of,
         Name(g) = Name(w), g.of = of, g.state = "whole",
         s \in {"vacuum", "prune"} => f.kind = "scheduled",
         Order(w, dir), Beside(w, f, s, dir, of)
  PROVE  /\ Order(g, Replaced(dir, g)) /\ Beside(g, f, s, Replaced(dir, g), of)
         /\ Safe(g, Replaced(dir, g), of)
<1>1. g.kind = "premigration" /\ w.kind = "premigration" /\ g.stamp = w.stamp
  BY SameNames DEF Order
<1>2. /\ Snapshots(Replaced(dir, g)) \subseteq Snapshots(dir) \cup {g} /\ g \in Replaced(dir, g)
      /\ \A h \in dir : Name(h) # Name(g) => h \in Replaced(dir, g)
      /\ Replaced(dir, g) \subseteq dir \cup {g}
  BY DEF Snapshots, Replaced
<1>3. g.stamp \in Nat /\ f.stamp \in Nat
  BY DEF Files
<1>4. Order(g, Replaced(dir, g))
  BY <1>1, <1>2, <1>3 DEF Order
<1>5. Safe(g, Replaced(dir, g), of)
  BY <1>2 DEF Safe
<1>6. s \in {"vacuum", "prune"} => Name(f) # Name(g)
  BY <1>1 DEF Name
<1>7. Beside(g, f, s, Replaced(dir, g), of)
  <2> SUFFICES ASSUME s \in {"vacuum", "prune"} PROVE Beside(g, f, s, Replaced(dir, g), of)
    BY DEF Beside
  <2>1. CASE f.stamp <= w.stamp
    BY <1>1, <1>2, <1>3, <2>1 DEF Beside
  <2>2. CASE f.stamp > w.stamp
    <3>1. /\ f.of = of /\ \A h \in Snapshots(dir) : h.stamp <= f.stamp
          /\ s = "vacuum" => \A h \in dir : Name(h) = Name(f) => h.state # "whole"
          /\ s = "prune" => f \in dir /\ f.state = "whole"
      BY <2>2 DEF Beside
    <3>2. \A h \in Snapshots(Replaced(dir, g)) : h.stamp <= f.stamp
      BY <1>1, <1>2, <1>3, <2>2, <3>1
    <3>3. s = "vacuum" => \A h \in Replaced(dir, g) : Name(h) = Name(f) => h.state # "whole"
      BY <1>2, <1>6, <3>1
    <3>4. s = "prune" => f \in Replaced(dir, g)
      BY <1>2, <1>6, <3>1
    <3> QED BY <1>1, <1>3, <2>2, <3>1, <3>2, <3>3, <3>4 DEF Beside
  <2> QED BY <1>1, <1>3, <2>1, <2>2
<1> QED BY <1>4, <1>5, <1>7

\* Only the name of the upgrade's file matters to the rest of backups/.
LEMMA OnlyItsName ==
  ASSUME NEW w \in Files, NEW v \in Files, Name(v) = Name(w), NEW f, NEW s, NEW dir, NEW of
  PROVE  /\ Order(w, dir) => Order(v, dir)
         /\ Beside(w, f, s, dir, of) => Beside(v, f, s, dir, of)
         /\ Safe(w, dir, of) => Safe(v, dir, of)
<1>1. v.kind = w.kind /\ v.stamp = w.stamp
  BY SameNames
<1> QED BY <1>1 DEF Order, Beside, Safe

\* The process that opens.
LEMMA OpeningGoesOn ==
  ASSUME Sound, Locking, Locked, Dated, Upgrades, [Next]_vars, steady', Keep > 1,
         NEW p \in Procs, NEW q \in Procs \ {p}, proc[p].op = "open", Pending, OwnStep(p),
         db' = db, proc'[p].op = "open", proc'[p].step \in Past
  PROVE  Upgrading(p, q)'
<1>1. /\ BackupsTypeOK /\ steady /\ InCourse(p, proc[p])
      /\ local \in SUBSET Files /\ proc[p].file \in Files /\ proc[q].file \in Files
  BY WorldSteps DEF Sound, World, BackupsTypeOK, Course
<1>2. /\ proc[q].step \in {"vacuum", "prune"} => proc[q].file.kind = "scheduled"
      /\ proc[p].step \in Past => Upgrading(p, q)
  BY <1>1, OnlyABackupBeside DEF Upgrades
<1>3. proc'[q] = proc[q]
  BY OpMoves DEF Others, Alone
<1>4. CASE SnapshotStep(p)
  <2>1. CASE TakeSnapshot(p) /\ Holds(p, "vacuum", NewSnapshot(p))
    <3> DEFINE n == NewSnapshot(p)
    <3>1. n \in Files /\ n.of = db.of /\ n.stamp = clock /\ n.kind = "premigration"
      BY <1>1, NewSnapshotFields DEF KindTaken
    <3> HIDE DEF n
    <3>2. /\ \A h \in local : h.stamp <= n.stamp
          /\ proc[q].step \in {"vacuum", "prune"} => proc[q].file.stamp <= n.stamp
      BY <1>1, <3>1 DEF Dated
    <3>3. Order(n, local \cup {n}) /\ Beside(n, proc[q].file, proc[q].step, local \cup {n}, db.of)
      BY <1>1, <3>1, <3>2, BegunUpgrade
    <3>4. local' = local \cup {n} /\ proc'[p].file = n /\ proc'[p].step = "vacuum"
      BY <2>1 DEF TakeSnapshot, Holds, n
    <3> QED BY <1>3, <3>1, <3>3, <3>4 DEF Upgrading
  <2>2. ASSUME NEW g, SnapshotTaken(p), Writes(p, g), g.state = "whole", local' = Replaced(local, g),
               Holds(p, "prune", g)
        PROVE  Upgrading(p, q)'
    <3>1. proc[p].step = "vacuum" /\ g \in Files /\ Name(g) = Name(proc[p].file) /\ g.of = proc[p].file.of
      BY <2>2 DEF Writes
    <3>2. /\ g.of = db.of /\ Order(proc[p].file, local)
          /\ Beside(proc[p].file, proc[q].file, proc[q].step, local, db.of)
      BY <1>2, <3>1 DEF Past, Upgrading
    <3>3. /\ Order(g, Replaced(local, g)) /\ Beside(g, proc[q].file, proc[q].step, Replaced(local, g), db.of)
          /\ Safe(g, Replaced(local, g), db.of)
      BY <1>1, <1>2, <2>2, <3>1, <3>2, FinishedUpgrade
    <3>4. proc'[p].file = g /\ proc'[p].step = "prune"
      BY <2>2 DEF Holds
    <3> QED BY <1>3, <2>2, <3>3, <3>4 DEF Upgrading
  <2>3. CASE Prune(p) /\ (Stays(p, "migrate") \/ Stays(p, "copy"))
    <3>1. proc[p].step = "prune" /\ local' = PrunePreMigration(local)
      BY <2>3 DEF Prune
    <3> DEFINE w == proc[p].file  dir == PrunePreMigration(local)
    <3>2. /\ Order(w, local) /\ Safe(w, local, db.of)
          /\ Beside(w, proc[q].file, proc[q].step, local, db.of)
      BY <1>2, <3>1 DEF Past, Upgrading
    <3>3. /\ Safe(w, dir, db.of) /\ dir \subseteq local
          /\ \A f \in local : f.kind = "scheduled" => f \in dir
      BY <1>1, <3>2, PruningOwn, PruningRemoves
    <3> HIDE DEF dir
    <3>4. Order(w, dir) /\ Snapshots(dir) \subseteq Snapshots(local)
      BY <3>2, <3>3 DEF Order, Snapshots
    <3>5. Beside(w, proc[q].file, proc[q].step, dir, db.of)
      BY <1>2, <3>2, <3>3, <3>4 DEF Beside
    <3>6. proc'[p].file = w /\ proc'[p].step \in {"migrate", "copy"}
      BY <2>3 DEF Stays, Holds
    <3>7. local' = dir
      BY <3>1 DEF dir
    <3> HIDE DEF w
    <3> QED BY <1>3, <3>3, <3>4, <3>5, <3>6, <3>7 DEF Upgrading
  <2>4. proc'[p].step # "wait" /\ proc'[p].op # "none"
    BY DEF Past
  <2> QED BY <1>1, <1>4, <2>1, <2>2, <2>3, <2>4, SnapshotEffects DEF Rests, Stays, Holds
<1>5. CASE CopyStep(p)
  <2>1. local' = local /\ proc[p].step \in Past \ {"vacuum"}
    BY <1>5 DEF CopyStep, CopyBegins, CopyRefused, FinishRetention, CopyVerified, CopyFails,
                PruneCopies, disk, files, At, Past
  <2>2. /\ Order(proc[p].file, local) /\ Safe(proc[p].file, local, db.of)
        /\ Beside(proc[p].file, proc[q].file, proc[q].step, local, db.of)
    BY <1>2, <2>1 DEF Upgrading
  <2>3. proc'[p].file \in Files /\ Name(proc'[p].file) = Name(proc[p].file) /\ proc'[p].step # "vacuum"
    <3>1. CASE proc'[p].file = proc[p].file /\ proc'[p].step # "vacuum"
      BY <1>1, <3>1
    <3>2. ASSUME NEW f \in ToCopy(p), Holds(p, "copying", f)
          PROVE  proc'[p].file \in Files /\ Name(proc'[p].file) = Name(proc[p].file)
                 /\ proc'[p].step # "vacuum"
      BY <1>1, <3>2 DEF ToCopy, Named, Holds
    <3> QED BY <1>5, <3>1, <3>2, CopyEffects DEF Rests, Holds, Stays
  <2>4. /\ Order(proc'[p].file, local) /\ Safe(proc'[p].file, local, db.of)
        /\ Beside(proc'[p].file, proc[q].file, proc[q].step, local, db.of)
    BY <1>1, <2>2, <2>3, OnlyItsName
  <2> QED BY <1>3, <2>1, <2>3, <2>4 DEF Upgrading
<1>6. CASE OpenStep(p) \/ RestoreStep(p) \/ Crash(p)
  <2>1. proc'[p].op # "open"
    <3>1. ~SetAsideRaw(p) /\ ~Replace(p) /\ ~ReplaceDone(p)
      BY DEF SetAsideRaw, Replace, ReplaceDone, At
    <3> QED BY <1>1, <1>6, <3>1, OpenEffects DEF Rests
  <2> QED BY <2>1
<1> QED BY <1>4, <1>5, <1>6 DEF OwnStep

\* A backup command beside it.
LEMMA BackupBeside ==
  ASSUME Sound, Locking, Locked, Dated, Upgrades, [Next]_vars, steady', Keep > 1,
         NEW p \in Procs, NEW q \in Procs \ {p}, proc[p].op = "open", Pending, OwnStep(q),
         proc[p].step \in Past, proc'[p] = proc[p], db' = db
  PROVE  Upgrading(p, q)'
<1>1. /\ BackupsTypeOK /\ steady /\ InCourse(q, proc[q]) /\ Distinct(local)
      /\ local \in SUBSET Files /\ proc[p].file \in Files /\ proc[q].file \in Files
  BY WorldSteps DEF Sound, World, BackupsTypeOK, Course, Listed
<1>2. /\ Upgrading(p, q) /\ proc[q].op \in {"none", "backup"}
      /\ proc[q].op = "none" => proc[q].step = "rest"
      /\ proc[q].step \in {"vacuum", "prune"} => proc[q].file.kind = "scheduled"
  BY <1>1, OnlyABackupBeside DEF Upgrades
<1> DEFINE w == proc[p].file  f == proc[q].file
<1>3. /\ proc[p].step = "vacuum" => w.of = db.of
      /\ Order(w, local) /\ Beside(w, f, proc[q].step, local, db.of)
      /\ proc[p].step # "vacuum" => Safe(w, local, db.of)
  BY <1>2 DEF Upgrading
<1>4. ASSUME Order(w, local'), proc'[q].step \notin {"vacuum", "prune"},
             proc[p].step # "vacuum" => Safe(w, local', db.of)
      PROVE  Upgrading(p, q)'
  BY <1>3, <1>4 DEF Upgrading, Beside
<1>5. ASSUME \A h \in local : Name(h) # Name(f) => h \in local', proc[q].step = "vacuum",
             proc[p].step # "vacuum"
      PROVE  Safe(w, local', db.of)
  BY <1>1, <1>2, <1>3, <1>5, UnfinishedIsNotNeeded
<1>6. CASE SnapshotStep(q)
  <2>1. CASE TakeSnapshot(q) /\ Holds(q, "vacuum", NewSnapshot(q))
    <3> DEFINE n == NewSnapshot(q)
    <3>1. /\ n \in Files /\ n.of = db.of /\ n.stamp = clock /\ n.kind = "scheduled" /\ n.state # "whole"
      BY <1>1, <1>2, NewSnapshotFields DEF KindTaken
    <3>2. /\ \A h \in local : Name(h) # Name(n)
          /\ local' = local \cup {n} /\ proc'[q].file = n /\ proc'[q].step = "vacuum"
      BY <2>1 DEF TakeSnapshot, NameTaken, Named, Holds
    <3> HIDE DEF n
    <3>3. \A h \in local : h.stamp <= n.stamp
      BY <1>1, <3>1 DEF Dated
    <3>4. /\ Order(w, local \cup {n}) /\ Beside(w, n, "vacuum", local \cup {n}, db.of)
          /\ Safe(w, local, db.of) => Safe(w, local \cup {n}, db.of)
      BY <1>1, <1>3, <3>1, <3>2, <3>3, BegunBeside
    <3> QED BY <1>3, <3>2, <3>4 DEF Upgrading
  <2>2. CASE WaitForTheNextSecond(q) /\ Stays(q, "wait")
    <3>1. local' = local /\ proc'[q].step = "wait"
      BY <2>2 DEF WaitForTheNextSecond, disk, Stays, Holds
    <3> QED BY <1>3, <1>4, <3>1
  <2>3. CASE (SnapshotRefused(q) \/ VacuumFails(q) \/ ValidationFails(q)) /\ Rests(q)
    <3>1. CASE SnapshotRefused(q)
      <4>1. local' = local /\ proc'[q].step = "rest"
        BY <2>3, <3>1 DEF SnapshotRefused, disk, Rests
      <4> QED BY <1>3, <1>4, <4>1
    <3>2. CASE VacuumFails(q) \/ ValidationFails(q)
      <4>1. proc[q].step = "vacuum" /\ proc'[q].step = "rest"
        BY <2>3, <3>2 DEF VacuumFails, ValidationFails, Rests
      <4>2. (\A h \in local : Name(h) # Name(f) => h \in local')
            /\ \A h \in local' : h \in local \/ h.kind = "scheduled"
        <5>1. CASE VacuumFails(q)
          BY <1>1, <1>2, <4>1, <5>1, HalfWritten DEF VacuumFails, Writes, Replaced
        <5>2. CASE ValidationFails(q)
          BY <5>2 DEF ValidationFails, Named
        <5> QED BY <3>2, <5>1, <5>2
      <4> QED BY <1>3, <1>4, <1>5, <4>1, <4>2, FewerInOrder
    <3> QED BY <2>3, <3>1, <3>2
  <2>4. ASSUME NEW g, SnapshotTaken(q), Writes(q, g), g.state = "whole", local' = Replaced(local, g),
               Holds(q, "prune", g)
        PROVE  Upgrading(p, q)'
    <3>1. /\ proc[q].step = "vacuum" /\ g \in Files /\ Name(g) = Name(f) /\ f.kind = "scheduled"
          /\ g.kind = f.kind /\ g.stamp = f.stamp /\ g.of = f.of
          /\ proc'[q].file = g /\ proc'[q].step = "prune"
      BY <1>2, <2>4 DEF Writes, Holds
    <3>2. Order(w, local') /\ Beside(w, g, "prune", local', db.of)
      BY <1>1, <1>3, <2>4, <3>1, FinishedBeside
    <3>3. proc[p].step # "vacuum" => Safe(w, local', db.of)
      BY <1>5, <2>4, <3>1 DEF Replaced
    <3> QED BY <1>3, <3>1, <3>2, <3>3 DEF Upgrading
  <2>5. CASE Prune(q) /\ Stays(q, "copy")
    <3>1. /\ proc[q].step = "prune" /\ proc'[q].step = "copy" /\ local' = PruneIn(local)
          /\ PruneIn(local) \subseteq local
      BY <1>2, <2>5, PruningRemoves DEF Prune, Stays, Holds
    <3>2. proc[p].step # "vacuum" => Safe(w, local', db.of)
      BY <1>1, <1>2, <1>3, <3>1, PruningBeside
    <3> QED BY <1>3, <1>4, <3>1, <3>2, FewerInOrder
  <2> QED BY <1>1, <1>2, <1>6, <2>1, <2>2, <2>3, <2>4, <2>5, SnapshotEffects
<1>7. CASE CopyStep(q)
  <2>1. local' = local
    BY <1>7 DEF CopyStep, CopyBegins, CopyRefused, FinishRetention, CopyVerified, CopyFails,
                PruneCopies, disk, files
  <2>2. proc'[q].step \notin {"vacuum", "prune"}
    BY <1>7, CopyEffects DEF Rests, Holds, Stays
  <2> QED BY <1>3, <1>4, <2>1, <2>2
<1>8. CASE Crash(q)
  <2>1. proc'[q].step = "rest"
    BY <1>1, <1>8, EndsMoves DEF Crash, BackupsTypeOK, Slots
  <2>2. CASE local' = local
    BY <1>3, <1>4, <2>1, <2>2
  <2>3. CASE proc[q].step = "vacuum" /\ LeftHalfWritten(q)
    <3>1. (\A h \in local : Name(h) # Name(f) => h \in local')
          /\ \A h \in local' : h \in local \/ h.kind = "scheduled"
      BY <1>1, <1>2, <2>3, HalfWritten DEF Writes, Replaced
    <3> QED BY <1>3, <1>4, <1>5, <2>1, <2>3, <3>1, FewerInOrder
  <2> QED BY <1>8, <2>2, <2>3 DEF Crash
<1>9. ~OpenStep(q) /\ ~RestoreStep(q)
  BY <1>2 DEF OpenStep, Migrate, OpenRefused, CreateDatabase, RestoreStep, SetAsideRaw, Replace,
              ReplaceFails, ReplaceDone, Reopen, ReopenRefused, At
<1> QED BY <1>6, <1>7, <1>8, <1>9 DEF OwnStep

LEMMA UpgradesKept ==
  ASSUME Sound, Locking, Locked, Dated, Upgrades, [Next]_vars
  PROVE  Upgrades'
<1> SUFFICES ASSUME steady', Keep > 1, NEW p \in Procs, NEW q \in Procs \ {p},
                    proc'[p].op = "open", Pending', proc'[p].step \in Past
             PROVE  Upgrading(p, q)'
  BY DEF Upgrades
<1>1. BackupsTypeOK /\ steady /\ {"server", "command"} \subseteq Procs
  BY WorldSteps DEF Sound, World, Procs
<1>2. proc[p].op = "open" /\ Pending
  BY PendingWas DEF Past
<1>3. lock = p /\ proc[q].op \in {"none", "backup"}
  BY <1>2, OnlyABackupBeside
<1>4. ~Commit /\ ~SchedulerTick /\ ~StartServer /\ ~OpenByCommand /\ ~StartRestore
      /\ ~InstallBuild /\ ~ClockSetBack
  <2>1. lock # NoProc /\ proc["server"].op # "serve"
    BY <1>2, <1>3 DEF Procs, NoProc
  <2>2. MigrationPending
    BY <1>2 DEF Pending, MigrationPending
  <2> QED BY <1>2, <2>1, <2>2
          DEF Commit, Serving, SchedulerTick, At, StartServer, OpenByCommand, StartRestore,
              InstallBuild, ClockSetBack
<1>5. db' = db
  <2>1. \A r \in Procs : /\ ~SetAsideRaw(r) /\ ~Replace(r) /\ ~ReplaceDone(r) /\ ~Reopen(r)
                         /\ ~CreateDatabase(r)
    BY <1>2, <1>3 DEF SetAsideRaw, Replace, ReplaceDone, Reopen, CreateDatabase, At, Pending, Procs
  <2>2. ASSUME NEW r \in Procs, Migrate(r) PROVE FALSE
    <3>1. r = p
      BY <1>3, <2>2 DEF Migrate, At, Procs
    <3> QED BY <1>1, <2>2, <3>1, OpenEffects DEF OpenStep, Rests, Migrate, OpenRefused, ReplaceFails,
            ReopenRefused, Crash, SetAsideRaw, Replace, ReplaceDone, Reopen, At
  <2> QED BY <1>4, <2>1, <2>2, OnlyDbSteps DEF DbStep
<1>6. CASE OwnStep(p)
  BY <1>2, <1>5, <1>6, OpeningGoesOn
<1>7. CASE OwnStep(q)
  <2>1. proc'[p] = proc[p]
    BY <1>7, OpMoves DEF Others, Alone
  <2> QED BY <1>2, <1>5, <1>7, <2>1, BackupBeside
<1>8. CASE StartBackup \/ TimePasses \/ UNCHANGED vars
  <2>1. local' = local /\ proc'[p] = proc[p]
        /\ (proc'[q] = proc[q] \/ proc'[q].step = "take")
    <3>1. CASE StartBackup
      <4>1. p # "command" /\ q = "command"
        BY <1>2, <3>1 DEF StartBackup, CommandStarts, Procs
      <4> QED BY <1>1, <3>1, <4>1, StartEffects DEF StartBackup, disk, Others, Alone
    <3>2. CASE TimePasses \/ UNCHANGED vars
      BY <3>2 DEF TimePasses, disk, vars
    <3> QED BY <1>8, <3>1, <3>2
  <2>2. Upgrading(p, q)
    BY <1>1, <1>2, <2>1 DEF Upgrades
  <2> QED BY <1>5, <2>1, <2>2 DEF Upgrading, Beside
<1>9. \A r \in Procs : r = p \/ r = q
  BY DEF Procs
<1> QED BY <1>4, <1>6, <1>7, <1>8, <1>9 DEF Next, OwnStep

\* Only migrating and reopening raise a database's schema.
LEMMA OnlyUpgradesRaise ==
  ASSUME Sound, Locking, SourceKept, Upgrades, [Next]_vars, steady, Keep > 1, Whole,
         db'.state = "whole", db'.of.inst = db.of.inst, db'.of.schema > db.of.schema
  PROVE  \E f \in local \cup copies : f.state = "whole" /\ f.of = db.of
<1>1. BackupsTypeOK /\ db.of.schema \in Nat /\ db.of.inst \in 1..identities /\ identities \in Nat
      /\ build \in Nat
  BY BackupAssumption DEF Sound, BackupsTypeOK, Contents
<1>2. CASE db' = db
  BY <1>1, <1>2
<1>3. CASE Commit
  <2>1. db'.of.schema = db.of.schema
    BY <1>1, <1>3 DEF Commit, BackupsTypeOK, Contents
  <2> QED BY <1>1, <2>1
<1>4. ASSUME NEW p \in Procs, Migrate(p)
      PROVE  \E f \in local \cup copies : f.state = "whole" /\ f.of = db.of
  <2>1. db'.of.schema = build /\ At(p, "open", "migrate")
    BY <1>1, <1>4 DEF Migrate, BackupsTypeOK, Contents
  <2>2. Pending
    BY <2>1 DEF Pending
  <2>3. \E q \in Procs \ {p} : TRUE
    BY DEF Procs
  <2>4. Safe(proc[p].file, local, db.of)
    BY <2>1, <2>2, <2>3 DEF Upgrades, Upgrading, Past, At
  <2> QED BY <2>4 DEF Safe
<1>5. ASSUME NEW p \in Procs, CreateDatabase(p) \/ SetAsideRaw(p) \/ Replace(p) PROVE FALSE
  BY <1>1, <1>5 DEF CreateDatabase, SetAsideRaw, Replace, BackupsTypeOK
<1>6. ASSUME NEW p \in Procs, ReplaceDone(p) \/ Reopen(p)
      PROVE  \E f \in local \cup copies : f.state = "whole" /\ f.of = db.of
  <2>1. p = "command" /\ proc["command"].op = "restore"
    BY <1>6 DEF ReplaceDone, Reopen, At, Sound, Course, InCourse, OpsOf, Procs
  <2>2. At("command", "restore", "reopen")
    BY <1>6, <2>1 DEF ReplaceDone, Reopen, SourceKept
  <2> QED BY <2>1, <2>2 DEF SourceKept
<1> QED BY <1>2, <1>3, <1>4, <1>5, <1>6, OnlyDbSteps DEF DbStep

\* No step migrates a database without a whole file of exactly what it was, at
\* the schema it had (backup.rs:363 "and refuses to migrate without it"),
\* whoever prunes, commits or is killed meanwhile.
THEOREM UpgradesLeaveASnapshot == Spec => UpgradesCanBeUndone
<1> DEFINE IInv == Sound /\ Locking /\ Locked /\ Dated /\ SourceKept /\ Upgrades
           Raises == steady /\ Keep > 1 /\ Whole /\ db'.state = "whole"
                     /\ db'.of.inst = db.of.inst /\ db'.of.schema > db.of.schema
           Undo == Raises => \E f \in local \cup copies : f.state = "whole" /\ f.of = db.of
<1>1. Init => Locking /\ Locked /\ Dated /\ SourceKept /\ Upgrades
  <2> SUFFICES ASSUME Init PROVE Locking /\ Locked /\ Dated /\ SourceKept /\ Upgrades
    OBVIOUS
  <2>1. proc = [p \in Procs |-> Idle] /\ Idle.op = "none" /\ Idle.step = "rest" /\ lock = NoProc
        /\ local = {}
    BY DEF Init, Idle
  <2>2. \A p \in Procs : proc[p].op = "none" /\ proc[p].step = "rest"
    BY <2>1
  <2> QED BY <2>1, <2>2 DEF Locking, Locked, Dated, SourceKept, Upgrades, At, NoProc, Procs
<1>2. IInv /\ [Next]_vars => IInv'
  BY SoundInductive, LockingKept, LockedKept, DatedKept, SourceIsKept, UpgradesKept
<1>3. IInv /\ [Next]_vars => [Undo]_vars
  BY OnlyUpgradesRaise
<1>4. Init => IInv
  BY <1>1, SoundInitially
<1> QED
  <2>1. Spec => [][Undo]_vars
    BY <1>2, <1>3, <1>4, PTL DEF Spec
  <2> QED BY <2>1 DEF UpgradesCanBeUndone
=============================================================================
