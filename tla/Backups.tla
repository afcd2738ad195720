-------------------------------- MODULE Backups --------------------------------
(***************************************************************************)
(* One installation's database, its snapshots and their copies off the     *)
(* server, under the executable's two kinds of process: the server, whose  *)
(* scheduler backs up and copies for as long as it lives, and an operator's *)
(* command (backup, restore, or one that opens the database).  Either can  *)
(* be killed between any two of its steps, a write can fail, the clock  *)
(* can be set back and the executable can be replaced.                     *)
(*                                                                         *)
(* A file is known by its name, a kind and a stamp, and by the database it *)
(* holds: an installation, how much of its work, its schema.  A file still *)
(* being written holds nothing readable; a writer that dies may leave it   *)
(* so, or torn: an installation can be read from it, but not a whole       *)
(* database.  Time is counted in the seconds names carry.                  *)
(***************************************************************************)
EXTENDS Naturals, FiniteSets

CONSTANTS
  Keep,              \* --backup-keep
  PRE_MIGRATION_KEEP,
  Interval,          \* seconds between scheduled backups
  Builds,            \* the schema each executable migrates to
  MaxClock,          \* bound: the last second
  MaxWork,           \* bound: commits by the running server
  MaxCommands,       \* bound: commands the operator starts
  MaxTroubles        \* bound: processes killed, writes failed, shares away, clocks set back

ASSUME BackupAssumption ==
  /\ Builds # {} /\ Builds \subseteq Nat
  /\ {Keep, Interval} \subseteq Nat /\ PRE_MIGRATION_KEEP \in Nat \ {0}
  /\ {MaxClock, MaxWork, MaxCommands, MaxTroubles} \subseteq Nat

VARIABLES
  db,       \* the live database: whole, torn or absent; "of" is what it last was whole
  local,    \* the files in backups/
  copies,   \* the files in the copy directory
  lock,     \* who holds instance/serve.lock
  proc,     \* what each process is doing
  build,    \* the installed executable
  clock,
  identities, \* how many installations have been given an identity
  commands, troubles,
  steady,     \* observer: the clock has not been set back
  overwrote,  \* observer: raw bytes were moved aside over earlier raw bytes
  crossed     \* observer: copies of two installations were in flight together

vars == <<db, local, copies, lock, proc, build, clock, identities,
          commands, troubles, steady, overwrote, crossed>>
bounds == <<commands, troubles, steady>>
observers == <<overwrote, crossed>>

Procs == {"server", "command"}
NoProc == "nobody"
NoOne == 0   \* no installation: identities are numbered from 1
Contents == [inst : Nat, work : Nat, schema : Nat]
Nothing == [inst |-> NoOne, work |-> 0, schema |-> 0]
Kinds == {"scheduled", "premigration", "prerestore", "damaged"}
FileStates == {"whole", "torn", "unreadable"}
Files == [kind : Kinds, stamp : Nat, state : FileStates, of : Contents]
NoFile == [kind |-> "scheduled", stamp |-> 0, state |-> "unreadable", of |-> Nothing]

Ops == {"none", "open", "serve", "backup", "restore", "rebackup"}
Steps == {"rest", "take", "wait", "vacuum", "tick", "prune", "copy", "copying", "pruneCopies",
          "migrate", "aside", "replace", "replacing", "reopen"}
Idle == [op |-> "none", step |-> "rest", file |-> NoFile, source |-> NoFile]

(***************************************************************************)
(* Listings: what a directory's names say.                                 *)
(***************************************************************************)
Name(f) == <<f.kind, f.stamp>>
Named(dir, n) == {f \in dir : Name(f) = n}
Replaced(dir, f) == {g \in dir : Name(g) # Name(f)} \cup {f}

\* By the stamp a name ends with, then by the whole name.
Rank(f) == CASE f.kind = "scheduled" -> 0 [] f.kind = "premigration" -> 1 [] OTHER -> 2
Before(f, g) == f.stamp < g.stamp \/ (f.stamp = g.stamp /\ Rank(f) < Rank(g))
Newest(S) == CHOOSE f \in S : \A g \in S \ {f} : Before(g, f)

Snapshots(dir) == {f \in dir : f.kind # "damaged"}
OwnBackups(dir) == {f \in Snapshots(dir) : f.kind # "prerestore"}
PreMigrations(dir) == {f \in dir : f.kind = "premigration"}

\* What is left of dir once the oldest of S beyond n are deleted.
KeepNewest(dir, S, n) ==
  dir \ {f \in S : Cardinality({g \in S : Before(f, g)}) >= n}
AtLeastOne(n) == IF n = 0 THEN 1 ELSE n
PruneIn(dir) == KeepNewest(dir, Snapshots(dir), AtLeastOne(Keep))
PrunePreMigration(dir) == KeepNewest(dir, PreMigrations(dir), PRE_MIGRATION_KEEP)

\* No snapshot at all means due immediately.
BackupDue == \A f \in OwnBackups(local) : clock >= f.stamp + Interval

\* Whose backups a directory holds: its newest readable backup's, or failing
\* any its newest readable file's of any kind.
Claimant(dir) ==
  LET readable == {f \in Snapshots(dir) : f.state # "unreadable"}
      own == OwnBackups(readable)
  IN  CASE own # {} -> Newest(own).of.inst
        [] own = {} /\ readable # {} -> Newest(readable).of.inst
        [] OTHER -> NoOne
SameInstallationUnchecked(f) == TRUE
SameInstallation(f) ==
  Claimant(copies) # NoOne => f.state # "unreadable" /\ f.of.inst = Claimant(copies)

(***************************************************************************)
(* Moving a process along.                                                 *)
(***************************************************************************)
At(p, op, s) == proc[p].op = op /\ proc[p].step = s
Go(p, s) == proc' = [proc EXCEPT ![p].step = s]
GoWith(p, s, f) == proc' = [proc EXCEPT ![p].step = s, ![p].file = f]
Ends(p) ==
  /\ proc' = [proc EXCEPT ![p] = Idle]
  /\ lock' = IF lock = p THEN NoProc ELSE lock
Continues(p, s) == Go(p, s) /\ UNCHANGED lock

KindTaken(p) ==
  CASE proc[p].op = "open" -> "premigration"
    [] proc[p].op = "restore" -> "prerestore"
    [] OTHER -> "scheduled"

Whole == db.state = "whole"
MigrationPending == Whole /\ db.of.schema < build
Trouble == troubles < MaxTroubles /\ troubles' = troubles + 1 /\ UNCHANGED commands
Fault == Trouble /\ UNCHANGED steady

(***************************************************************************)
(* A snapshot: VACUUM INTO, validation, durability.                        *)
(***************************************************************************)
files == <<local, copies>>
disk == <<db, local, copies, observers>>
world == <<build, clock, identities>>

NewSnapshot(p) ==
  [kind |-> KindTaken(p), stamp |-> clock, state |-> "unreadable", of |-> db.of]
NameTaken(p) == Named(local, Name(NewSnapshot(p))) # {}

TakeSnapshot(p) ==
  /\ proc[p].step \in {"take", "wait"} /\ Whole /\ ~NameTaken(p)
  /\ local' = local \cup {NewSnapshot(p)}
  /\ GoWith(p, "vacuum", NewSnapshot(p))
  /\ UNCHANGED <<db, copies, observers, lock, world, bounds>>

\* One taken within a second of the last waits for the next name, once.
WaitForTheNextSecond(p) ==
  /\ proc[p].step = "take" /\ Whole /\ NameTaken(p)
  /\ clock' = clock + 1
  /\ Go(p, "wait")
  /\ UNCHANGED <<disk, lock, build, identities, bounds>>

\* Where a process goes when its snapshot fails: startup fails closed, the
\* scheduler reports a notice and goes on, a restore moves the raw bytes aside,
\* and a restore whose last backup fails has still restored.
SnapshotGivenUp(p) ==
  CASE proc[p].op = "serve" -> GoWith(p, "copy", NoFile) /\ UNCHANGED lock
    [] proc[p].op = "restore" -> GoWith(p, "aside", NoFile) /\ UNCHANGED lock
    [] OTHER -> Ends(p)

SnapshotRefused(p) ==
  /\ \/ proc[p].step \in {"take", "wait"} /\ ~Whole
     \/ proc[p].step = "wait" /\ Whole /\ NameTaken(p)
     \/ proc[p].step = "vacuum" /\ Named(local, Name(proc[p].file)) = {}
  /\ SnapshotGivenUp(p)
  /\ UNCHANGED <<disk, world, bounds>>

\* What a writer that stops half way leaves of its file.
LeftHalfWritten(p) ==
  \E s \in {"torn", "unreadable"} :
    local' = IF Named(local, Name(proc[p].file)) = {} THEN local
             ELSE Replaced(local, [proc[p].file EXCEPT !.state = s])

VacuumFails(p) ==
  /\ proc[p].step = "vacuum" /\ Fault
  /\ LeftHalfWritten(p)
  /\ SnapshotGivenUp(p)
  /\ UNCHANGED <<db, copies, observers, world>>

\* A snapshot that fails validation must not look like a usable backup.
ValidationFails(p) ==
  /\ proc[p].step = "vacuum" /\ Fault
  /\ local' = local \ Named(local, Name(proc[p].file))
  /\ SnapshotGivenUp(p)
  /\ UNCHANGED <<db, copies, observers, world>>

SnapshotTaken(p) ==
  /\ proc[p].step = "vacuum" /\ Named(local, Name(proc[p].file)) # {}
  /\ LET f == [proc[p].file EXCEPT !.state = "whole"]
     IN  /\ local' = Replaced(local, f)
         /\ CASE proc[p].op = "rebackup" -> Ends(p)
              [] proc[p].op = "restore" -> GoWith(p, "replace", NoFile) /\ UNCHANGED lock
              [] OTHER -> GoWith(p, "prune", f) /\ UNCHANGED lock
  /\ UNCHANGED <<db, copies, observers, world, bounds>>

\* Ordinary retention, or the pre-migration snapshots' own; only the server
\* and the backup command are given a copy directory.
Prune(p) ==
  /\ proc[p].step = "prune"
  /\ local' = IF proc[p].op = "open" THEN PrunePreMigration(local) ELSE PruneIn(local)
  /\ Go(p, IF proc[p].op = "open" /\ p = "command" THEN "migrate" ELSE "copy")
  /\ UNCHANGED <<db, copies, observers, lock, world, bounds>>

(***************************************************************************)
(* A copy off the server: hashed, written under a temporary name, verified *)
(* against the hash, renamed, and the directory pruned.                    *)
(***************************************************************************)
\* The scheduler copies the newest backup, the others the one they took.
ToCopy(p) ==
  IF proc[p].op # "serve" THEN Named(local, Name(proc[p].file))
  ELSE IF OwnBackups(local) = {} THEN {} ELSE {Newest(OwnBackups(local))}

CopyDone(p) ==
  CASE proc[p].op = "serve" -> GoWith(p, "tick", NoFile) /\ UNCHANGED lock
    [] proc[p].op = "open" -> Continues(p, "migrate")
    [] OTHER -> Ends(p)

Copyable(f) == SameInstallation(f) /\ Named(copies, Name(f)) = {}

\* The other process is copying another installation's backup.
Crosses(p, f) ==
  \E q \in Procs \ {p} : proc[q].step = "copying" /\ proc[q].file.of.inst # f.of.inst

CopyBegins(p) ==
  /\ proc[p].step = "copy"
  /\ \E f \in ToCopy(p) :
       /\ Copyable(f)
       /\ GoWith(p, "copying", f)
       /\ crossed' = (crossed \/ Crosses(p, f))
  /\ UNCHANGED <<db, files, overwrote, lock, world, bounds>>

\* Nothing to copy, or refused.  The scheduler tries again at a later tick.
CopyRefused(p) ==
  /\ proc[p].step = "copy"
  /\ \A f \in ToCopy(p) : ~Copyable(f)
  /\ proc[p].op = "serve" => \A f \in ToCopy(p) : Named(copies, Name(f)) = {}
  /\ CopyDone(p)
  /\ UNCHANGED <<disk, world, bounds>>

\* The newest is there already: finish retention, in a directory that is ours.
FinishRetention(p) ==
  /\ At(p, "serve", "copy")
  /\ \E f \in ToCopy(p) :
       /\ Named(copies, Name(f)) # {}
       /\ copies' = IF SameInstallation(f) THEN PruneIn(copies) ELSE copies
  /\ CopyDone(p)
  /\ UNCHANGED <<db, local, observers, world, bounds>>

SourceUnchanged(p) == Named(local, Name(proc[p].file)) = {proc[p].file}

CopyVerified(p) ==
  /\ proc[p].step = "copying" /\ SourceUnchanged(p)
  /\ copies' = Replaced(copies, proc[p].file)
  /\ Go(p, "pruneCopies")
  /\ UNCHANGED <<db, local, observers, lock, world, bounds>>

\* The directory is away or on the snapshot's own disk, a write fails, or the
\* copy does not match what the snapshot was when it was hashed.
CopyFails(p) ==
  /\ \/ proc[p].step = "copying" /\ ~SourceUnchanged(p) /\ UNCHANGED bounds
     \/ proc[p].step \in {"copy", "copying", "pruneCopies"} /\ Fault
  /\ CopyDone(p)
  /\ UNCHANGED <<disk, world>>

PruneCopies(p) ==
  /\ proc[p].step = "pruneCopies"
  /\ copies' = PruneIn(copies)
  /\ CopyDone(p)
  /\ UNCHANGED <<db, local, observers, world, bounds>>

(***************************************************************************)
(* Opening the database: serve, and the commands that open it as serve     *)
(* does.  A pending migration needs the installation to itself and a       *)
(* snapshot first.                                                         *)
(***************************************************************************)
CommandStarts ==
  /\ proc["command"].op = "none" /\ commands < MaxCommands
  /\ commands' = commands + 1
  /\ UNCHANGED <<troubles, steady>>

Opening(p) ==
  proc' = [proc EXCEPT ![p] = [Idle EXCEPT !.op = "open",
             !.step = IF MigrationPending THEN "take" ELSE "migrate"]]

StartServer ==
  /\ proc["server"].op = "none" /\ lock = NoProc
  /\ lock' = "server"
  /\ Opening("server")
  /\ UNCHANGED <<disk, world, bounds>>

OpenByCommandUnlocked ==
  /\ CommandStarts
  /\ UNCHANGED lock
  /\ Opening("command")
  /\ UNCHANGED <<disk, world>>

OpenByCommand ==
  /\ CommandStarts
  /\ MigrationPending => lock = NoProc
  /\ lock' = IF MigrationPending THEN "command" ELSE lock
  /\ Opening("command")
  /\ UNCHANGED <<disk, world>>

Opened(p) ==
  IF p = "server"
  THEN /\ proc' = [proc EXCEPT ![p].op = "serve", ![p].step = "tick", ![p].file = NoFile]
       /\ UNCHANGED lock
  ELSE Ends(p)

Migrate(p) ==
  /\ At(p, "open", "migrate") /\ Whole /\ db.of.schema <= build
  /\ db' = [db EXCEPT !.of.schema = build]
  /\ Opened(p)
  /\ UNCHANGED <<files, observers, world, bounds>>

\* A newer release's database, or one too torn to open.
OpenRefused(p) ==
  /\ At(p, "open", "migrate")
  /\ (Whole /\ db.of.schema > build) \/ db.state = "torn"
  /\ Ends(p)
  /\ UNCHANGED <<disk, world, bounds>>

CreateDatabaseUnidentified(p) ==
  /\ At(p, "open", "migrate") /\ ~Whole
  /\ identities' = identities + 1
  /\ db' = [state |-> "whole", of |-> [inst |-> NoOne, work |-> 0, schema |-> build]]
  /\ Opened(p)
  /\ UNCHANGED <<files, observers, build, clock, bounds>>

\* No database, or an empty file where one was being copied, is a new
\* installation with an identity of its own.
CreateDatabase(p) ==
  /\ At(p, "open", "migrate") /\ ~Whole
  /\ identities' = identities + 1
  /\ db' = [state |-> "whole", of |-> [inst |-> identities + 1, work |-> 0, schema |-> build]]
  /\ Opened(p)
  /\ UNCHANGED <<files, observers, build, clock, bounds>>

(***************************************************************************)
(* The running server.                                                     *)
(***************************************************************************)
Serving == proc["server"].op = "serve"

Commit ==
  /\ Serving /\ db.of.work < MaxWork
  /\ db' = [db EXCEPT !.of.work = @ + 1]
  /\ UNCHANGED <<files, observers, lock, proc, world, bounds>>

SchedulerTickWhenDue ==
  /\ At("server", "serve", "tick")
  /\ Go("server", IF BackupDue THEN "take" ELSE "tick")
  /\ UNCHANGED <<disk, lock, world, bounds>>

SchedulerTick ==
  /\ At("server", "serve", "tick")
  /\ Go("server", IF BackupDue THEN "take" ELSE "copy")
  /\ UNCHANGED <<disk, lock, world, bounds>>

(***************************************************************************)
(* The operator's commands.  backup takes no lock; restore does.           *)
(***************************************************************************)
StartBackup ==
  /\ CommandStarts
  /\ proc' = [proc EXCEPT !["command"] = [Idle EXCEPT !.op = "backup", !.step = "take"]]
  /\ UNCHANGED <<disk, lock, world>>

Reachable == Snapshots(local) \cup Snapshots(copies)

StartRestoreInPlace ==
  /\ CommandStarts /\ lock = NoProc
  /\ lock' = "command"
  /\ \E f \in Reachable :
       /\ f.state = "whole"
       /\ proc' = [proc EXCEPT !["command"] = [Idle EXCEPT !.op = "restore",
            !.step = "replace", !.source = f]]
  /\ UNCHANGED <<disk, world>>

\* Validate the snapshot before touching anything, then hold the lock.
StartRestore ==
  /\ CommandStarts /\ lock = NoProc
  /\ lock' = "command"
  /\ \E f \in Reachable :
       /\ f.state = "whole"
       /\ proc' = [proc EXCEPT !["command"] = [Idle EXCEPT !.op = "restore",
            !.step = IF db.state = "absent" THEN "replace" ELSE "take", !.source = f]]
  /\ UNCHANGED <<disk, world>>

\* A database that cannot be snapshotted must not block its replacement:
\* its raw bytes are moved aside, under a name no listing counts.
SetAsideRaw(p) ==
  /\ At(p, "restore", "aside")
  /\ LET raw == [kind |-> "damaged", stamp |-> clock,
                 state |-> IF Whole THEN "whole" ELSE "torn", of |-> db.of]
     IN  /\ local' = Replaced(local, raw)
         /\ overwrote' = (overwrote \/ Named(local, Name(raw)) # {})
  /\ db' = [db EXCEPT !.state = "absent"]
  /\ Go(p, "replace")
  /\ UNCHANGED <<copies, crossed, lock, world, bounds>>

\* The copy into place truncates the database first.
Replace(p) ==
  /\ At(p, "restore", "replace") 
  /\ db' = [db EXCEPT !.state = "torn"]
  /\ Go(p, "replacing")
  /\ UNCHANGED <<files, observers, lock, world, bounds>>

ReplaceFails(p) ==
  /\ At(p, "restore", "replacing") /\ Fault
  /\ Ends(p)
  /\ UNCHANGED <<disk, world>>

ReplaceDone(p) ==
  /\ At(p, "restore", "replacing")
  /\ db' = [state |-> "whole", of |-> proc[p].source.of]
  /\ Go(p, "reopen")
  /\ UNCHANGED <<files, observers, lock, world, bounds>>

\* Proven the way startup would, then backed up without pruning.
Reopen(p) ==
  /\ At(p, "restore", "reopen") /\ db.of.schema <= build
  /\ db' = [db EXCEPT !.of.schema = build]
  /\ proc' = [proc EXCEPT ![p].op = "rebackup", ![p].step = "take"]
  /\ UNCHANGED <<files, observers, lock, world, bounds>>

ReopenRefused(p) ==
  /\ At(p, "restore", "reopen") /\ db.of.schema > build
  /\ Ends(p)
  /\ UNCHANGED <<disk, world, bounds>>

(***************************************************************************)
(* The world.                                                              *)
(***************************************************************************)
\* A killed process leaves the file it was writing half written, and its lock.
Crash(p) ==
  /\ proc[p].op # "none" /\ Fault
  /\ IF proc[p].step = "vacuum" THEN LeftHalfWritten(p) ELSE UNCHANGED local
  /\ Ends(p)
  /\ UNCHANGED <<db, copies, observers, world>>

TimePasses ==
  /\ clock < MaxClock /\ clock' = clock + 1
  /\ UNCHANGED <<disk, lock, proc, build, identities, bounds>>

ClockSetBack ==
  /\ Trouble /\ steady' = FALSE
  /\ clock' \in 0..(clock - 1)
  /\ UNCHANGED <<disk, lock, proc, build, identities>>

\* A process keeps the executable it started with.
InstallBuild ==
  /\ \A p \in Procs : proc[p].op \notin {"open", "restore", "rebackup"}
  /\ build' \in Builds \ {build}
  /\ UNCHANGED <<disk, lock, proc, clock, identities, bounds>>

(***************************************************************************)
(* The specification.                                                      *)
(***************************************************************************)
SnapshotStep(p) ==
  TakeSnapshot(p) \/ WaitForTheNextSecond(p) \/ SnapshotRefused(p) \/ VacuumFails(p)
  \/ ValidationFails(p) \/ SnapshotTaken(p) \/ Prune(p)
CopyStep(p) ==
  CopyBegins(p) \/ CopyRefused(p) \/ FinishRetention(p) \/ CopyVerified(p)
  \/ CopyFails(p) \/ PruneCopies(p)
OpenStep(p) == Migrate(p) \/ OpenRefused(p) \/ CreateDatabase(p)
RestoreStep(p) ==
  SetAsideRaw(p) \/ Replace(p) \/ ReplaceFails(p) \/ ReplaceDone(p) \/ Reopen(p)
  \/ ReopenRefused(p)

Init ==
  /\ build \in Builds /\ \A b \in Builds : build <= b
  /\ db = [state |-> "whole", of |-> [inst |-> 2, work |-> 0, schema |-> build]]
  /\ local = {}
  /\ copies \in {{}, {[kind |-> "scheduled", stamp |-> 0, state |-> "whole",
                       of |-> [inst |-> 1, work |-> 0, schema |-> build]]}}
  /\ lock = NoProc
  /\ proc = [p \in Procs |-> Idle]
  /\ clock = 0 /\ identities = 2
  /\ commands = 0 /\ troubles = 0 /\ steady = TRUE
  /\ overwrote = FALSE /\ crossed = FALSE

Next ==
  \/ \E p \in Procs : SnapshotStep(p) \/ CopyStep(p) \/ OpenStep(p) \/ RestoreStep(p) \/ Crash(p)
  \/ StartServer \/ OpenByCommand \/ StartBackup \/ StartRestore
  \/ Commit \/ SchedulerTick
  \/ TimePasses \/ ClockSetBack \/ InstallBuild

Spec == Init /\ [][Next]_vars

\* The scheduler's loop runs for as long as the server lives.
SchedulerStep == Serving /\ (SchedulerTick \/ SnapshotStep("server") \/ CopyStep("server"))
FairSpec == Spec /\ WF_vars(SchedulerStep)

(***************************************************************************)
(* Properties.                                                             *)
(***************************************************************************)
\* Every variable stays in its domain, and the database always has an identity
\* that was given out (storage.rs ensure_instance_identity).
BackupsTypeOK ==
  /\ db \in [state : {"whole", "torn", "absent"}, of : Contents]
  /\ db.of.inst \in 1..identities
  /\ local \subseteq Files /\ copies \subseteq Files
  /\ lock \in Procs \cup {NoProc}
  /\ proc \in [Procs -> [op : Ops, step : Steps, file : Files, source : Files]]
  /\ build \in Builds
  /\ {clock, identities, commands, troubles} \subseteq Nat
  /\ steady \in BOOLEAN /\ overwrote \in BOOLEAN /\ crossed \in BOOLEAN

\* However a restore is interrupted, and whatever is tried afterwards, while
\* there is no whole database there is a whole file of what it last was in
\* backups/ (restore.rs:50 "so a mistaken restore is itself recoverable").
\* Excepted: raw bytes moved aside twice within one second share a name, and
\* the second replaces the first.
Recoverable ==
  Whole \/ overwrote \/ \E f \in local : f.state = "whole" /\ f.of = db.of

\* A copy directory holds one installation's backups (backup_copy.rs:17).
CopiesAreOneInstallations ==
  \A c, d \in OwnBackups(copies) :
    c.state # "unreadable" /\ d.state # "unreadable" => c.of.inst = d.of.inst

\* It does as long as no two copies of different installations were in flight
\* together, even when the server beside it was given another identity by a crash or a
\* restore, and however the checks and the copies of two processes interleave.
OneInstallationPerDirectory == crossed \/ CopiesAreOneInstallations

\* No step migrates a database without a whole file of exactly what it was, at
\* the schema it had (backup.rs:363 "and refuses to migrate without it"),
\* whoever prunes, commits or is killed meanwhile.  Supposes a clock that is
\* not set back, and that retention keeps more than one file: at one, a torn
\* file of the same second can be the one kept.
UpgradesCanBeUndone ==
  [][steady /\ Keep > 1 /\ Whole /\ db'.state = "whole" /\ db'.of.inst = db.of.inst
     /\ db'.of.schema > db.of.schema
     => \E f \in local \cup copies : f.state = "whole" /\ f.of = db.of]_vars

\* A copy that failed, was refused or fell behind catches up (backup_copy.rs:135):
\* if from some moment on the server runs and the directory is its
\* installation's, its newest backup is there again and again.
CanCopy ==
  /\ Serving /\ OwnBackups(local) # {}
  /\ SameInstallation(Newest(OwnBackups(local)))
NewestIsCopied ==
  OwnBackups(local) # {} /\ Named(copies, Name(Newest(OwnBackups(local)))) # {}
CopyCatchesUp == <>[]CanCopy => []<>NewestIsCopied

\* Every copy off the server is of a validated snapshot (backup_copy.rs:5 "each
\* validated local snapshot is copied there").
CopiesAreWhole == \A c \in OwnBackups(copies) : c.state = "whole"
=============================================================================
