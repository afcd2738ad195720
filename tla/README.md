# consolebook, specified

consolebook keeps the training record of an agency: programs and their
versions, enrollments, training sessions, and evaluation records that are
drafted, reviewed, sealed, acknowledged and, when they must be corrected,
amended into successor versions. A Rust server (Axum) owns one SQLite database;
its migrations carry triggers that hold the domain's invariants under raw
writes; a SvelteKit page edits drafts with debounced autosave. These modules
specify that code in TLA+, TLC checks them on small instances, and the TLA+
proof system checks the theorems for every instance.

Paths below are relative to the repository; server sources are under
`crates/consolebook-server/`.

## 1. Inventory

Every write is one `BEGIN IMMEDIATE` transaction (`storage::write_tx`), so
writers are serialised and a transaction is one atomic step. A service answers
a refusal by rolling back. What is *not* atomic is everything around it: the
page the user acted on, the network, and the gates (capability, scope, often
ownership) that most services evaluate on the pool before they take the lock.

| Part | State | Operations | What is hard | What makes it correct |
|---|---|---|---|---|
| Evaluation record schema (`migrations/0008`–`0010`, `0012`) | record row, working copy, contributor events, review decisions, snapshots, versions, amendments | any write the triggers accept | the status is derived by joining two streams past marks; triggers fire inside each other | versions form one chain, each sealed by an approval of its own cycle; decisions answer submissions; the streams pair |
| Evaluation record workflow (`evaluation_drafts`, `draft_content`, `draft_review`, `finalization`, `amendments`, `draft_access`) | the same rows and the revision, the optimistic-concurrency token | create, save, transfer, submit, decide, finalize, open an amendment, queue | gates before the lock, requests delayed across a whole cycle, coalesced attribution | stale requests are refused; what is sealed is what was reviewed; an approved copy never wedges |
| Acknowledgments (`acknowledgments`, `0011`) | one row per version and trainee | acknowledge, attest | a new version sealed between the read and the act | each version is acknowledged or attested once, and every export says so alike |
| Training sessions (`training_sessions`, `session_membership`, `assignments`, `session_time`, `0007`) | sessions with UTC intervals, trainers, assignments | create, update, close, add and remove trainers, assign, end | intervals across enrollments, cancellation against drafts | no two active intervals of a trainee overlap; a documented session is never cancelled; one trainer always |
| Enrollment lifecycle (`lifecycle`, `enrollments`, `0005`, `0006`, `0014`) | enrollment events, phase events, the pinned version | enroll, pause, resume, complete, withdraw, change version, enter and leave phases | two streams folded into a status and a phase, restarted by a version change | only legal moves; phase history stays with its version |
| Summaries and signoffs (`summaries`, `task_signoffs`, `0013`) | links from a summary to dailies; signoff rows | create, link, unlink; sign off, override, revoke | links under freezing; version read before the lock | frozen summaries keep their links; signoffs supersede in order |
| Programs (`programs`, `programs/*`, `0004`) | versions and their content | create, replace draft, publish, discard | publication against a concurrent replacement | a published version never changes |
| Web draft editor (`web/src/lib/drafts/editor.svelte.ts`, `web/src/routes/drafts/[id]`) | values, revision, a timer, one save in flight, a dirty mark, refused buffers | edit, autosave, flush, refusal, reload, teardown | edits during a request, lost answers, late saves, reloads racing saves | no typed text is lost, no unseen text is overwritten, a submission freezes what was shown, every edit settles |
| Backups (`backup`, `backup_copy`, `scheduler`, `restore`, `serve_lock`, `storage`) | the database file, snapshot files, copies, the lock | scheduled and manual backup, prune, copy, catch up, restore, migrate | crashes between file operations, clock steps, two processes | an interrupted restore or upgrade can be undone; a copy directory stays one installation's; a copy that fell behind catches up |
| Accounts (`setup`, `users`, `sessions`, `capabilities`, `0002`, `0016`) | users, grants, one-time codes, sessions | set up, create, issue and use a code, log in and out | two transactions that belong together | codes are used once; setup happens once |
| Retention (`retention/*`, `0015`) | policies, holds, releases, authority events | grant authority, revise a policy, place, replace and release holds | calls made of outdated pages, replacement through a trigger, a clock set back | who acted was authorised; histories do not fork; what is held stays held until someone lifts it |
| Notices and audit (`notices`, `audit`) | append-only rows | written inside the transactions above | deduplication | one row per act |
| Exports and verification (`record_export`, `trainee_packet`, `installation_export`, `*_verify`, `exports_http`, `canonical`) | four slots, a producer thread and a bounded queue per download | audit, list, stream, verify offline | the database changes under the export; clients stall or leave; producers fail | a download that ends cleanly is complete and verifies; damage is found; every slot comes back |
| HTTP, CLI, diagnostics, web pages, installer, `xtask` | none shared | decode, call, present | none of the above | – |

Interactions: the page calls the services over HTTP with the revision it loaded;
the services call the schema, whose triggers append rows of their own (a review
decision appends its event); sessions scope who may author a draft; a draft's
coverage keeps its session from being cancelled; an enrollment's pinned version
fixes the forms and the finalization policy; sealing tells the trainee, whose
acknowledgment binds to the version; exports read versions, amendments and
acknowledgments while all of these go on; holds name a record, an enrollment or
the installation; backups copy the whole database.

## 2. Modules

| Module | What it is |
|---|---|
| `RecordStore` | The tables and triggers of one evaluation record. An `...Accepted` operator is the condition under which the schema takes a row; `StoreSpec` lets any writer issue any single accepted write. |
| `SealedRecord` | The abstract specification: one copy, one status, a history of sealed contents that only grows. |
| `RecordWorkflow` | The server's transactions on one record, with the requests that are in flight. EXTENDS `RecordStore`; implements `SealedRecord`. |
| `Enrollments` | Enrollments, trainers' assignments, the lifecycle stream and the clock: the ground the next two stand on. No specification of its own. |
| `PhaseHistory` | Phase events and task signoffs over `Enrollments`, and the pin timeline of `packet_verify.rs`. |
| `TrainingSessions` | Sessions, their trainers and the drafts that document them, over `Enrollments`. |
| `DraftEditor` | The page an author writes on, against the server that keeps the draft, with requests that are lost or late. |
| `Backups` | The database file, snapshots, copies, the serve lock, restore and migration, under two processes that can be killed. |
| `ExportDelivery` | One download: handler, producer, bounded queue, response body and client. |
| `Archives` | What an archive is and what the offline verifiers say of one. Operators only. |
| `RecordExports` | Producing the archives of `Archives` from a database that goes on changing. EXTENDS `Archives`. |
| `Retention` | The authority, policies and holds of retention administration, over the calls in flight. |
| `MC...` | Instances for TLC, one for each specification. |
| `RecordWorkflowProofs` (with those of `RecordStore`), `EnrollmentsProofs`, `PhaseHistoryProofs`, `TrainingSessionsProofs`, `ExportProofs`, `RetentionProofs`, `DraftEditorProofs`, `BackupsProofs` | Theorems. |

### One evaluation record

**Tables are sequences.** A row's index stands for its id, so `MAX(id)` is the
length and `id > mark` an index range. The code's ids are shared between
records; since every query filters by record, only their order matters.
`amendments` is a function from the version each amends, which the table's
UNIQUE column makes exact.

**Content** is a model value: the properties only ask whether two copies are
equal and whether a copy passes the policy's completion rules (`Complete`).

**A request** goes through `Send...` (what the page offers for the status it
shows; the workspace read is one transaction, so revision, content and status
agree), then, for submit and transfer, whose gate reads the owner, `PassGate`,
then the transaction (`SaveTx`, `SubmitTx`, ...), which rechecks under the lock.
`Drop` is every way to end without a trace: a refusal, a rollback, a client that
left. Capability gates are guards of `Send...`: the application grants these
capabilities when the account is made and never takes them away. A gate on scope
(an assignment that ends, a trainer removed) can only withhold a request, which
is one of the behaviours here, so `Authors` are all who are ever in scope.

**Derived status.** `Status` translates `status_of`, `Frozen` the SQL view
`evaluation_record_frozen`. They are written separately, as in the code, and
`AdmittedIsAccepted` relates them.

### Enrollments, histories and sessions

**Steps.** The services of `Enrollments`, and `record_phase_event`, check one
capability and then read everything under the lock, so each is one action and a
refusal is no step. A signoff (`SignoffGate`, then `SignoffTx`) and every session
operation but removing a trainer (`GateCreate`, `GateWork`, `GateDraft`, then
`CreateTx`, `UpdateTx`, `CloseTx`, `AddTrainerTx`, `DraftTx`) read the caller's
scope before the transaction, and ADR 0019 leaves it so: a `pending` request may
outlive the assignment or membership it was let through on. What the transaction
rereads is an `...Admitted` operator, what the triggers and CHECKs behind it
accept an `...Accepted` one, and they are translated apart.

**A trigger that carries a race.** `task_signoffs::record` checks the pinned task
before its transaction; a version change in between is caught by
`task_signoff_takes_a_pinned_task` alone, and the signer gets an internal error
for a refusal. `SignoffAccepted` is that trigger. It is the one admitted write of
these modules that the schema may abort; nothing wrong is stored.

**Close does not look for overlaps**, and need not: an end shortens an open
interval. `NoInstantTwice` and `AdmittedIsAccepted` check that argument.

**Epochs.** An epoch is the id of the version change that opened it, 0 for the
original pin, as `version_change_event_id` stores it. `CurrentPhase` and `IsPaused` fold the
events of the current epoch in the order `effective_at, id`, `Epochs`,
`EpochVersion` and `Includes` are the verifier's reading of the same rows.

**Time.** `clock` counts seconds and never runs backwards; the services read it
after the writer is held (the comment at issue #108 in `lifecycle.rs`), so rows
carry instants in the order of their ids. ADR 0017 rests on the same assumption;
without it the verifier would report honest histories. A session's `start` and
`end` are the UTC instants `session_time` resolves; `Forever` is the open end
that the overlap query coalesces to the largest integer.

### The draft editor

**Turns.** One action of the page is one turn of its event loop, from one await to
the next: `TimerFires`, `SaveLanded`, `SaveRefused`, `SaveFailed`, `MetaAnswered`
and the loads are the pieces of `runSave` and of the page's `load` between their
awaits, `FlushSaves`, `FlushWaits` and `AskAct` those of a workflow act. The
variables `text`, `revision`, `saveState`, `timer`, `dirty`, `reported`,
`reloadFailed` and `refused` are the controller's fields.

**The network.** A request is taken by the server in an action of its own and
answered in another; `LoseSave` and its siblings lose either half, and a save the
page was told had failed may arrive later (`ghosts`, `GhostArrives`). Others save,
freeze and reopen the draft at any moment (`OtherSaves`, `OtherMovesDraft`). The
server here is `Verdict` and `StoreSave`: the refusals of `RecordWorkflow`'s save
in the order in which the code gives them.

**Content** is one text per field and a text is a number, fresh whenever something
is written, so that a lost or overwritten text can be told from any other.

### Backups

**Two processes**, the server and an operator's command, each at one step of one
operation (`proc`). A step is what a kill can part: the file half written by
`VACUUM INTO`, its validation, each prune, the copy, the truncation of the
database before it is replaced. `Crash` ends a process between any two, and frees
its lock, as the operating system does.

**A file** is its name (kind and stamp) and what can be read from it. A copy made
of a half-written file is `torn` or `unreadable`; an installation can be read from
a torn file but not a whole database. `Named`, `Before`, `Newest` and the prunes
are the listing functions, which know names only, as in the code.

**Faults.** `Fault` is a failed write or an absent share; `ClockSetBack` moves the
clock. `MaxTroubles` bounds kills, faults and clock steps together.

### Exports

**Delivery.** `ExportDelivery` follows one request through `deliver`: admission
against `EXPORT_SLOTS`, then a producer that cannot be cancelled (each of its
steps begins with `client_left`), the queue of `BODY_CHUNKS`, and `poll_frame`. An
archive is `listed + 2` chunks; a longer entry is more of the same.

**Production and verification.** `RecordExports` interleaves the database's
changes with the steps of an export: `Audit`, `List` (one read transaction) and
`WriteUnit`, which reads each version again, outside it. `Archives` translates the
three verifiers from their own sources, not from the producer's: they share the
shape of an archive and the reading of units, as `export_verify.rs` shares them.
SHA-256 is taken to be injective. Ids are abstracted to what a row is about, so
`RowsAscend` orders by that. The packet's enrollment and signoff documents are
checked by `PhaseHistory`.

### Retention

A call is what a page offered its sender (`Ask`, `Shown`); it waits for the write
reservation while others act, and its whole effect is then one step. The operators
`Authorized`, `Releasable` and `Current` are what the transaction rereads. The
trigger that releases a replaced hold is part of `WriteHold`. An authority event
and its audit event, written side by side, are one row of `audit`.

### Observers and variants

**Observers.** `editors` (who changed the copy this cycle) and the `seen` and
`cycle` fields of a request are not in the code; nothing reads them but
properties. `seen` is what the requester's page showed. So are `mine`, `carried`
and `seen` of `DraftEditor`, `steady`, `overwrote` and `crossed` of `Backups`, `held` of
`RecordExports`.

**Variants.** A definition commented "Variant" is a plausible mistake in the
operator that follows it. No action uses it; PROJECT.json pairs each property
with a variant that breaks it.

## 3. Runs

Bounds are CONSTANTS and appear in the guards of the actions they cap. Four
instances are too large as a product and have two halves, each large in what it
is about: the MC module defines the halves as predicates and the cfg keeps the
steps that end in one of them (`ACTION_CONSTRAINT`). Every behaviour of either
half is explored whole; what is lost is a behaviour that needs the size of both.

`store` (3.4 million states) — raw writers, two interchangeable users, up to 4
events, 1 snapshot and 2 versions; an amendment for each version. Four events fit
a submission, its decision, and a second pair, so both a version sealed by its own
approval and an attempt to reuse the first approval occur. Checks
`VersionsFormOneChain`, `EveryVersionHasItsApproval`, `DecisionsAnswerSubmissions`,
`DecisionsPairWithEvents`.

`workflow` (700 thousand) — an author, a lead with every capability, a reviewer
who never edits; blank and written copies, of which only the written one is
complete; policies with and without review; two requests in flight (a race needs
two). One half has all three over one version: 5 events with revisions up to 2, or
6 with one revision, which fits creation, an edit, a transfer and a submission
with its decision, twice over in part. The other has the author and the lead over
two versions with another content to amend to: 7 events, the shortest history
with two full reviewed cycles. Checks `TypeOK`, `AdmittedIsAccepted`,
`RevisionNamesContent`, `AuthorityIsCurrent`, `ApprovedNeverWedges`,
`TokensDieWithTheirCycle`, `EditorsAreAttributed`, `SealedIsReviewed`, and that
the specification implements `SealedRecord`.

`stale_decision`, `review_queue`, `unvalidated_copy` — the three disagreements
with the source's own words, each found as a counterexample (section 5).

`phase_history` (980 thousand) — one trainee under a program of two published
versions and one unpublished, with an entry, an advance, a remediation edge and
restarts. One half has phase events of one enrollment: instants 0 to 3, two
lifecycle rows, three phase events. Three events are a move, a pause and whatever
must be refused between; two version changes give three epochs, the last of the
version of the first; four instants let an event be backdated before, into and
after an epoch. The other has signoffs over two enrollments at two instants, an
assigned author and a reviewing coordinator with one in flight each: two signers
make the race for the first row, and a version change fits between a gate and its
transaction. Checks `TypeOK`, `PacketVerifies`, `PhaseHistoryIsAWalk`,
`PinsAreDistinct`, `SupersedingSignoffsAreReviewed`.

`sessions` (63 thousand) — one half: two sessions over two enrollments of one
trainee, instants 0 to 2 and the open end, so that all thirteen relations of two
intervals occur, empty and open ones too; one request at a time suffices, since
transactions reread what overlaps. The other: one session, a coordinator and two
authors (one assigned at times) with two requests past their gates, a version
change or a withdrawal underneath, a phase in one version. Checks `TypeOK`,
`NoInstantTwice`, `AdmittedIsAccepted`, `DocumentedWasWorked`,
`SessionsKeepATrainer`, `PhasesAreHistoric`, `ClosedIsSettled`.

`editor` (221 thousand) — a form of two fields, so that the parts of a refused
copy can differ; two edits (a text and one typed while it is in flight), two moves
by others or acts of the writer, one loss. Checks `TypedTextSurvives`,
`OverwritesOnlyWhatWasSeen`, `SubmitsWhatWasShown` and, under fairness,
`EditsSettle`.

`backups` (857 thousand) — seconds 0 to 2, two builds of which the second
migrates, one commit, one command of the operator, one trouble; two files kept,
one before migrations. One trouble parts any two steps, and a command beside the
scheduler is the most the lock lets run at once. Larger instances (up to 21.5
million states, safety only) were explored without a violation. Two processes that
copy into one empty directory at the same moment need three commands, which this
run does not have: with `Keep` 3, `Interval` 2, `MaxClock` 1, `MaxWork` 0,
`MaxCommands` 3 and `MaxTroubles` 1, TLC finds `CopiesAreOneInstallations`
violated that way (section 5), and `OneInstallationPerDirectory` not. Checks `Recoverable`, `OneInstallationPerDirectory`,
`UpgradesCanBeUndone` and, under fairness, `CopyCatchesUp`.

`delivery` (288 thousand) — two downloads, one slot, a queue of two, two
versions: the second request finds the slot taken or freed, and an archive of two
to four chunks is shorter or longer than the queue. Checks `WholeIsComplete` and,
under fairness, `SlotsComeBack`.

`exports` (305 thousand) — two records of one trainee and one of another, up to
two versions of each and four in all, one acknowledgment, every format and scope.
Two versions are a predecessor and its successor, the relation every document is
about. Checks `ExportsAreComplete` and `DamageIsFound`.

`retention` (3.2 million) — an administrator and an operator, two calls in flight,
four acts, a record that starts at any moment, two instants. Four acts are a
grant, a hold, its replacement and a competing one, or a grant, a revocation and
what waited for them. Authority calls ask for a change of what their page shows
(others are refused as no-ops), and the clock moves once there is a hold, before
which no date is compared. Checks `ActsWereAuthorized`, `HistoriesDoNotFork`,
`PreservedUntilLifted`.

Deadlock is checked wherever the system cannot rest: a record can always be looked
at, a session staffed, a request dropped, a database left idle. Three runs say
CHECK_DEADLOCK FALSE. `phase_history`: after a withdrawal nothing need happen until
someone reinstates the enrollment, which the bound on lifecycle rows may forbid.
`delivery`: once every download has ended the server rests. `editor`: a page that
was left and whose last save was answered has nothing more to do.

### Fairness

`EditsSettle` assumes that a request that travels is taken or lost, an answer is
handled and an armed timer fires: the browser's event loop and timers. Nobody has
to type, retry or click, and nobody else has to act; losses are bounded by
`MaxFaults`, as a save that fails is retried only when the writer asks.

`CopyCatchesUp` assumes that the scheduler's loop (`scheduler.rs`) goes on for as
long as the server runs, and nothing of the operator, the clock or a process that
died. It promises nothing unless the server runs from some moment on and the
directory is its installation's.

`SlotsComeBack` assumes that a producer that can take a step takes one (it is a
blocking thread, and `EXPORT_STALL_LIMIT` ends its wait for room) and that a
waiting handler answers (the oneshot, or `PREFLIGHT_LIMIT`). Nothing is asked of
the client, which may neither read nor leave.

No liveness is claimed for the record workflow, enrollments, sessions or
retention: every step there waits for a person, and the server schedules none.

## 4. Proofs

`RecordWorkflowProofs` begins with raw writes: the types and the four properties
of `store` under `StoreSpec`. The chain is inductive with the types.
`EveryVersionHasItsApproval` needs, besides the chain, that each amendment's
decision mark lies within the stream and that marks do not shrink from one version
to the next. The pairing is inductive with the types, over lemmas that count the
decided events before and after an append. `DecisionsAnswerSubmissions` is
inductive because a decision reads the contributors of the whole prefix.

The server's transactions rest on

    IInv == Shape /\ MarksWithinStreams,   Shape == TypeOK /\ VersionsFormOneChain

The chain makes `LatestVersion` the length of `versions`, without which nothing
about the status can be proved; the marks within the streams make a reopened
record start as a draft and an append past them change the status predictably.
`RecordIsKept` then proves the refinement: each transaction maps to `Edit`,
`Submit`, `Decide`, `Seal` or `Reopen`, and every other step to a stutter.
`NoWedge` adds that a frozen copy is complete (`FrozenIsComplete`): submission
checks it, and a frozen copy is not written. `RevisionsNameContent` and
`TokensDie` share `TokensOK`: a request in flight holds a revision no newer than
the current one, and one equal to it was formed on the current copy and cycle.
`AuthorityStaysCurrent` adds to the tokens that the copy's owner is what the events
of the log make it (`Owned`), so an owner a request was let through for has changed
only with the revision. `AdmittedStaysAccepted` compares what the services check
with what the triggers do: both read the same cycle, so `Frozen` and the refusals
agree (`StatusIsOfCycle`). `AttributionHolds` is inductive with the types.
`SealedStaysAsReviewed` is the deepest of them. It relates three streams no foreign
key joins: `StreamsPaired` counts submissions against their snapshots and decisions
against their events, up to any event; `CopyReviewed` says that a submitted copy is
the last snapshot's and an approved one was reviewed as the property demands at the
end of the stream; sealing then hands `CopyReviewed` to `VersionsReviewed`, which
survives because the streams only grow (`Extends`).

`EnrollmentsProofs` holds the lemmas on enrollment steps that the next two share:
types are kept, enrollments are never removed and never change trainee, the clock
does not go back.

`TrainingSessionsProofs` rests on `Sound == TypeOK /\ Referenced`: every row and
request names an enrollment or session that exists, without which nothing can be
said of the row an action reads, and every session passes its CHECKs and the
foreign key of its phase. `NoInstantTwice` speaks of instants, which is
not inductive: two sessions may be disjoint at every instant and yet be refused
or admitted differently when one moves. The invariant is `Separate`, on interval
ends; it survives a close because an open session's end is `Forever`, past every
other end. `DocumentedWasWorked` is inductive with `Sound`: closing and drafting
both look under the lock. `AdmittedIsAccepted` follows from `Sound` and, for
close, which compares no intervals, from `Separate`.

`PhaseHistoryProofs` rests on `Sound == TypeOK /\ Referenced /\ Clocked`. `Clocked`
says that rows carry instants the clock has shown, lifecycle rows in id order,
and that the phase events of an enrollment take effect in the order of their ids.
`InOrder` is what keeps the last part; by it the order of display is the order of
recording (`EarlierIsBefore`), so an event appended leaves what every earlier
event followed from as it was (`PhaseInLengthened`, `WalkLengthened`), and what
it was itself derived from is what its epoch held before it (`RecordedWalks`).
That is `HistoriesWalk`. `PacketsVerify` takes the verifier's own reading of the
pins: a version change closes the newest epoch at its instant and moves no other,
so what was in its epoch stays there, and what is recorded later is in the newest. It
is a theorem about each history as it stands; it does not compare a packet written
earlier with a later history.

`ExportProofs` covers both halves of exporting. Delivery: `WholeIsComplete` for any
number of requests, slots and chunks. The property looks at the end of a download;
the invariant says where every chunk is on the way there. `ChunksKept`: those
received and those queued before an open receiver are exactly those sent, and
`Completion` is set only when all were. `Grounds`: no chunk was sent before the
audit and the listing. `HandlerKept`: the receiver is open while someone waits or
streams. No fairness is used: the theorem is about `DeliverySpec`.

Production: the invariant is

    ProductionInv == Store /\ ExportKept

`Store` is about the database: a record's versions are numbered without a gap, it
was amended between any two of them, an acknowledgment is of a stored version and
says who spoke. `ExportKept` is about the export under way. What its archive will
state is settled by the transaction that lists it; from then on the invariant speaks
of the archive it becomes once every listed unit is written (`AllWritten`), and a
`WriteUnit`, though it reads the version again outside that transaction, changes
nothing there, because sealed versions stay (`VersionsStay`). So the whole weight
is on `List`, and on lemmas about `Archives`: the rows are in the order the verifier
demands (`SortedIs`, from ranks), a finished archive has each path once
(`NoDuplicatesInArchive`) and nothing unlisted (`NothingIsUnlisted`), each check of
each verifier is met by what the producer states (`ExportsVerify`,
`PacketsAreVerified`, `InstallationsAreVerified`). The chain of envelopes a unit's
hash stands on is a recursive function; `ChainsExist` shows that it unfolds.

Damage: two archives with one manifest that both verify have the same entries under
the same paths (`OneManifestOneContent`, from SHA-256 taken to be injective), so
nothing can be taken out of an archive that verifies, added to it or exchanged within
it. A unit taken out with its row of the manifest has no such witness there; it is
found because something else speaks of it: its successor's link, the row of an
amendment, an acknowledgment, or the version table of an installation export
(`MissingFromPacket`, `MissingFromInstallation`).

`RetentionProofs` rests on the types and `VersionsAscend`: within a class a later
row has a higher version, so the row `CreatePolicy` supersedes is the last one and
exists (`RetentionTypes` states both). `NoForks` splits the property in three, inductive one after the other: the
policies are numbered by their count, a replacement carries its release, a hold is
released once. `OnlyHoldersAct` says besides that `grants` is what the audit log
leaves. `HoldsAreKept` is a property of single steps: a step that ends a hold is a
release or a replacement by someone who may.

`DraftEditorProofs` rests on four layers. `Control` says which of the page's flags,
its save chain, its load and its act rule each other out. `Tokens` says what a
revision in anyone's hands means: each save, late ones included, names a revision
of `Known`, one the server has left behind or whose content was on the page; that
is `OverwritesOnlyWhatWasShown`. `Shown` says that a clean page shows the stored
content when it names the stored revision, hence `SubmissionsFreezeWhatWasShown`.
`TypedTextIsKept` adds that what the server holds or held is `carried`, and that
the text on a page that owes nothing is.

`BackupsProofs` rests on `Sound`: the types, `Numbered` (whatever a file or a
process names is an installation that was given out), `Listed` (a directory has one
file of a name) and `Course` (which steps an operation goes through, with which
files); and on `Locking`, who holds the serve lock. `CopiesOfOneInstallation` needs
`Alike`: the readable copies, and the file each process is about to rename among
them, are of one installation; it is kept unless two processes rename files of two
installations at once (`crossed`). `RestoresAreRecoverable` needs `Calm`: a restore
is alone, and before it touches the database what it replaces is whole in
`backups/`; while the database is not whole only the restore, or an opening that
must fail, is under way. `UpgradesLeaveASnapshot` needs to know what else lies in
`backups/` beside the file taken before a migration, since names decide what a
prune keeps: `SourceKept` (what a restore put in place), `Dated` (no file is dated
after the clock unless it was set back), `Locked` (a command that will migrate holds the lock)
and `Upgrades` (the file is there and whole, or a later scheduled one of the same
database is, and the other process cannot displace it).

Assumptions: those the modules make on their constants (`NoUser` is no user,
`NoPhase` no phase, phases and tasks belong to versions, a transition joins phases
of one version, roles are users, bounds are naturals, at least one file is kept
before migrations, as `PRE_MIGRATION_KEEP` is 3 in the code); TLC evaluates them on
every run.

Every invariant and every action property that a passing run checks is so the
statement of a theorem. Only model-checked are the three liveness properties
(`EditsSettle`, `CopyCatchesUp`, `SlotsComeBack`): the prover knows neither fairness
nor ENABLED. What the three runs of section 5 show is a counterexample each, and
wants no proof. What SHA-256, SQLite and the file system do is assumed, as the models
state it. No RECURSIVE operator is used. Where a recursive function had to be unfolded,
the induction is an argument from the least counterexample (`LeastOfNaturals`), since
the library's induction theorems are out of the provers' reach.

## 5. Findings

`stale_decision`: the comment on `draft_review::decide` says a raced
resubmission resolves as its typed refusal. The request carries neither revision
nor submission, so a decision delayed past a return and a resubmission lands on
the new submission, unread.

`review_queue`: the queue is documented as the currently submitted drafts. It
reads the latest event alone; a record submitted and then finalized under a
policy without review stays listed.

`unvalidated_copy`: `backup_copy.rs` says each validated local snapshot is copied
off the server. `catch_up` copies the newest file that has a backup's name, and a
`VACUUM INTO` that fails leaves its file there unvalidated; the same pass of the
scheduler copies it, and the copy directory then counts as current.

A fourth came out of a proof that failed and has no run of its own: the reproducing
bounds are in section 3. `backup_copy.rs` says that a copy directory holds one
installation's backups. `ensure_same_installation` looks at the directory, and the
rename comes later; a server and a command can both find it empty and then rename
files of two installations into it, as may happen after a restore. The theorem is
that there is no other way.

## 6. Not modelled, and why

Left out of the modelled parts:

- **Records, sessions, enrollments**: audit rows and notices, written in the same
  transactions and read back by no handler here; the bytes and hashes of a sealed
  envelope (`Version.content` is the copy it seals); the shape rules of a single
  rating; which form a draft takes; summary links of a record; how a local time
  becomes an instant; reasons, names and stored local strings; the capabilities
  that enrolling grants; the pages that read histories.
- **Draft editor**: transfers, review and amendment started from the page, which
  never touch a working copy with unsaved edits; the wording of a buffer; the
  browser's own prompt on unload.
- **Backups**: the `.partial` file two copiers of one snapshot would share; a power
  loss that undoes committed work (`synchronous = NORMAL`); more than one command
  of the operator at a time; modification times other than the name's stamp; audit
  rows and notices; the status pages. A database starts at the smallest build, and
  a copy directory starts empty or holding another installation's backup.
  `Recoverable` excepts raw bytes moved aside twice within one second
  (`overwrote`), `OneInstallationPerDirectory` two copies of different installations
  in flight at once (`crossed`), and `UpgradesCanBeUndone` supposes a clock never set back and more
  than one file kept: after a step back retention takes the snapshot before a
  migration for an old one, and at one file kept a torn file of the same second can
  be the one that stays.
- **Exports**: canonical JSON and the container's bytes; column types and
  vocabularies of the table specification, and all but four of its 43 tables; the
  installation's instance document; the program export.
- **Retention**: reasons, authority references and the policy fields that are not
  compared with anything.
- **Acknowledgments**: responses, the notices of sealing, and the trainee's
  timeline. An acknowledgment binds to the version that is latest when it commits;
  what its trainee had read is not in the request, so no property speaks of it.

Parts left out whole:

- **Programs and versions**: replacement, publication and discard are each one
  transaction that rereads the version's state under the lock, and the triggers
  refuse every write to a published version. `Enrollments` takes the versions, and
  which are published, as constants.
- **Summaries**: links that freeze with the draft; the freezing is
  `RecordWorkflow`'s, and `DraftEditor` has the links' effect on the revision.
- **Accounts, setup and web sessions**: setup, codes, passwords and sessions are
  read and written by each transaction as a whole, and hashing stays outside it. An
  account committed before its first code is listed as a hazard; an administrator's
  second code repairs it. The modelled parts take their users as constants.
- **Notices and audit** (append-only), **HTTP, CLI and diagnostics**, **pages other
  than the editor**, **installer and `xtask`**: input, output and build.

PROJECT.json lists each with its sources, and the hazards no property covers with
the reason.

## 7. Order of work, and what is next

The project was built in the order record schema, workflow and abstract record;
enrollments; phase histories and signoffs; sessions; the draft editor; backups;
delivery, archives and exports; retention; then the proofs, component by component.
What would add most now:

1. Abstract specifications for more components, in the way of `SealedRecord`: what
   a directory of backups promises (a whole snapshot, once there, is displaced only
   by a newer one), what a hold is (active from its placement to its release), with
   the refinement proved from the invariants of section 4.
2. The parts of section 6 that touch the proved ones: responses to acknowledgments,
   and the publication of program versions, which `Enrollments` takes as constants.
3. The hazards without a property: a backup's freshness after the clock was set back
   is the one the present model could state.
