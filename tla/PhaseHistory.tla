----------------------------- MODULE PhaseHistory -----------------------------
(***************************************************************************)
(* The history an enrollment accumulates under its pins: phase events and  *)
(* task signoffs (record_phase_event of lifecycle.rs, record of            *)
(* task_signoffs.rs, migrations 0006 and 0013), and the timeline           *)
(* packet_verify.rs reads out of an exported history.                      *)
(*                                                                         *)
(* A phase event is gated on assign_training alone and does the rest in    *)
(* its write transaction: one step.  A signoff reads the pin, the task and *)
(* its signer's scope before its transaction, so it takes two, and         *)
(* anything may happen in between.                                         *)
(***************************************************************************)
EXTENDS Enrollments

CONSTANTS
  Signers,        \* users who sign tasks off
  Coordinators,   \* hold assign_training
  Authors,        \* hold author_evaluation
  Reviewers,      \* hold review_evaluation
  Phases,         \* phase
  NoPhase,        \* SQL NULL in a phase column
  PhaseVersion,   \* the version of each phase
  Transitions,    \* phase_transition
  Tasks,          \* task
  TaskVersion,    \* the version of each task
  MaxPhaseEvents, \* bound: phase_event rows
  MaxSignoffs     \* bound: task_signoff rows

ASSUME PhasesAssumption ==
  /\ NoPhase \notin Phases
  /\ PhaseVersion \in [Phases -> Versions]
  /\ TaskVersion \in [Tasks -> Versions]
  /\ Authors \subseteq Signers /\ Reviewers \subseteq Signers
  /\ Coordinators \subseteq Signers
ASSUME TransitionsAssumption ==
  \A t \in Transitions :
    t.from \in Phases /\ t.to \in Phases /\ PhaseVersion[t.from] = PhaseVersion[t.to]
ASSUME PhaseBoundsAssumption == MaxPhaseEvents \in Nat /\ MaxSignoffs \in Nat

VARIABLES
  phaseEvents, \* phase_event
  signoffs,    \* task_signoff
  signing      \* the signoff each signer has in flight

vars == <<enrollmentVars, phaseEvents, signoffs, signing>>

MoveKinds == {"advance", "return", "restart"}
PauseKinds == {"pause", "resume"}
PhaseKinds == MoveKinds \union PauseKinds \union {"complete"}
SignoffKinds == {"observed", "demonstrated", "revoked"}

PhaseEvent ==
  [enrollment : Nat, kind : PhaseKinds, from : Phases \union {NoPhase},
   to : Phases \union {NoPhase}, effective : Nat, recorded : Nat, epoch : Nat]
Signoff == [enrollment : Nat, task : Tasks, kind : SignoffKinds, by : Signers, at : Nat]

\* scope is what the gate read.
Request == [enrollment : Nat \ {0}, task : Tasks, scope : BOOLEAN]
NoRequest == [enrollment |-> 0]

(***************************************************************************)
(* Phase and pause, derived from the stream of the current pin epoch.      *)
(***************************************************************************)
PhaseEventsOf(e, epoch, kinds) ==
  {i \in DOMAIN phaseEvents :
     /\ phaseEvents[i].enrollment = e
     /\ phaseEvents[i].epoch = epoch
     /\ phaseEvents[i].kind \in kinds}

\* ORDER BY effective_at, id: the order every reader shows.
Precedes(i, j) ==
  \/ phaseEvents[i].effective < phaseEvents[j].effective
  \/ phaseEvents[i].effective = phaseEvents[j].effective /\ i < j
Last(ids) == CHOOSE i \in ids : \A j \in ids \ {i} : Precedes(j, i)

\* Where the moves among ids lead, and whether the pauses among them leave it
\* paused.
PhaseAfter(moves) == IF moves = {} THEN NoPhase ELSE phaseEvents[Last(moves)].to
PausedAfter(pauses) == pauses # {} /\ phaseEvents[Last(pauses)].kind = "pause"

\* Variant: the phase is read over every epoch, as if pins never changed.
CurrentPhaseOfAnyEpoch(e) ==
  PhaseAfter({i \in DOMAIN phaseEvents :
                phaseEvents[i].enrollment = e /\ phaseEvents[i].kind \in MoveKinds})

CurrentPhase(e) == PhaseAfter(PhaseEventsOf(e, Epoch(e), MoveKinds))
IsPaused(e) == PausedAfter(PhaseEventsOf(e, Epoch(e), PauseKinds))

\* The edge kinds that permit each kind of move.
EdgeKinds(kind) ==
  CASE kind = "advance" -> {"advance", "skip"}
    [] kind = "return" -> {"remediation"}
    [] kind = "restart" -> {"restart"}

Follows(from, kind, to) ==
  IF from = NoPhase THEN kind = "advance"
  ELSE \E t \in Transitions : t.from = from /\ t.to = to /\ t.kind \in EdgeKinds(kind)

\* Variant: only what the epoch holds is looked at, not its opening instant.
InOrderWithinTheEpoch(e, effective) ==
  \A i \in DOMAIN phaseEvents :
    phaseEvents[i].enrollment = e => phaseEvents[i].effective <= effective

\* An event appends in effective order, and takes effect no earlier than the
\* version change that opened its epoch.
InOrder(e, effective) ==
  /\ \A i \in DOMAIN phaseEvents :
       phaseEvents[i].enrollment = e => phaseEvents[i].effective <= effective
  /\ Epoch(e) # 0 => lifecycle[Epoch(e)].at <= effective

\* What phase_event_pins_enrollment_version accepts.
OfThePin(e, phase) == phase # NoPhase => PhaseVersion[phase] = enrollments[e].version

(***************************************************************************)
(* Phase events.                                                           *)
(***************************************************************************)
PhaseRow(e, kind, from, to, effective) ==
  [enrollment |-> e, kind |-> kind, from |-> from, to |-> to,
   effective |-> effective, recorded |-> clock, epoch |-> Epoch(e)]

RecordPhase(row) ==
  /\ Len(phaseEvents) < MaxPhaseEvents
  /\ row.effective <= clock
  /\ Status(row.enrollment) = "active"
  /\ InOrder(row.enrollment, row.effective)
  /\ phaseEvents' = Append(phaseEvents, row)
  /\ UNCHANGED <<enrollmentVars, signoffs, signing>>

\* record_phase_event for advance, return and restart.
Move(e, kind, to, effective) ==
  /\ ~IsPaused(e)
  /\ PhaseVersion[to] = enrollments[e].version
  /\ Follows(CurrentPhase(e), kind, to)
  /\ RecordPhase(PhaseRow(e, kind, CurrentPhase(e), to, effective))

\* record_phase_event for pause, resume and complete.
Mark(e, kind, effective) ==
  /\ CurrentPhase(e) # NoPhase
  /\ IsPaused(e) = (kind = "resume")
  /\ RecordPhase(PhaseRow(e, kind, CurrentPhase(e), NoPhase, effective))

(***************************************************************************)
(* Signoffs.                                                               *)
(***************************************************************************)
Prior(e, task) ==
  \E i \in DOMAIN signoffs : signoffs[i].enrollment = e /\ signoffs[i].task = task

InScope(u, e) == u \in Coordinators \/ (u \in Authors /\ <<e, u>> \in assigned)

\* What record reads before its transaction: the pinned task and the scope.
SignoffGate(u, e, task) ==
  /\ signing[u].enrollment = 0
  /\ Len(signoffs) < MaxSignoffs
  /\ TaskVersion[task] = enrollments[e].version
  /\ signing' = [signing EXCEPT ![u] = [enrollment |-> e, task |-> task,
                                        scope |-> InScope(u, e)]]
  /\ UNCHANGED <<enrollmentVars, phaseEvents, signoffs>>

\* What task_signoff_takes_a_pinned_task accepts.
SignoffAccepted(e, task) == TaskVersion[task] = enrollments[e].version

\* Variant: a signer in scope supersedes too.
SignoffAdmittedInScope(u, e, task, kind) ==
  IF Prior(e, task) THEN signing[u].scope \/ u \in Reviewers
  ELSE signing[u].scope /\ kind # "revoked"

SignoffAdmitted(u, e, task, kind) ==
  IF Prior(e, task) THEN u \in Reviewers
  ELSE signing[u].scope /\ kind # "revoked"

SignoffTx(u, kind) ==
  LET e == signing[u].enrollment
      task == signing[u].task
  IN  /\ e # 0
      /\ Len(signoffs) < MaxSignoffs
      /\ SignoffAdmitted(u, e, task, kind)
      /\ SignoffAccepted(e, task)
      /\ signoffs' = Append(signoffs, [enrollment |-> e, task |-> task, kind |-> kind,
                                       by |-> u, at |-> clock])
      /\ signing' = [signing EXCEPT ![u] = NoRequest]
      /\ UNCHANGED <<enrollmentVars, phaseEvents>>

\* Refused by the service, aborted by a trigger, or the client went away.
SignoffDropped(u) ==
  /\ signing[u].enrollment # 0
  /\ signing' = [signing EXCEPT ![u] = NoRequest]
  /\ UNCHANGED <<enrollmentVars, phaseEvents, signoffs>>

-----------------------------------------------------------------------------
Init ==
  /\ EnrollmentsInit
  /\ phaseEvents = <<>>
  /\ signoffs = <<>>
  /\ signing = [u \in Signers |-> NoRequest]

Next ==
  \/ EnrollmentsNext /\ UNCHANGED <<phaseEvents, signoffs, signing>>
  \/ \E e \in DOMAIN enrollments, kind \in MoveKinds, to \in Phases, t \in 0..clock :
       Move(e, kind, to, t)
  \/ \E e \in DOMAIN enrollments, kind \in PauseKinds \union {"complete"},
        t \in 0..clock : Mark(e, kind, t)
  \/ \E u \in Signers, e \in DOMAIN enrollments, task \in Tasks : SignoffGate(u, e, task)
  \/ \E u \in Signers, kind \in SignoffKinds : SignoffTx(u, kind)
  \/ \E u \in Signers : SignoffDropped(u)

Spec == Init /\ [][Next]_vars

-----------------------------------------------------------------------------
(***************************************************************************)
(* The pin timeline packet_verify.rs reads out of an enrollment's history. *)
(* An epoch is the version change that opened it, and 0 the original pin.  *)
(***************************************************************************)
Epochs(e) == {0} \union VersionChanges(e)

\* The version change that closes an epoch, as a set of at most one.
Closing(e, k) ==
  {j \in VersionChanges(e) : j > k /\ \A i \in VersionChanges(e) : i > k => j <= i}

EpochVersion(e, k) ==
  IF k # 0 THEN lifecycle[k].to
  ELSE IF VersionChanges(e) = {} THEN enrollments[e].version
  ELSE LET first == CHOOSE j \in Closing(e, 0) : TRUE IN lifecycle[first].from

\* PinEpoch::includes: both boundary seconds belong to the epoch.
Includes(e, k, instant) ==
  /\ k # 0 => lifecycle[k].at <= instant
  /\ \A j \in Closing(e, k) : instant <= lifecycle[j].at

\* PinHistory::of reports nothing.
PinHistoryCoheres(e) ==
  /\ \A k \in Epochs(e), j \in VersionChanges(e) :
       j \in Closing(e, k) =>
         /\ lifecycle[j].from = EpochVersion(e, k)
         /\ k # 0 => lifecycle[k].at <= lifecycle[j].at
  /\ EpochVersion(e, Epoch(e)) = enrollments[e].version

\* PinHistory::check_signoffs reports nothing.
SignoffsExplained(e) ==
  \A i \in DOMAIN signoffs :
    signoffs[i].enrollment = e =>
      \E k \in Epochs(e) :
        /\ EpochVersion(e, k) = TaskVersion[signoffs[i].task]
        /\ Includes(e, k, signoffs[i].at)

\* PinHistory::check_phase_events reports nothing.
PhaseEventsExplained(e) ==
  \A i \in DOMAIN phaseEvents :
    phaseEvents[i].enrollment = e =>
      LET p == phaseEvents[i]
      IN  /\ p.epoch \in Epochs(e)
          /\ \A phase \in {p.from, p.to} \ {NoPhase} :
               PhaseVersion[phase] = EpochVersion(e, p.epoch)
          /\ p.epoch # 0 => lifecycle[p.epoch].at <= p.effective
          /\ Includes(e, p.epoch, p.recorded)

-----------------------------------------------------------------------------
(***************************************************************************)
(* Safety.                                                                 *)
(***************************************************************************)

\* The rows and requests have their types.
TypeOK ==
  /\ EnrollmentsTypeOK
  /\ phaseEvents \in Seq(PhaseEvent)
  /\ signoffs \in Seq(Signoff)
  /\ signing \in [Signers -> Request \union {NoRequest}]

\* No trainee pins one version twice, whether by enrolling or by changing
\* versions: the UNIQUE of migration 0005 never aborts what was admitted.
PinsAreDistinct ==
  \A d, e \in DOMAIN enrollments : enrollments[d] = enrollments[e] => d = e

\* Every history the services record is one the packet verifier accepts: pins
\* chain to the current one, and no signoff or phase event lies outside the
\* epoch of the version it names, whatever version change ran in between (ADR
\* 0017's timeline, checked by packet_verify.rs without seeing the services).
PacketVerifies ==
  \A e \in DOMAIN enrollments :
    PinHistoryCoheres(e) /\ SignoffsExplained(e) /\ PhaseEventsExplained(e)

\* What the epoch of event i holds before it, in the order it is shown.
Earlier(i, kinds) ==
  {j \in PhaseEventsOf(phaseEvents[i].enrollment, phaseEvents[i].epoch, kinds) :
     Precedes(j, i)}

\* Read in the order it is shown, each epoch's history is a walk: it enters
\* once, every move leaves the phase the moves before it reached along an edge
\* of that kind, pauses alternate, and nothing moves or completes while paused.
\* Backdated events never reorder what was recorded before them.
PhaseHistoryIsAWalk ==
  \A i \in DOMAIN phaseEvents :
    LET p == phaseEvents[i]
        here == PhaseAfter(Earlier(i, MoveKinds))
    IN  /\ p.from = here
        /\ PausedAfter(Earlier(i, PauseKinds)) = (p.kind = "resume")
        /\ IF p.kind \in MoveKinds THEN Follows(here, p.kind, p.to) ELSE here # NoPhase

\* Whoever supersedes a signoff reviews, and no revocation stands first, also
\* when two signers raced for the first row (ADR 0013).
SupersedingSignoffsAreReviewed ==
  \A i \in DOMAIN signoffs :
    IF \E j \in 1..(i - 1) : /\ signoffs[j].enrollment = signoffs[i].enrollment
                             /\ signoffs[j].task = signoffs[i].task
    THEN signoffs[i].by \in Reviewers
    ELSE signoffs[i].kind # "revoked"
=============================================================================
