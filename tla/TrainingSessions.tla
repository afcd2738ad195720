--------------------------- MODULE TrainingSessions ---------------------------
(***************************************************************************)
(* Training sessions, their trainers and the drafts that document them:    *)
(* training_sessions.rs, session_membership.rs and create of               *)
(* evaluation_drafts.rs, over migrations 0007 and 0008, among enrollments  *)
(* whose pins, status and assignments change.                              *)
(*                                                                         *)
(* Each operation reads its caller's authority outside its write           *)
(* transaction, which then rereads the rows it depends on: two steps, and  *)
(* anything may happen in between.  A refusal is Drop.  The instants a     *)
(* session resolves to are Nat; how local times become instants is left    *)
(* out, and so are names, dates and audit rows.                            *)
(***************************************************************************)
EXTENDS Enrollments, FiniteSets

CONSTANTS
  Coordinators, \* hold assign_training
  Authors,      \* hold author_evaluation
  Phases,       \* phase
  NoPhase,      \* SQL NULL in phase_id
  PhaseVersion, \* the version of each phase
  Horizon,      \* bound: the latest instant a session names
  MaxSessions,  \* bound: training_session rows
  MaxInFlight   \* bound: requests past their gate at once

Users == Coordinators \union Authors

ASSUME SessionPhasesAssumption ==
  NoPhase \notin Phases /\ PhaseVersion \in [Phases -> Versions]
ASSUME SessionBoundsAssumption ==
  Horizon \in Nat /\ MaxSessions \in Nat /\ MaxInFlight \in Nat

VARIABLES
  sessions, \* training_session
  members,  \* session_trainer, by session
  records,  \* evaluation_record with its evaluation_session row
  pending   \* the request each user has past its gate

vars == <<enrollmentVars, sessions, members, records, pending>>

Instants == 0..Horizon
\* COALESCE(utc_end, i64::MAX): past every instant.
Forever == Horizon + 1

Ended == {"completed", "interrupted"}
Dispositions == Ended \union {"open", "cancelled"}

Session ==
  [enrollment : Nat, version : Published, start : Instants, end : 0..Forever,
   phase : Phases \union {NoPhase}, disposition : Dispositions]
Record == [session : Nat, enrollment : Nat, version : Published]

\* "work" is the gate of updating, closing and adding a trainer; on is a session,
\* or the enrollment a session is created for.
Ops == {"none", "create", "work", "draft"}
Request == [op : Ops, on : Nat]
NoRequest == [op |-> "none", on |-> 0]

(***************************************************************************)
(* What the rows say.                                                      *)
(***************************************************************************)
TraineeOf(e) == enrollments[e].user
Active(s) == sessions[s].disposition # "cancelled"
Documented(s) == \E i \in DOMAIN records : records[i].session = s
InVersion(phase, v) == phase # NoPhase => PhaseVersion[phase] = v

\* Variant: only sessions of the same enrollment are compared.
OverlapsOnTheEnrollment(e, start, end, exclude) ==
  \E s \in DOMAIN sessions \ {exclude} :
    /\ sessions[s].enrollment = e
    /\ Active(s)
    /\ sessions[s].start < end /\ start < sessions[s].end

\* overlaps, and the condition of the two no_overlap triggers: half-open
\* intervals of one trainee, across enrollments.
Overlaps(e, start, end, exclude) ==
  \E s \in DOMAIN sessions \ {exclude} :
    /\ TraineeOf(sessions[s].enrollment) = TraineeOf(e)
    /\ Active(s)
    /\ sessions[s].start < end /\ start < sessions[s].end

(***************************************************************************)
(* What the schema accepts.                                                *)
(***************************************************************************)
\* The CHECKs and the (phase, version) foreign key of training_session.
RowAccepted(row) ==
  /\ row.end >= row.start
  /\ (row.disposition \in Ended) = (row.end # Forever)
  /\ InVersion(row.phase, row.version)

InsertAccepted(row) ==
  /\ RowAccepted(row)
  /\ row.version = enrollments[row.enrollment].version
  /\ row.disposition # "cancelled" => ~Overlaps(row.enrollment, row.start, row.end, 0)

UpdateAccepted(s, row) ==
  /\ RowAccepted(row)
  /\ sessions[s].disposition = "open"
  /\ row.enrollment = sessions[s].enrollment /\ row.version = sessions[s].version
  /\ row.disposition # "cancelled" => ~Overlaps(row.enrollment, row.start, row.end, s)
  /\ row.disposition = "cancelled" => ~Documented(s)

\* evaluation_session_agrees and evaluation_session_covers_live_sessions.
CoverageAccepted(record) ==
  /\ record.enrollment = sessions[record.session].enrollment
  /\ record.version = sessions[record.session].version
  /\ Active(record.session)

\* session_trainer_keeps_one.
RemovalAccepted(s) == Cardinality(members[s]) # 1

(***************************************************************************)
(* What each transaction rechecks once it holds the write lock.            *)
(***************************************************************************)
\* The disposition rules of create, and EndBeforeStart of session_time.
Shape(start, end, disposition) ==
  /\ disposition \in Ended \union {"open"}
  /\ (disposition = "open") = (end = Forever)
  /\ start <= end

CreateAdmitted(e, start, end, disposition, phase) ==
  /\ Shape(start, end, disposition)
  /\ Status(e) = "active"
  /\ InVersion(phase, enrollments[e].version)
  /\ ~Overlaps(e, start, end, 0)

\* Variant: a phase is looked up in the enrollment's present pin.
UpdateAdmittedUnderThePin(s, start, phase) ==
  /\ sessions[s].disposition = "open"
  /\ phase = sessions[s].phase \/ InVersion(phase, enrollments[sessions[s].enrollment].version)
  /\ ~Overlaps(sessions[s].enrollment, start, Forever, s)

\* Variant: the session's end is not looked at again.
UpdateAdmittedAfterClose(s, start, phase) ==
  /\ InVersion(phase, sessions[s].version)
  /\ ~Overlaps(sessions[s].enrollment, start, Forever, s)

UpdateAdmitted(s, start, phase) ==
  /\ sessions[s].disposition = "open"
  /\ phase = sessions[s].phase \/ InVersion(phase, sessions[s].version)
  /\ ~Overlaps(sessions[s].enrollment, start, Forever, s)

\* Variant: a documented session may be cancelled.
CloseAdmittedUndocumented(s, disposition, end) ==
  /\ sessions[s].disposition = "open"
  /\ IF disposition = "cancelled" THEN end = Forever
     ELSE end # Forever /\ sessions[s].start <= end

\* An end shortens an open interval, so close does not look for overlaps.
CloseAdmitted(s, disposition, end) ==
  /\ sessions[s].disposition = "open"
  /\ IF disposition = "cancelled" THEN ~Documented(s) /\ end = Forever
     ELSE end # Forever /\ sessions[s].start <= end

\* Variant: anyone may be made a trainer.
AddAdmittedToAnyone(s, t) == t \notin members[s]

AddAdmitted(s, t) == t \in Authors \ members[s]

\* Variant: the count is taken before the writer is held.
RemoveAdmittedUncounted(s, t) == t \in members[s]

RemoveAdmitted(s, t) == t \in members[s] /\ Cardinality(members[s]) > 1

\* Variant: the gate's reading of the session is trusted.
DraftAdmittedOnGate(s) == ~Documented(s)

DraftAdmitted(s) == Active(s) /\ ~Documented(s)

(***************************************************************************)
(* Gates.                                                                  *)
(***************************************************************************)
InFlight == {u \in Users : pending[u].op # "none"}

Pass(u, op, on) ==
  /\ u \notin InFlight
  /\ Cardinality(InFlight) < MaxInFlight
  /\ pending' = [pending EXCEPT ![u] = [op |-> op, on |-> on]]
  /\ UNCHANGED <<enrollmentVars, sessions, members, records>>

AssignedAuthor(u, e) == u \in Authors /\ <<e, u>> \in assigned

\* may_create.
GateCreate(u, e) ==
  /\ u \in Coordinators \/ AssignedAuthor(u, e)
  /\ Pass(u, "create", e)

\* may_work.
GateWork(u, s) ==
  /\ u \in Coordinators \/ u \in members[s]
  /\ Pass(u, "work", s)

\* may_start, for a session that is not cancelled when it is first read.
GateDraft(u, s) ==
  /\ Active(s)
  /\ \/ u \in Coordinators
     \/ u \in Authors /\ u \in members[s]
     \/ AssignedAuthor(u, sessions[s].enrollment)
  /\ Pass(u, "draft", s)

Drop(u) ==
  /\ u \in InFlight
  /\ pending' = [pending EXCEPT ![u] = NoRequest]
  /\ UNCHANGED <<enrollmentVars, sessions, members, records>>

Answered(u) == pending' = [pending EXCEPT ![u] = NoRequest]

-----------------------------------------------------------------------------
(***************************************************************************)
(* The transactions.                                                       *)
(***************************************************************************)
SessionRow(e, start, end, phase, disposition) ==
  [enrollment |-> e, version |-> enrollments[e].version, start |-> start,
   end |-> end, phase |-> phase, disposition |-> disposition]

CreateTx(u, start, end, disposition, phase, trainers) ==
  LET e == pending[u].on
  IN  /\ pending[u].op = "create"
      /\ Len(sessions) < MaxSessions
      /\ trainers # {} /\ trainers \subseteq Authors
      /\ CreateAdmitted(e, start, end, disposition, phase)
      /\ sessions' = Append(sessions, SessionRow(e, start, end, phase, disposition))
      /\ members' = Append(members, trainers)
      /\ Answered(u)
      /\ UNCHANGED <<enrollmentVars, records>>

UpdatedRow(s, start, phase) == [sessions[s] EXCEPT !.start = start, !.phase = phase]

UpdateTx(u, start, phase) ==
  LET s == pending[u].on
  IN  /\ pending[u].op = "work"
      /\ UpdateAdmitted(s, start, phase)
      /\ sessions' = [sessions EXCEPT ![s] = UpdatedRow(s, start, phase)]
      /\ Answered(u)
      /\ UNCHANGED <<enrollmentVars, members, records>>

ClosedRow(s, disposition, end) ==
  [sessions[s] EXCEPT !.disposition = disposition, !.end = end]

CloseTx(u, disposition, end) ==
  LET s == pending[u].on
  IN  /\ pending[u].op = "work"
      /\ CloseAdmitted(s, disposition, end)
      /\ sessions' = [sessions EXCEPT ![s] = ClosedRow(s, disposition, end)]
      /\ Answered(u)
      /\ UNCHANGED <<enrollmentVars, members, records>>

AddTrainerTx(u, t) ==
  LET s == pending[u].on
  IN  /\ pending[u].op = "work"
      /\ AddAdmitted(s, t)
      /\ members' = [members EXCEPT ![s] = @ \union {t}]
      /\ Answered(u)
      /\ UNCHANGED <<enrollmentVars, sessions, records>>

\* Only coordinators remove, and nothing else is read before the transaction.
RemoveTrainerTx(s, t) ==
  /\ RemoveAdmitted(s, t)
  /\ members' = [members EXCEPT ![s] = @ \ {t}]
  /\ UNCHANGED <<enrollmentVars, sessions, records, pending>>

RecordRow(s) ==
  [session |-> s, enrollment |-> sessions[s].enrollment, version |-> sessions[s].version]

DraftTx(u) ==
  LET s == pending[u].on
  IN  /\ pending[u].op = "draft"
      /\ DraftAdmitted(s)
      /\ records' = Append(records, RecordRow(s))
      /\ Answered(u)
      /\ UNCHANGED <<enrollmentVars, sessions, members>>

-----------------------------------------------------------------------------
Init ==
  /\ EnrollmentsInit
  /\ sessions = <<>>
  /\ members = <<>>
  /\ records = <<>>
  /\ pending = [u \in Users |-> NoRequest]

SessionStep(u) ==
  \/ \E e \in DOMAIN enrollments : GateCreate(u, e)
  \/ \E s \in DOMAIN sessions : GateWork(u, s)
  \/ \E s \in DOMAIN sessions : GateDraft(u, s)
  \/ /\ pending[u].op = "create"
     /\ \E start \in Instants, end \in 0..Forever, disposition \in Dispositions,
           phase \in Phases \union {NoPhase}, trainers \in SUBSET Authors :
          CreateTx(u, start, end, disposition, phase, trainers)
  \/ \E start \in Instants, phase \in Phases \union {NoPhase} : UpdateTx(u, start, phase)
  \/ \E disposition \in Dispositions \ {"open"}, end \in 0..Forever :
       CloseTx(u, disposition, end)
  \/ \E t \in Users : AddTrainerTx(u, t)
  \/ DraftTx(u)
  \/ Drop(u)

Next ==
  \/ EnrollmentsNext /\ UNCHANGED <<sessions, members, records, pending>>
  \/ \E u \in Users : SessionStep(u)
  \/ \E s \in DOMAIN sessions, t \in Authors : RemoveTrainerTx(s, t)

Spec == Init /\ [][Next]_vars

-----------------------------------------------------------------------------
(***************************************************************************)
(* Safety.                                                                 *)
(***************************************************************************)

\* The rows and requests have their types.
TypeOK ==
  /\ EnrollmentsTypeOK
  /\ sessions \in Seq(Session)
  /\ members \in Seq(SUBSET Authors)
  /\ Len(members) = Len(sessions)
  /\ records \in Seq(Record)
  /\ pending \in [Users -> Request]

Covers(s, instant) ==
  Active(s) /\ sessions[s].start <= instant /\ instant < sessions[s].end

\* No trainee is ever in two sessions at one instant, on any of their
\* enrollments, through creations, moves of an open session's start and closes
\* that race (invariant 7; close alone does not look).
NoInstantTwice ==
  \A r, s \in DOMAIN sessions, instant \in Instants :
    /\ TraineeOf(sessions[r].enrollment) = TraineeOf(sessions[s].enrollment)
    /\ Covers(r, instant) /\ Covers(s, instant)
    => r = s

\* A transaction the service admits is one no CHECK, foreign key or trigger
\* refuses: losers of a race get their typed refusal, never an aborted write.
AdmittedIsAccepted ==
  /\ \A start \in Instants, end \in 0..Forever, disposition \in Dispositions :
       Shape(start, end, disposition) =>
         \A e \in DOMAIN enrollments, phase \in Phases \union {NoPhase} :
           CreateAdmitted(e, start, end, disposition, phase) =>
             InsertAccepted(SessionRow(e, start, end, phase, disposition))
  /\ \A s \in DOMAIN sessions :
       /\ \A start \in Instants, phase \in Phases \union {NoPhase} :
            UpdateAdmitted(s, start, phase) => UpdateAccepted(s, UpdatedRow(s, start, phase))
       /\ \A disposition \in Dispositions \ {"open"}, end \in 0..Forever :
            CloseAdmitted(s, disposition, end) =>
              UpdateAccepted(s, ClosedRow(s, disposition, end))
       /\ DraftAdmitted(s) => CoverageAccepted(RecordRow(s))
       /\ \A t \in Authors : RemoveAdmitted(s, t) => RemovalAccepted(s)

\* A documented session was worked, has one draft, and the draft speaks the
\* vocabulary the session was recorded under: cancelling, drafting twice and
\* version changes race without breaking it (0008's coverage triggers and the
\* one-draft rule the service alone keeps).
DocumentedWasWorked ==
  /\ \A i \in DOMAIN records :
       /\ Active(records[i].session)
       /\ records[i].version = sessions[records[i].session].version
       /\ records[i].enrollment = sessions[records[i].session].enrollment
  /\ \A i, j \in DOMAIN records : records[i].session = records[j].session => i = j

\* Additions and removals that race leave every session a trainer.
SessionsKeepATrainer == \A s \in DOMAIN sessions : members[s] # {}

\* A session's phase belongs to the version it was recorded under, however the
\* enrollment's pin has moved since (invariant 5, through 0007's stamp).
PhasesAreHistoric ==
  \A s \in DOMAIN sessions : InVersion(sessions[s].phase, sessions[s].version)

\* A session never changes enrollment or version, and once it is closed nothing
\* about it changes: a request that passed its gate while the session was open
\* comes too late.
ClosedIsSettled ==
  [][\A s \in DOMAIN sessions :
       /\ sessions'[s].enrollment = sessions[s].enrollment
       /\ sessions'[s].version = sessions[s].version
       /\ sessions[s].disposition # "open" => sessions'[s] = sessions[s]]_vars
=============================================================================
