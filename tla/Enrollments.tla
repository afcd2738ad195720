----------------------------- MODULE Enrollments -----------------------------
(***************************************************************************)
(* Enrollments, their lifecycle stream and their trainers' assignments:    *)
(* enrollments.rs, assignments.rs and record_enrollment_event of           *)
(* lifecycle.rs, over migrations 0005, 0006 and 0014.                      *)
(*                                                                         *)
(* A table is the sequence of its rows in rowid order.  Every operation is *)
(* gated on assign_training and does all its reading inside one immediate  *)
(* write transaction, so it is one step; a refusal writes nothing and is   *)
(* no step.  Required reasons, notices, audit rows and the capabilities    *)
(* that enrolling grants are left out.  Instants are read from the         *)
(* server's clock after the writer is held; it never runs backwards here.  *)
(***************************************************************************)
EXTENDS Integers, Sequences

CONSTANTS
  Trainees,       \* users who may be enrolled
  Trainers,       \* users holding view_assigned_records
  Versions,       \* program_version
  NoVersion,      \* SQL NULL in a version column
  Published,      \* the versions with a published_at
  Program,        \* the program of each version
  MaxClock,       \* bound: instants
  MaxEnrollments, \* bound: enrollment rows
  MaxLifecycle    \* bound: enrollment_event rows

ASSUME VersionsAssumption ==
  NoVersion \notin Versions /\ Published \subseteq Versions
ASSUME EnrollmentBoundsAssumption ==
  MaxClock \in Nat /\ MaxEnrollments \in Nat /\ MaxLifecycle \in Nat

VARIABLES
  clock,       \* the server's clock, in seconds
  enrollments, \* enrollment
  lifecycle,   \* enrollment_event
  assigned     \* training_assignment, the active rows

enrollmentVars == <<clock, enrollments, lifecycle, assigned>>

LifecycleKinds == {"version_change", "withdraw", "complete", "reinstate"}

Enrollment == [user : Trainees, version : Published]
LifecycleEvent ==
  [enrollment : Nat, kind : LifecycleKinds, at : Nat,
   from : Published \union {NoVersion}, to : Published \union {NoVersion}]

Newest(ids) == CHOOSE i \in ids : \A j \in ids : j <= i

EventsOf(e, kinds) ==
  {i \in DOMAIN lifecycle : lifecycle[i].enrollment = e /\ lifecycle[i].kind \in kinds}

\* lifecycle::status.
Status(e) ==
  LET turns == EventsOf(e, {"withdraw", "complete", "reinstate"})
  IN  IF turns = {} \/ lifecycle[Newest(turns)].kind = "reinstate" THEN "active"
      ELSE IF lifecycle[Newest(turns)].kind = "withdraw" THEN "withdrawn"
      ELSE "completed"

VersionChanges(e) == EventsOf(e, {"version_change"})

\* SELECT MAX(id) over the version changes; 0 stands for NULL.
Epoch(e) == IF VersionChanges(e) = {} THEN 0 ELSE Newest(VersionChanges(e))

Pins(u, v) == \E e \in DOMAIN enrollments : enrollments[e] = [user |-> u, version |-> v]

\* Variant: a version need not be published.
TargetAdmittedUnpublished(e, to) ==
  /\ to # enrollments[e].version
  /\ Program[to] = Program[enrollments[e].version]
  /\ ~Pins(enrollments[e].user, to)

\* Variant: the trainee's other enrollments are not looked at.
TargetAdmittedTwice(e, to) ==
  /\ to \in Published
  /\ to # enrollments[e].version
  /\ Program[to] = Program[enrollments[e].version]

\* version_change_refusal answers no refusal.
TargetAdmitted(e, to) ==
  /\ to \in Published
  /\ to # enrollments[e].version
  /\ Program[to] = Program[enrollments[e].version]
  /\ ~Pins(enrollments[e].user, to)

-----------------------------------------------------------------------------
EnrollmentsInit ==
  /\ clock = 0
  /\ enrollments = <<>>
  /\ lifecycle = <<>>
  /\ assigned = {}

Tick ==
  /\ clock < MaxClock
  /\ clock' = clock + 1
  /\ UNCHANGED <<enrollments, lifecycle, assigned>>

Enroll(u, v) ==
  /\ Len(enrollments) < MaxEnrollments
  /\ v \in Published
  /\ ~Pins(u, v)
  /\ enrollments' = Append(enrollments, [user |-> u, version |-> v])
  /\ UNCHANGED <<clock, lifecycle, assigned>>

Assign(e, t) ==
  /\ Status(e) = "active"
  /\ t \in Trainers
  /\ <<e, t>> \notin assigned
  /\ assigned' = assigned \union {<<e, t>>}
  /\ UNCHANGED <<clock, enrollments, lifecycle>>

EndAssignment(e, t) ==
  /\ <<e, t>> \in assigned
  /\ assigned' = assigned \ {<<e, t>>}
  /\ UNCHANGED <<clock, enrollments, lifecycle>>

LifecycleRow(e, kind, from, to) ==
  [enrollment |-> e, kind |-> kind, at |-> clock, from |-> from, to |-> to]

\* record_enrollment_event for withdraw, complete and reinstate.
Turn(e, kind) ==
  /\ Len(lifecycle) < MaxLifecycle
  /\ (kind = "reinstate") = (Status(e) # "active")
  /\ lifecycle' = Append(lifecycle, LifecycleRow(e, kind, NoVersion, NoVersion))
  /\ UNCHANGED <<clock, enrollments, assigned>>

\* record_enrollment_event for version_change: the event, then the repoint that
\* enrollment_version_change_requires_event accepts because of it.
ChangeVersion(e, to) ==
  /\ Len(lifecycle) < MaxLifecycle
  /\ Status(e) = "active"
  /\ TargetAdmitted(e, to)
  /\ lifecycle' = Append(lifecycle,
                         LifecycleRow(e, "version_change", enrollments[e].version, to))
  /\ enrollments' = [enrollments EXCEPT ![e].version = to]
  /\ UNCHANGED <<clock, assigned>>

EnrollmentsNext ==
  \/ Tick
  \/ \E u \in Trainees, v \in Versions : Enroll(u, v)
  \/ \E e \in DOMAIN enrollments, t \in Trainers : Assign(e, t) \/ EndAssignment(e, t)
  \/ \E e \in DOMAIN enrollments, kind \in LifecycleKinds \ {"version_change"} :
       Turn(e, kind)
  \/ \E e \in DOMAIN enrollments, to \in Versions : ChangeVersion(e, to)

EnrollmentsTypeOK ==
  /\ clock \in Nat
  /\ enrollments \in Seq(Enrollment)
  /\ lifecycle \in Seq(LifecycleEvent)
  /\ assigned \subseteq (DOMAIN enrollments) \X Trainers
=============================================================================
