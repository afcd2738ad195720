------------------------------- MODULE Retention -------------------------------
(***************************************************************************)
(* Retention administration: retention.rs, retention/{authority, policies, *)
(* holds}.rs and the tables and triggers of migration 0015.                *)
(*                                                                         *)
(* Every service call is one immediate transaction, so its effect is one   *)
(* step.  What interleaves is what each call was made of: a page showed an *)
(* operator the current policies, the active holds and the operator's own  *)
(* controls, and the call waits for the write reservation while others     *)
(* grant, revoke, revise, replace and release.  The clock may be set back. *)
(*                                                                         *)
(* A row's id is its place in its table's sequence.  A retention_authority_*)
(* event and the audit event written beside it are one row here.           *)
(***************************************************************************)
EXTENDS Naturals, Sequences, FiniteSets

CONSTANTS
  Users,
  Administrators,  \* the holders of manage_users
  Classes,         \* RecordClass
  Enrollments,
  Records,         \* evaluation records there ever are
  EnrollmentOf,    \* each one's enrollment
  MaxTime,         \* bound: instants the clock shows
  MaxActs,         \* bound: acts ever recorded
  MaxInFlight      \* bound: calls in flight at once

ASSUME RetentionAssumption ==
  /\ Administrators \subseteq Users
  /\ EnrollmentOf \in [Records -> Enrollments]
  /\ MaxTime \in Nat /\ MaxActs \in Nat /\ MaxInFlight \in Nat

VARIABLES
  clock,     \* OffsetDateTime::now_utc
  records,   \* evaluation_record
  grants,    \* the holders of manage_retention
  policies,  \* retention_policy
  holds,     \* record_hold
  releases,  \* hold_release
  audit,     \* audit_event, retention's kinds
  inFlight   \* the calls sent, each made of what its sender's page showed

vars == <<clock, records, grants, policies, holds, releases, audit, inFlight>>

NoRow == 0

HoldScope ==
  [kind : {"installation"}] \union [kind : {"enrollment"}, id : Enrollments]
    \union [kind : {"record"}, id : Records]

Calls ==
  [op : {"authority"}, by : Users, user : Users, granted : BOOLEAN]
    \union [op : {"policy"}, by : Users, class : Classes, expected_current_id : Nat]
    \union [op : {"hold"}, by : Users, scope : HoldScope, replaces_id : Nat]
    \union [op : {"release"}, by : Users, hold_id : Nat]

PolicyRow == [class : Classes, version_number : Nat, supersedes_id : Nat, created_by : Users]
HoldRow == [scope : HoldScope, created_by : Users, created_at : 0..MaxTime, replaces_id : Nat]
ReleaseRow ==
  [hold_id : Nat, released_by : Users, released_at : 0..MaxTime, replacement_id : Nat]

AuthorityKinds == {"retention_authority_granted", "retention_authority_revoked"}
AdministrationKinds ==
  {"retention_policy_created", "record_hold_created", "record_hold_replaced",
   "record_hold_released"}
AuditRow ==
  [kind : AuthorityKinds, actor : Users, subject : Users]
    \union [kind : AdministrationKinds, actor : Users, subject : Nat]

RetentionTypeOK ==
  /\ clock \in 0..MaxTime
  /\ records \subseteq Records
  /\ grants \subseteq Users
  /\ policies \in Seq(PolicyRow)
  /\ holds \in Seq(HoldRow)
  /\ releases \subseteq ReleaseRow
  /\ audit \in Seq(AuditRow)
  /\ inFlight \subseteq Calls

\* Migration 0015 grants nobody the new capability and no bundle includes it.
Init ==
  /\ clock = 0
  /\ records = {}
  /\ grants = {}
  /\ policies = <<>>
  /\ holds = <<>>
  /\ releases = {}
  /\ audit = <<>>
  /\ inFlight = {}

(***************************************************************************)
(* What the tables say.                                                    *)
(***************************************************************************)
Released(h) == \E r \in releases : r.hold_id = h
Active == {h \in DOMAIN holds : ~Released(h)}

Covers(scope, record) ==
  CASE scope.kind = "installation" -> TRUE
    [] scope.kind = "enrollment" -> scope.id = EnrollmentOf[record]
    [] scope.kind = "record" -> scope.id = record

\* active_holds_for_record
ActiveHoldsFor(record) == {h \in Active : Covers(holds[h].scope, record)}

\* The rows of a class, and its current policy.
Revisions(class) == {p \in DOMAIN policies : policies[p].class = class}
Current(class) ==
  IF Revisions(class) = {} THEN NoRow
  ELSE CHOOSE p \in Revisions(class) :
         \A q \in Revisions(class) : policies[q].version_number <= policies[p].version_number
NextVersion(class) ==
  IF Current(class) = NoRow THEN 1 ELSE policies[Current(class)].version_number + 1

ScopeExists(scope) == scope.kind = "record" => scope.id \in records

(***************************************************************************)
(* The calls.                                                              *)
(***************************************************************************)
\* A call goes out, made of what a page shows: the authority panel to an
\* administrator, the policy editor and the hold list to a holder.
PolicyCalls(u) ==
  {[op |-> "policy", by |-> u, class |-> class, expected_current_id |-> Current(class)] :
     class \in Classes}
HoldCalls(u) ==
  [op : {"hold"}, by : {u}, scope : {s \in HoldScope : ScopeExists(s)},
   replaces_id : Active \union {NoRow}]
ReleaseCalls(u) == [op : {"release"}, by : {u}, hold_id : Active]

Shown ==
  [op : {"authority"}, by : Administrators, user : Users, granted : BOOLEAN]
    \union UNION {PolicyCalls(u) \union HoldCalls(u) \union ReleaseCalls(u) : u \in grants}

Ask ==
  /\ Cardinality(inFlight) < MaxInFlight
  /\ \E call \in Shown \ inFlight : inFlight' = inFlight \union {call}
  /\ UNCHANGED <<clock, records, grants, policies, holds, releases, audit>>

\* Variant: the capability is read when the call arrives, before the wait.
AuthorizedOnArrival(u) == u \in Users

\* authorized_write: the capability is read once the reservation is held.
Authorized(u) == u \in grants

\* The call takes effect as an act in the audit log.
Acts(call, op) ==
  /\ call.op = op
  /\ Len(audit) < MaxActs
  /\ inFlight' = inFlight \ {call}

Record(kind, u, subject) ==
  audit' = Append(audit, [kind |-> kind, actor |-> u, subject |-> subject])

SetAuthority(call) ==
  /\ Acts(call, "authority")
  /\ call.by \in Administrators
  /\ (call.user \in grants) # call.granted
  /\ grants' = IF call.granted THEN grants \union {call.user} ELSE grants \ {call.user}
  /\ Record(IF call.granted THEN "retention_authority_granted"
            ELSE "retention_authority_revoked", call.by, call.user)
  /\ UNCHANGED <<clock, records, policies, holds, releases>>

\* create_policy, with the retention_policy_successor trigger's succession.
CreatePolicy(call) ==
  /\ Acts(call, "policy")
  /\ Authorized(call.by)
  /\ Current(call.class) = call.expected_current_id
  /\ policies' = Append(policies,
       [class |-> call.class, version_number |-> NextVersion(call.class),
        supersedes_id |-> call.expected_current_id, created_by |-> call.by])
  /\ Record("retention_policy_created", call.by, Len(policies) + 1)
  /\ UNCHANGED <<clock, records, grants, holds, releases>>

\* Variant: the hold was active on the page, which is taken for active.
ReleasableAsShown(h) == h \in DOMAIN holds /\ holds[h].created_at <= clock

\* active_refusal, and the chronology triggers on a clock set back.
Releasable(h) == h \in Active /\ holds[h].created_at <= clock

Release(h, u, replacement) ==
  [hold_id |-> h, released_by |-> u, released_at |-> clock, replacement_id |-> replacement]

\* record_hold_replace_releases_previous: the insert releases the predecessor.
ReleasedByReplacement(h, u, replacement) ==
  IF h = NoRow THEN releases ELSE releases \union {Release(h, u, replacement)}

\* write_hold: create_hold and replace_hold.
WriteHold(call) ==
  LET id == Len(holds) + 1 IN
  /\ Acts(call, "hold")
  /\ Authorized(call.by)
  /\ ScopeExists(call.scope)
  /\ call.replaces_id # NoRow => Releasable(call.replaces_id)
  /\ holds' = Append(holds,
       [scope |-> call.scope, created_by |-> call.by, created_at |-> clock,
        replaces_id |-> call.replaces_id])
  /\ releases' = ReleasedByReplacement(call.replaces_id, call.by, id)
  /\ Record(IF call.replaces_id = NoRow THEN "record_hold_created"
            ELSE "record_hold_replaced", call.by, id)
  /\ UNCHANGED <<clock, records, grants, policies>>

ReleaseHold(call) ==
  /\ Acts(call, "release")
  /\ Authorized(call.by)
  /\ Releasable(call.hold_id)
  /\ releases' = releases \union {Release(call.hold_id, call.by, NoRow)}
  /\ Record("record_hold_released", call.by, call.hold_id)
  /\ UNCHANGED <<clock, records, grants, policies, holds>>

\* Variant: a replacement releases its predecessor in a transaction of its own, which
\* the failure of the successor's insert does not undo.
RefuseAfterReleasing(call) ==
  /\ inFlight' = inFlight \ {call}
  /\ releases' = IF call.op = "hold" /\ Authorized(call.by) /\ Releasable(call.replaces_id)
                 THEN releases \union {Release(call.replaces_id, call.by, NoRow)}
                 ELSE releases
  /\ UNCHANGED <<clock, records, grants, policies, holds, audit>>

\* A call refused, invalid, aborted by a trigger or failed at any statement is
\* rolled back, the trigger's work with it.
Refuse(call) ==
  /\ inFlight' = inFlight \ {call}
  /\ UNCHANGED <<clock, records, grants, policies, holds, releases, audit>>

\* A draft is started: a record no hold was asked about.
StartRecord ==
  /\ \E r \in Records \ records : records' = records \union {r}
  /\ UNCHANGED <<clock, grants, policies, holds, releases, audit, inFlight>>

SetClock ==
  /\ \E t \in 0..MaxTime : t # clock /\ clock' = t
  /\ UNCHANGED <<records, grants, policies, holds, releases, audit, inFlight>>

Next ==
  \/ Ask
  \/ \E call \in inFlight :
       \/ SetAuthority(call) \/ CreatePolicy(call) \/ WriteHold(call) \/ ReleaseHold(call)
       \/ Refuse(call)
  \/ StartRecord
  \/ SetClock

Spec == Init /\ [][Next]_vars

(***************************************************************************)
(* What the administration promises.                                       *)
(***************************************************************************)
\* An authority event before j grants u, and none between revokes.
HeldAt(u, j) ==
  \E i \in 1..(j - 1) :
    /\ audit[i].kind = "retention_authority_granted" /\ audit[i].subject = u
    /\ \A k \in (i + 1)..(j - 1) :
         ~(audit[k].kind = "retention_authority_revoked" /\ audit[k].subject = u)

\* The audit log alone tells who may act and that everyone who acted might: each
\* policy, hold and release stands after a grant to its actor no revocation came
\* between, whatever its call waited for (authorized_write), and the capability is
\* held by exactly those the log leaves holding it.
ActsWereAuthorized ==
  /\ \A j \in DOMAIN audit :
       IF audit[j].kind \in AuthorityKinds THEN audit[j].actor \in Administrators
       ELSE HeldAt(audit[j].actor, j)
  /\ grants = {u \in Users : HeldAt(u, Len(audit) + 1)}

\* No policy version and no hold has two successors, whoever saw it current: a
\* class's versions are numbered from 1 and each supersedes the one before, and a
\* replaced hold is released once, by its successor, with the same hand and instant
\* and never before it was placed (StalePolicy, active_refusal, the triggers of
\* migration 0015).
HistoriesDoNotFork ==
  /\ \A p \in DOMAIN policies :
       LET row == policies[p] IN
       /\ row.version_number = Cardinality({q \in Revisions(row.class) : q <= p})
       /\ IF row.version_number = 1 THEN row.supersedes_id = NoRow
          ELSE /\ row.supersedes_id \in Revisions(row.class)
               /\ policies[row.supersedes_id].version_number = row.version_number - 1
  /\ \A h \in DOMAIN holds : holds[h].replaces_id # NoRow =>
       [hold_id |-> holds[h].replaces_id, released_by |-> holds[h].created_by,
        released_at |-> holds[h].created_at, replacement_id |-> h] \in releases
  /\ \A r \in releases :
       /\ r.hold_id \in DOMAIN holds
       /\ holds[r.hold_id].created_at <= r.released_at
       /\ r.replacement_id # NoRow =>
            r.replacement_id \in DOMAIN holds /\ holds[r.replacement_id].replaces_id = r.hold_id
       /\ \A q \in releases : q.hold_id = r.hold_id => q = r

\* A record some hold preserves stays preserved until a holder releases that hold or
\* replaces it by one that names another scope: no failed, refused or competing call
\* lifts it (write_hold, "a failed successor insert cannot weaken the old hold").
PreservedUntilLifted ==
  [][\A r \in records : ActiveHoldsFor(r) # {} /\ ActiveHoldsFor(r)' = {} =>
       \E call \in inFlight \ inFlight' :
         /\ call.by \in grants
         /\ \/ call.op = "release" /\ call.hold_id \in ActiveHoldsFor(r)
            \/ /\ call.op = "hold" /\ call.replaces_id \in ActiveHoldsFor(r)
               /\ Len(holds') > Len(holds) /\ ~Covers(call.scope, r)]_vars
===============================================================================
