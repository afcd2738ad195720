----------------------------- MODULE RecordStore -----------------------------
(***************************************************************************)
(* The database half of one evaluation record: the tables of migrations    *)
(* 0008, 0009, 0010 and 0012 and every trigger and CHECK that guards them. *)
(*                                                                         *)
(* Each table is the sequence of its rows in rowid order, so a row's index *)
(* is its id and MAX(id) is the length.  Amendment rows are keyed by the   *)
(* version they amend, which the UNIQUE on predecessor_version_id makes    *)
(* exact.  An `...Accepted' operator is the condition under which no       *)
(* BEFORE INSERT/UPDATE trigger, CHECK or UNIQUE refuses the row.          *)
(*                                                                         *)
(* StoreSpec lets any writer issue any single write the schema accepts, in *)
(* any order: what it guarantees holds "under raw writes exactly as        *)
(* through the service" (0009).  RecordWorkflow reuses these operators for *)
(* the transactions the server really issues.                              *)
(***************************************************************************)
EXTENDS Integers, Sequences, FiniteSets

CONSTANTS
  Users,        \* the user table
  NoUser,       \* SQL NULL in a user column
  Contents,     \* the working copies tell-apart-able by the properties
  MaxEvents,    \* bound: contributor events
  MaxSnapshots, \* bound: draft snapshots
  MaxVersions   \* bound: finalized versions

ASSUME NoUserAssumption == NoUser \notin Users
ASSUME BoundsAssumption ==
  MaxEvents \in Nat /\ MaxSnapshots \in Nat /\ MaxVersions \in Nat

VARIABLES
  owner,          \* evaluation_record.owner_user_id
  copy,           \* draft_rating, draft_rating_modifier and draft_narrative
  events,         \* contributor_event
  decisions,      \* review_decision
  snapshots,      \* draft_snapshot
  versions,       \* evaluation_version
  amendments,     \* amendment, by the version it reopens
  reviewRequired  \* finalization_policy.review_approved of the pinned version

storeVars == <<owner, copy, events, decisions, snapshots, versions, amendments,
               reviewRequired>>

(***************************************************************************)
(* Rows.                                                                   *)
(***************************************************************************)
AuthorKinds == {"created", "contributed", "submitted_for_review"}
EventKinds == AuthorKinds \union {"ownership_transferred", "review_decided"}
Verdicts == {"approved", "changes_requested", "returned"}
Reasons == {"submission", "change_request_return"}

Event == [kind : EventKinds, actor : Users, to : Users \union {NoUser}]
Decision == [reviewer : Users, verdict : Verdicts]
Snapshot == [reason : Reasons, content : Contents, by : Users]
Version == [number : Nat, predecessor : Nat, content : Contents, by : Users]
Marks == [event : Nat, decision : Nat]

(***************************************************************************)
(* Derivations over the rows.                                              *)
(***************************************************************************)
\* ORDER BY version_number DESC LIMIT 1; meaningful when a version exists.
LatestVersion ==
  CHOOSE v \in DOMAIN versions :
    \A w \in DOMAIN versions : versions[w].number <= versions[v].number

\* The reopening marks of a version's amendment, coalesced to zero.
EventMark(v) == IF v \in DOMAIN amendments THEN amendments[v].event ELSE 0
DecisionMark(v) == IF v \in DOMAIN amendments THEN amendments[v].decision ELSE 0

\* The kind of the latest event, and the verdict of the latest decision, past a
\* mark; "" when the cycle is empty.
LatestKind(mark) == IF Len(events) > mark THEN events[Len(events)].kind ELSE ""
LatestVerdict(mark) ==
  IF Len(decisions) > mark THEN decisions[Len(decisions)].verdict ELSE ""

\* A latest version reopened by its amendment.
Reopened == versions # <<>> /\ LatestVersion \in DOMAIN amendments

InReview(eventMark, decisionMark) ==
  \/ LatestKind(eventMark) = "submitted_for_review"
  \/ /\ LatestKind(eventMark) = "review_decided"
     /\ LatestVerdict(decisionMark) = "approved"

\* The view evaluation_record_frozen as migration 0012 leaves it: an unsealed
\* record reads its whole stream, a sealed one is frozen until an amendment
\* reopens it and then reads what came after the marks.
Frozen ==
  IF versions = <<>> THEN InReview(0, 0)
  ELSE IF LatestVersion \notin DOMAIN amendments THEN TRUE
  ELSE InReview(EventMark(LatestVersion), DecisionMark(LatestVersion))

\* An event that makes u a contributor.
Touches(e, u) ==
  \/ e.kind \in AuthorKinds /\ e.actor = u
  \/ e.kind = "ownership_transferred" /\ e.to = u

Contributor(u) == owner = u \/ \E i \in DOMAIN events : Touches(events[i], u)

DecidedEvents == {i \in DOMAIN events : events[i].kind = "review_decided"}
SnapshotsFor(reason) == {i \in DOMAIN snapshots : snapshots[i].reason = reason}
DecisionsOf(verdict) == {i \in DOMAIN decisions : decisions[i].verdict = verdict}

-----------------------------------------------------------------------------
(***************************************************************************)
(* What the schema accepts.  Each faulty variant stands before the         *)
(* operator it is a variant of and drops one trigger or one mark from it;  *)
(* nothing else refers to it.                                              *)
(***************************************************************************)
\* Variant: contributor_event_review_pairs_decision is missing.
EventAcceptedUnpaired(kind, to) ==
  /\ kind \in EventKinds
  /\ (kind = "ownership_transferred") = (to # NoUser)
  /\ kind # "review_decided" => ~Frozen

\* contributor_event_frozen_insert, contributor_event_review_pairs_decision and
\* the table's shape CHECK.  The pairing count makes a raw review_decided event
\* wait for a decision without its pair.
EventAccepted(kind, to) ==
  /\ kind \in EventKinds
  /\ (kind = "ownership_transferred") = (to # NoUser)
  /\ IF kind = "review_decided"
     THEN Len(decisions) = Cardinality(DecidedEvents) + 1
     ELSE ~Frozen

\* Variant: no contributor is refused.
DecisionAcceptedFromAnyone(u, verdict, returns) ==
  LatestKind(0) = "submitted_for_review"

\* review_decision_decides_submitted, review_decision_refuses_contributors and
\* review_decision_change_request_snapshots, given the change_request_return
\* snapshots present when the row arrives.
DecisionAccepted(u, verdict, returns) ==
  /\ LatestKind(0) = "submitted_for_review"
  /\ ~Contributor(u)
  /\ verdict = "changes_requested" =>
       returns >= Cardinality(DecisionsOf("changes_requested")) + 1

\* evaluation_record_owner_change_requires_event.
OwnerAccepted(u) ==
  \/ u = owner
  \/ /\ events # <<>>
     /\ events[Len(events)].kind = "ownership_transferred"
     /\ events[Len(events)].to = u

\* draft_rating_frozen_*, draft_rating_modifier_frozen_*, draft_narrative_frozen_*.
CopyAccepted == ~Frozen

\* Variant: successors_in_order checks the predecessor but not the number, and
\* successors_take_amendments is missing.
VersionAcceptedOutOfOrder(number, predecessor) ==
  /\ (number = 1) = (predecessor = 0)
  /\ \A v \in DOMAIN versions : versions[v].number # number
  /\ predecessor # 0 => versions # <<>> /\ predecessor = LatestVersion

\* The table's CHECK and UNIQUE, evaluation_version_successors_in_order,
\* evaluation_version_successors_take_amendments and, scoped to the cycle the
\* predecessor's amendment opened, evaluation_version_requires_approval.
VersionAccepted(number, predecessor) ==
  /\ (number = 1) = (predecessor = 0)
  /\ \A v \in DOMAIN versions : versions[v].number # number
  /\ predecessor # 0 =>
       /\ versions # <<>>
       /\ predecessor = LatestVersion
       /\ number = versions[LatestVersion].number + 1
       /\ predecessor \in DOMAIN amendments
  /\ reviewRequired =>
       /\ LatestKind(EventMark(predecessor)) = "review_decided"
       /\ LatestVerdict(DecisionMark(predecessor)) = "approved"

\* Variant: amendment_marks_are_truthful is missing.
AmendmentAcceptedAnyMarks(v, eventMark, decisionMark) ==
  /\ versions # <<>> /\ v = LatestVersion
  /\ v \notin DOMAIN amendments

\* amendment_amends_the_latest, amendment_marks_are_truthful and the UNIQUE on
\* predecessor_version_id.
AmendmentAccepted(v, eventMark, decisionMark) ==
  /\ versions # <<>> /\ v = LatestVersion
  /\ v \notin DOMAIN amendments
  /\ eventMark = Len(events)
  /\ decisionMark = Len(decisions)

-----------------------------------------------------------------------------
(***************************************************************************)
(* Raw writes.                                                             *)
(***************************************************************************)
\* Variant: append_event binds the actor and the recipient the wrong way round.
EventRowSwapped(kind, u, to) == [kind |-> kind, actor |-> to, to |-> u]

\* append_event.
EventRow(kind, u, to) == [kind |-> kind, actor |-> u, to |-> to]

StoreInit ==
  /\ owner \in Users
  /\ copy \in Contents
  /\ events = <<>>
  /\ decisions = <<>>
  /\ snapshots = <<>>
  /\ versions = <<>>
  /\ amendments = [v \in {} |-> [event |-> 0, decision |-> 0]]
  /\ reviewRequired \in BOOLEAN

RawEvent(kind, u, to) ==
  /\ Len(events) < MaxEvents
  /\ EventAccepted(kind, to)
  /\ events' = Append(events, EventRow(kind, u, to))
  /\ UNCHANGED <<owner, copy, decisions, snapshots, versions, amendments,
                 reviewRequired>>

\* The AFTER INSERT trigger review_decision_advances_workflow appends the paired
\* event, itself subject to the pairing count over the inserted decision.
RawDecision(u, verdict) ==
  /\ Len(events) < MaxEvents
  /\ DecisionAccepted(u, verdict, Cardinality(SnapshotsFor("change_request_return")))
  /\ Len(decisions) + 1 = Cardinality(DecidedEvents) + 1
  /\ decisions' = Append(decisions, [reviewer |-> u, verdict |-> verdict])
  /\ events' = Append(events, EventRow("review_decided", u, NoUser))
  /\ UNCHANGED <<owner, copy, snapshots, versions, amendments, reviewRequired>>

RawSnapshot(reason, c, u) ==
  /\ Len(snapshots) < MaxSnapshots
  /\ snapshots' = Append(snapshots, [reason |-> reason, content |-> c, by |-> u])
  /\ UNCHANGED <<owner, copy, events, decisions, versions, amendments,
                 reviewRequired>>

RawOwner(u) ==
  /\ OwnerAccepted(u)
  /\ owner' = u
  /\ UNCHANGED <<copy, events, decisions, snapshots, versions, amendments,
                 reviewRequired>>

RawCopy(c) ==
  /\ CopyAccepted
  /\ copy' = c
  /\ UNCHANGED <<owner, events, decisions, snapshots, versions, amendments,
                 reviewRequired>>

RawVersion(number, predecessor, c, u) ==
  /\ Len(versions) < MaxVersions
  /\ VersionAccepted(number, predecessor)
  /\ versions' = Append(versions, [number |-> number, predecessor |-> predecessor,
                                   content |-> c, by |-> u])
  /\ UNCHANGED <<owner, copy, events, decisions, snapshots, amendments,
                 reviewRequired>>

RawAmendment(v, eventMark, decisionMark) ==
  /\ AmendmentAccepted(v, eventMark, decisionMark)
  /\ amendments' =
       [w \in DOMAIN amendments \union {v} |->
          IF w = v THEN [event |-> eventMark, decision |-> decisionMark]
          ELSE amendments[w]]
  /\ UNCHANGED <<owner, copy, events, decisions, snapshots, versions,
                 reviewRequired>>

StoreNext ==
  \/ \E kind \in EventKinds, u \in Users, to \in Users \union {NoUser} :
       RawEvent(kind, u, to)
  \/ \E u \in Users, verdict \in Verdicts : RawDecision(u, verdict)
  \/ \E reason \in Reasons, c \in Contents, u \in Users : RawSnapshot(reason, c, u)
  \/ \E u \in Users : RawOwner(u)
  \/ \E c \in Contents : RawCopy(c)
  \/ \E number \in 1..MaxVersions, predecessor \in 0..Len(versions),
        c \in Contents, u \in Users : RawVersion(number, predecessor, c, u)
  \/ \E v \in DOMAIN versions, eventMark \in 0..Len(events),
        decisionMark \in 0..Len(decisions) : RawAmendment(v, eventMark, decisionMark)

StoreSpec == StoreInit /\ [][StoreNext]_storeVars

-----------------------------------------------------------------------------
(***************************************************************************)
(* Properties of the raw schema.                                           *)
(***************************************************************************)

\* The rows have their columns' types and every amendment row names a version.
StoreTypeOK ==
  /\ owner \in Users
  /\ copy \in Contents
  /\ events \in Seq(Event)
  /\ decisions \in Seq(Decision)
  /\ snapshots \in Seq(Snapshot)
  /\ versions \in Seq(Version)
  /\ DOMAIN amendments \subseteq DOMAIN versions
  /\ amendments \in [DOMAIN amendments -> Marks]
  /\ reviewRequired \in BOOLEAN

\* The finalized versions form one unforked chain: numbered from 1 without a
\* gap, each extending the one before it, and every superseded version carries
\* the amendment that explains its successor (migration 0012's succession
\* triggers, with the CHECK and UNIQUE of 0010).
VersionsFormOneChain ==
  /\ \A v \in DOMAIN versions :
       versions[v].number = v /\ versions[v].predecessor = v - 1
  /\ \A v \in DOMAIN versions : v < Len(versions) => v \in DOMAIN amendments

\* The decisions that belong to the cycle which sealed version v: those past the
\* mark it was reopened at, up to the mark its own amendment recorded.
SealingDecisions(v) ==
  {d \in DOMAIN decisions :
     /\ d > DecisionMark(v - 1)
     /\ v \in DOMAIN amendments => d <= DecisionMark(v)}

\* Under a policy that requires review, every version was sealed by an approval
\* of its own cycle: no approval seals two versions, whatever order raw writers
\* use (0012: "a forged low mark would resurrect the superseded cycle's
\* approval as if it belonged to the reopened one").
EveryVersionHasItsApproval ==
  reviewRequired =>
    \A v \in DOMAIN versions :
      \E d \in SealingDecisions(v) : decisions[d].verdict = "approved"

\* Every decision in the stream answers the submission immediately before it,
\* and comes from someone no earlier event makes a contributor (0009's
\* decides_submitted and refuses_contributors triggers, over the whole history).
DecisionsAnswerSubmissions ==
  \A i \in DecidedEvents :
    /\ i > 1 /\ events[i - 1].kind = "submitted_for_review"
    /\ \A j \in 1..(i - 1) : ~Touches(events[j], events[i].actor)

\* Decision rows and review_decided events pair one to one, in order, by the
\* same reviewer, so the two streams every derivation joins never drift.
DecisionsPairWithEvents ==
  /\ Len(decisions) = Cardinality(DecidedEvents)
  /\ \A i \in DecidedEvents :
       events[i].actor = decisions[Cardinality({j \in DecidedEvents : j <= i})].reviewer
=============================================================================
