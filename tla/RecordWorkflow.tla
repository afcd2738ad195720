---------------------------- MODULE RecordWorkflow ----------------------------
(***************************************************************************)
(* The server's workflow on one evaluation record: the transactions that   *)
(* save, transfer, submit, decide, finalize and reopen it, interleaved.    *)
(*                                                                         *)
(* A request is formed from a workspace the client loaded (its revision    *)
(* and content), then passes the gate its handler evaluates outside the    *)
(* write transaction, then runs its BEGIN IMMEDIATE transaction, which is  *)
(* one atomic step.  Anything may happen between two of those steps.  A    *)
(* refusal, a client that goes away and a rolled-back transaction are the  *)
(* same step, Drop: they leave no trace in the database.                   *)
(*                                                                         *)
(* Capabilities are granted when an account is made and a record's policy  *)
(* is fixed with its published version, so both are constant here.  An     *)
(* author whose assignment ends only stops sending, which is one of the    *)
(* behaviours here, so Authors are those ever in the record's scope.       *)
(***************************************************************************)
EXTENDS RecordStore

CONSTANTS
  Authors,      \* hold author_evaluation, and some time the record's scope
  Coordinators, \* hold assign_training
  Reviewers,    \* hold review_evaluation
  Readers,      \* the enrollment's history is open to them
  Creator,      \* who started the draft
  Blank,        \* the copy of a draft just started
  Complete,     \* the contents the policy's completion rules accept
  MaxRevision,  \* bound: evaluation_record.revision
  MaxInFlight   \* bound: requests in flight at once

ASSUME RolesAssumption ==
  /\ Authors \subseteq Users /\ Coordinators \subseteq Users
  /\ Reviewers \subseteq Users /\ Readers \subseteq Users
  /\ Creator \in Authors \union Coordinators
ASSUME ContentsAssumption == Blank \in Contents /\ Complete \subseteq Contents
ASSUME WorkflowBoundsAssumption == MaxRevision \in Nat /\ MaxInFlight \in Nat

VARIABLES
  revision, \* evaluation_record.revision, the optimistic-concurrency token
  pending,  \* the request each user has in flight
  editors   \* observer: who changed the copy in the current cycle

vars == <<storeVars, revision, pending, editors>>

Ops == {"save", "transfer", "submit", "decide", "finalize", "open"}

\* A cycle is one run of the workflow from an editable copy to a sealed version.
Cycles == Nat \X BOOLEAN
Cycle == <<Len(versions), Reopened>>

\* revision, seen and cycle are what the client's workspace showed; cycle is an
\* observer, the others travel as the request's token and as what the user read.
Requests ==
  {r \in [op : Ops \union {"none"}, revision : Nat, seen : Contents, cycle : Cycles,
          content : Contents, to : Users \union {NoUser}, verdict : Verdicts \union {""},
          gated : BOOLEAN] :
     (r.op = "transfer") = (r.to # NoUser) /\ (r.op = "decide") = (r.verdict # "")}

(***************************************************************************)
(* Status and authority.                                                   *)
(***************************************************************************)
StatusIn(eventMark, decisionMark) ==
  CASE LatestKind(eventMark) = "submitted_for_review" -> "submitted"
    [] LatestKind(eventMark) = "review_decided" ->
         IF LatestVerdict(decisionMark) = "" THEN "draft"
         ELSE LatestVerdict(decisionMark)
    [] OTHER -> "draft"

\* Variant: the reopened cycle reads the whole stream, as before amendments.
StatusUnscoped ==
  IF versions = <<>> \/ Reopened THEN StatusIn(0, 0) ELSE "finalized"

Status ==
  IF versions = <<>> THEN StatusIn(0, 0)
  ELSE IF ~Reopened THEN "finalized"
  ELSE StatusIn(EventMark(LatestVersion), DecisionMark(LatestVersion))

\* Variant: an approved copy still takes writes.
ApprovedTakesWrites == Status \in {"submitted", "finalized"}

\* DraftStatus::frozen_refusal answers a refusal.
FrozenRefusal == Status \in {"submitted", "approved", "finalized"}

MayContribute(u) == u \in Authors \union Coordinators

\* read_grant: contributors and those the enrollment's history is open to always,
\* reviewers once something was submitted.
MayRead(u) ==
  \/ MayContribute(u)
  \/ u \in Readers
  \/ /\ u \in Reviewers
     /\ \E i \in DOMAIN events : events[i].kind = "submitted_for_review"

OwnerOrCoordinator(u) == u = owner \/ u \in Coordinators

(***************************************************************************)
(* What each transaction rechecks once it holds the write lock.            *)
(***************************************************************************)
\* narratives_incomplete and ratings_incomplete, where the pinned version's policy
\* asks for them: submission and finalization share the rule.
Incomplete == copy \notin Complete

\* Variant: the gate's answer about the owner is trusted.
SubmitAdmittedOnGate(u, token) ==
  ~FrozenRefusal /\ token = revision /\ ~Incomplete

\* Variant: the completion rules wait for finalization.
SubmitAdmittedIncomplete(u, token) ==
  ~FrozenRefusal /\ OwnerOrCoordinator(u) /\ token = revision

SaveAdmitted(token) == ~FrozenRefusal /\ token = revision

SubmitAdmitted(u, token) ==
  /\ ~FrozenRefusal
  /\ OwnerOrCoordinator(u)
  /\ token = revision
  /\ ~Incomplete

TransferAdmitted(u, to) == ~FrozenRefusal /\ OwnerOrCoordinator(u) /\ to # owner

\* Variant: only the owner is a contributor.
DecideAdmittedToAuthors(u) == Status = "submitted" /\ u # owner

DecideAdmitted(u) == Status = "submitted" /\ ~Contributor(u)

FinalizeAdmitted(token) ==
  /\ versions # <<>> => Reopened
  /\ token = revision
  /\ reviewRequired => Status = "approved"
  /\ ~Incomplete

OpenAdmitted == versions # <<>> /\ ~Reopened

(***************************************************************************)
(* Requests in flight.                                                     *)
(***************************************************************************)
NoRequest ==
  [op |-> "none", revision |-> 0, seen |-> Blank, cycle |-> <<0, FALSE>>,
   content |-> Blank, to |-> NoUser, verdict |-> "", gated |-> FALSE]

InFlight == {u \in Users : pending[u].op # "none"}

Send(u, request) ==
  /\ u \notin InFlight
  /\ Cardinality(InFlight) < MaxInFlight
  /\ pending' = [pending EXCEPT ![u] = request]
  /\ UNCHANGED <<storeVars, revision, editors>>

\* The workspace is read in one transaction, so its revision, content and status
\* belong together.  A request stays in flight from that read on: filling in the
\* page, the network and the wait for the write lock are one delay.
Viewing(op) ==
  [NoRequest EXCEPT !.op = op, !.revision = revision, !.seen = copy, !.cycle = Cycle]

\* Each operation is sent from a page that offers it for the status it shows.  A
\* capability is had or not for good, so it is a guard here; submit and transfer
\* also read the owner before their transaction, in PassGate.
SendSave(u, c) ==
  /\ MayContribute(u)
  /\ ~FrozenRefusal
  /\ Send(u, [Viewing("save") EXCEPT !.content = c, !.gated = TRUE])

SendSubmit(u) ==
  /\ MayContribute(u)
  /\ ~FrozenRefusal
  /\ Send(u, Viewing("submit"))

SendTransfer(u, to) ==
  /\ MayContribute(u)
  /\ ~FrozenRefusal
  /\ to \in Authors
  /\ Send(u, [NoRequest EXCEPT !.op = "transfer", !.to = to])

\* viewer_may_review.  A decision carries no token: what its reviewer read is
\* only observed.
SendDecide(u, verdict) ==
  /\ u \in Reviewers
  /\ DecideAdmitted(u)
  /\ Send(u, [NoRequest EXCEPT !.op = "decide", !.seen = copy, !.verdict = verdict,
                               !.gated = TRUE])

\* viewer_may_finalize.
SendFinalize(u) ==
  /\ u \in Reviewers
  /\ MayRead(u)
  /\ Status # "finalized"
  /\ Send(u, [Viewing("finalize") EXCEPT !.gated = TRUE])

\* viewer_may_amend.
SendOpen(u) ==
  /\ u \in Reviewers
  /\ MayRead(u)
  /\ Status = "finalized"
  /\ Send(u, [NoRequest EXCEPT !.op = "open", !.gated = TRUE])

PassGate(u) ==
  /\ pending[u].op \in {"submit", "transfer"}
  /\ ~pending[u].gated
  /\ OwnerOrCoordinator(u)
  /\ pending[u].to # owner
  /\ pending' = [pending EXCEPT ![u].gated = TRUE]
  /\ UNCHANGED <<storeVars, revision, editors>>

\* Refused, rolled back, or the client went away: nothing was written.
Drop(u) ==
  /\ u \in InFlight
  /\ pending' = [pending EXCEPT ![u] = NoRequest]
  /\ UNCHANGED <<storeVars, revision, editors>>

Ready(u, op) == pending[u].op = op /\ pending[u].gated
Answered(u) == pending' = [pending EXCEPT ![u] = NoRequest]

-----------------------------------------------------------------------------
(***************************************************************************)
(* Helpers of the transactions.                                            *)
(***************************************************************************)
ScopeMark == IF Reopened THEN EventMark(LatestVersion) ELSE 0

\* Variant: an edit coalesces with a stretch the sealed version already owns.
AttributedUnscoped(u) ==
  IF LatestKind(0) = "contributed" /\ events[Len(events)].actor = u
  THEN events
  ELSE Append(events, EventRow("contributed", u, NoUser))

\* attribute_contribution: one contributed event per stretch within a cycle.
Attributed(u) ==
  IF LatestKind(ScopeMark) = "contributed" /\ events[Len(events)].actor = u
  THEN events
  ELSE Append(events, EventRow("contributed", u, NoUser))

SnapshotRow(reason, u) == [reason |-> reason, content |-> copy, by |-> u]

(***************************************************************************)
(* The transactions.                                                       *)
(***************************************************************************)
\* Variant: the token is not advanced.
SaveTxWithoutBump(u) ==
  /\ Ready(u, "save")
  /\ SaveAdmitted(pending[u].revision)
  /\ Len(Attributed(u)) <= MaxEvents
  /\ copy' = pending[u].content
  /\ events' = Attributed(u)
  /\ editors' = editors \union {u}
  /\ Answered(u)
  /\ UNCHANGED <<owner, decisions, snapshots, versions, amendments, reviewRequired,
                 revision>>

SaveTx(u) ==
  /\ Ready(u, "save")
  /\ SaveAdmitted(pending[u].revision)
  /\ revision < MaxRevision /\ Len(Attributed(u)) <= MaxEvents
  /\ copy' = pending[u].content
  /\ revision' = revision + 1
  /\ events' = Attributed(u)
  /\ editors' = editors \union {u}
  /\ Answered(u)
  /\ UNCHANGED <<owner, decisions, snapshots, versions, amendments, reviewRequired>>

TransferTx(u) ==
  /\ Ready(u, "transfer")
  /\ TransferAdmitted(u, pending[u].to)
  /\ Len(events) < MaxEvents
  /\ events' = Append(events, EventRow("ownership_transferred", u, pending[u].to))
  /\ owner' = pending[u].to
  /\ Answered(u)
  /\ UNCHANGED <<copy, decisions, snapshots, versions, amendments, reviewRequired,
                 revision, editors>>

SubmitTx(u) ==
  /\ Ready(u, "submit")
  /\ SubmitAdmitted(u, pending[u].revision)
  /\ Len(events) < MaxEvents
  /\ snapshots' = Append(snapshots, SnapshotRow("submission", u))
  /\ events' = Append(events, EventRow("submitted_for_review", u, NoUser))
  /\ Answered(u)
  /\ UNCHANGED <<owner, copy, decisions, versions, amendments, reviewRequired,
                 revision, editors>>

DecideTx(u) ==
  /\ Ready(u, "decide")
  /\ DecideAdmitted(u)
  /\ Len(events) < MaxEvents
  /\ snapshots' = IF pending[u].verdict = "changes_requested"
                  THEN Append(snapshots, SnapshotRow("change_request_return", u))
                  ELSE snapshots
  /\ decisions' = Append(decisions, [reviewer |-> u, verdict |-> pending[u].verdict])
  /\ events' = Append(events, EventRow("review_decided", u, NoUser))
  /\ Answered(u)
  /\ UNCHANGED <<owner, copy, versions, amendments, reviewRequired, revision, editors>>

\* The number and predecessor finalize gives the version it seals.
NextNumber == IF Reopened THEN versions[LatestVersion].number + 1 ELSE 1
NextPredecessor == IF Reopened THEN LatestVersion ELSE 0

FinalizeTx(u) ==
  /\ Ready(u, "finalize")
  /\ FinalizeAdmitted(pending[u].revision)
  /\ Len(versions) < MaxVersions
  /\ versions' = Append(versions, [number |-> NextNumber, content |-> copy,
                                   predecessor |-> NextPredecessor, by |-> u])
  /\ Answered(u)
  /\ UNCHANGED <<owner, copy, events, decisions, snapshots, amendments, reviewRequired,
                 revision, editors>>

Amended ==
  [v \in DOMAIN amendments \union {LatestVersion} |->
     IF v = LatestVersion
     THEN [event |-> Len(events), decision |-> Len(decisions)]
     ELSE amendments[v]]

\* Variant: reopening keeps the sealed cycle's token.
OpenTxWithoutBump(u) ==
  /\ Ready(u, "open")
  /\ OpenAdmitted
  /\ amendments' = Amended
  /\ editors' = {}
  /\ Answered(u)
  /\ UNCHANGED <<owner, copy, events, decisions, snapshots, versions, reviewRequired,
                 revision>>

OpenTx(u) ==
  /\ Ready(u, "open")
  /\ OpenAdmitted
  /\ revision < MaxRevision
  /\ amendments' = Amended
  /\ revision' = revision + 1
  /\ editors' = {}
  /\ Answered(u)
  /\ UNCHANGED <<owner, copy, events, decisions, snapshots, versions, reviewRequired>>

-----------------------------------------------------------------------------
Init ==
  /\ owner = Creator
  /\ copy = Blank
  /\ events = <<EventRow("created", Creator, NoUser)>>
  /\ decisions = <<>>
  /\ snapshots = <<>>
  /\ versions = <<>>
  /\ amendments = [v \in {} |-> [event |-> 0, decision |-> 0]]
  /\ reviewRequired \in BOOLEAN
  /\ revision = 0
  /\ pending = [u \in Users |-> NoRequest]
  /\ editors = {}

ClientStep(u) ==
  \/ \E c \in Contents : SendSave(u, c)
  \/ SendSubmit(u)
  \/ \E to \in Users : SendTransfer(u, to)
  \/ \E verdict \in Verdicts : SendDecide(u, verdict)
  \/ SendFinalize(u)
  \/ SendOpen(u)

ServerStep(u) ==
  \/ PassGate(u)
  \/ Drop(u)
  \/ SaveTx(u)
  \/ TransferTx(u)
  \/ SubmitTx(u)
  \/ DecideTx(u)
  \/ FinalizeTx(u)
  \/ OpenTx(u)

Next == \E u \in Users : ClientStep(u) \/ ServerStep(u)

Spec == Init /\ [][Next]_vars

-----------------------------------------------------------------------------
(***************************************************************************)
(* Safety.                                                                 *)
(***************************************************************************)

\* The rows and requests have their types.
TypeOK ==
  /\ StoreTypeOK
  /\ revision \in Nat
  /\ pending \in [Users -> Requests]
  /\ editors \subseteq Users

\* A transaction the service admits is one the schema accepts: no save, submit,
\* transfer, decision, finalization or reopening that passed the typed rechecks
\* ends in a trigger's RAISE(ABORT).  Service and triggers derive the frozen
\* state and the cycle separately (status_of against evaluation_record_frozen).
AdmittedIsAccepted ==
  /\ Frozen = FrozenRefusal
  /\ \A u \in Users :
       /\ SaveAdmitted(pending[u].revision) =>
            CopyAccepted /\ EventAccepted("contributed", NoUser)
       /\ SubmitAdmitted(u, pending[u].revision) =>
            EventAccepted("submitted_for_review", NoUser)
       /\ TransferAdmitted(u, pending[u].to) /\ pending[u].op = "transfer" =>
            EventAccepted("ownership_transferred", pending[u].to)
       /\ \A verdict \in Verdicts :
            DecideAdmitted(u) =>
              DecisionAccepted(u, verdict,
                Cardinality(SnapshotsFor("change_request_return")) + 1)
       /\ FinalizeAdmitted(pending[u].revision) =>
            VersionAccepted(NextNumber, NextPredecessor)
  /\ OpenAdmitted => AmendmentAccepted(LatestVersion, Len(events), Len(decisions))

Tokened == {"save", "submit", "finalize"}

\* A revision names one content: whoever holds the current revision read the
\* current copy, so a save replaces, a submission freezes and a finalization
\* seals only what its sender saw ("never content sealed sight unseen").
RevisionNamesContent ==
  \A u \in Users :
    pending[u].op \in Tokened /\ pending[u].revision = revision =>
      pending[u].seen = copy

\* A request formed in one cycle never commits in a later one, however long it
\* was delayed and whatever the reopened copy looks like (amendments.rs: "a save
\* or finalization carrying a prior cycle's revision resolves as a typed stale
\* refusal").
TokensDieWithTheirCycle ==
  \A u \in Users :
    pending[u].op \in Tokened /\ pending[u].revision = revision /\ Status # "finalized" =>
      pending[u].cycle = Cycle

\* Whose draft it was after the first i events.
Transfers(i) == {j \in 1..i : events[j].kind = "ownership_transferred"}
OwnerAsOf(i) ==
  IF Transfers(i) = {} THEN Creator
  ELSE events[CHOOSE j \in Transfers(i) : \A k \in Transfers(i) : k <= j].to

\* The stream tells whose draft it is, and each submission and transfer in it was
\* made by a coordinator or by the owner of that moment: a former owner whose
\* request passed the gate before a transfer exercises no authority after it.
AuthorityIsCurrent ==
  /\ owner = OwnerAsOf(Len(events))
  /\ \A i \in 2..Len(events) :
       events[i].kind \in {"submitted_for_review", "ownership_transferred"} =>
         events[i].actor \in Coordinators \union {OwnerAsOf(i - 1)}

\* The mark the current cycle (or, once sealed, the last one) began at.
CycleMark ==
  IF versions = <<>> THEN 0
  ELSE IF Reopened THEN EventMark(LatestVersion)
  ELSE EventMark(LatestVersion - 1)

\* Everyone who changed the copy in a cycle is attributed in that cycle, though
\* consecutive saves coalesce: the sealed envelope names all its authors.
EditorsAreAttributed ==
  \A u \in editors :
    \E i \in (CycleMark + 1)..Len(events) :
      events[i].kind = "contributed" /\ events[i].actor = u

\* An approved copy, which takes no edit and no further decision, always has a
\* finalization that will be admitted: no wedge between a frozen copy and a
\* failing completion rule (ADR 0011).
ApprovedNeverWedges == Status = "approved" => FinalizeAdmitted(revision)

\* The last event of the cycle that sealed version v.
SealPoint(v) == IF v \in DOMAIN amendments THEN EventMark(v) ELSE Len(events)
KindsUpTo(kind, i) == {j \in 1..i : events[j].kind = kind}

\* Under a policy that requires review, a sealed version holds exactly the
\* content of the submission its approval answered, both of the version's own
\* cycle, and the approver had no hand in the draft until then.
SealedIsReviewed ==
  reviewRequired =>
    \A v \in DOMAIN versions :
      LET end == SealPoint(v)
          verdict == decisions[Cardinality(KindsUpTo("review_decided", end))]
          submissions == SnapshotsFor("submission")
      IN /\ end - 1 > EventMark(v - 1)
         /\ events[end].kind = "review_decided"
         /\ events[end - 1].kind = "submitted_for_review"
         /\ verdict = [reviewer |-> events[end].actor, verdict |-> "approved"]
         /\ \A i \in 1..end : ~Touches(events[i], verdict.reviewer)
         /\ \E i \in submissions :
              /\ Cardinality({j \in submissions : j <= i})
                   = Cardinality(KindsUpTo("submitted_for_review", end))
              /\ snapshots[i].content = versions[v].content

(***************************************************************************)
(* The record as its readers know it.                                      *)
(***************************************************************************)
SealedContents == [v \in DOMAIN versions |-> versions[v].content]

Promise == INSTANCE SealedRecord
  WITH status <- Status, draft <- copy, sealed <- SealedContents,
       reviewed <- reviewRequired

\* The derived status moves like a workflow state machine and the sealed history
\* only ever grows, by exactly the copy that was approved.
ImplementsSealedRecord == Promise!RecordSpec

(***************************************************************************)
(* What the source says and the code does not do.                          *)
(***************************************************************************)

\* "a raced resubmission, transfer, or competing decision resolves as its typed
\* refusal" (draft_review.rs): a decision lands only on what its reviewer read.
DecisionsLandOnWhatWasRead ==
  [][\A u \in Users : DecideTx(u) => pending[u].seen = copy]_vars

\* draft_review::queue, by the record's latest event alone.
Queued == LatestKind(0) = "submitted_for_review"

\* "The currently submitted drafts" (draft_review.rs): what the queue lists is
\* submitted.
QueueListsSubmitted == Queued => Status = "submitted"
=============================================================================
