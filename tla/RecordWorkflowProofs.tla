-------------------------- MODULE RecordWorkflowProofs --------------------------
(***************************************************************************)
(* What the schema alone guarantees of an evaluation record, and then what *)
(* the server's transactions do, for any users, roles, contents and bounds. *)
(***************************************************************************)
EXTENDS RecordWorkflow, TLAPS, FiniteSetTheorems, SequenceTheorems

(***************************************************************************)
(* The schema.                                                             *)
(***************************************************************************)

\* One step per write preserves the types of the rows.
LEMMA StoreTypesInductive ==
  StoreTypeOK /\ [StoreNext]_storeVars => StoreTypeOK'
<1> SUFFICES ASSUME StoreTypeOK, [StoreNext]_storeVars PROVE StoreTypeOK'
  OBVIOUS
<1> USE DEF StoreTypeOK
<1>1. ASSUME NEW kind \in EventKinds, NEW u \in Users, NEW to \in Users \union {NoUser},
             RawEvent(kind, u, to)
      PROVE StoreTypeOK'
  <2>1. EventRow(kind, u, to) \in Event
    BY DEF EventRow, Event
  <2>2. events' \in Seq(Event)
    BY <1>1, <2>1 DEF RawEvent
  <2> QED BY <1>1, <2>2 DEF RawEvent
<1>2. ASSUME NEW u \in Users, NEW verdict \in Verdicts, RawDecision(u, verdict)
      PROVE StoreTypeOK'
  <2>1. EventRow("review_decided", u, NoUser) \in Event
    BY DEF EventRow, Event, EventKinds
  <2>2. events' \in Seq(Event)
    BY <1>2, <2>1 DEF RawDecision
  <2>3. decisions' \in Seq(Decision)
    BY <1>2 DEF RawDecision, Decision
  <2> QED BY <1>2, <2>2, <2>3 DEF RawDecision
<1>3. ASSUME NEW reason \in Reasons, NEW c \in Contents, NEW u \in Users,
             RawSnapshot(reason, c, u)
      PROVE StoreTypeOK'
  <2>1. snapshots' \in Seq(Snapshot)
    BY <1>3 DEF RawSnapshot, Snapshot
  <2> QED BY <1>3, <2>1 DEF RawSnapshot
<1>4. ASSUME NEW u \in Users, RawOwner(u) PROVE StoreTypeOK'
  BY <1>4 DEF RawOwner
<1>5. ASSUME NEW c \in Contents, RawCopy(c) PROVE StoreTypeOK'
  BY <1>5 DEF RawCopy
<1>6. ASSUME NEW number \in 1..MaxVersions, NEW predecessor \in 0..Len(versions),
             NEW c \in Contents, NEW u \in Users,
             RawVersion(number, predecessor, c, u)
      PROVE StoreTypeOK'
  <2>1. [number |-> number, predecessor |-> predecessor, content |-> c, by |-> u]
          \in Version
    BY BoundsAssumption DEF Version
  <2>2. versions' \in Seq(Version) /\ DOMAIN versions \subseteq DOMAIN versions'
    BY <1>6, <2>1 DEF RawVersion
  <2> QED BY <1>6, <2>2 DEF RawVersion
<1>7. ASSUME NEW v \in DOMAIN versions, NEW eventMark \in 0..Len(events),
             NEW decisionMark \in 0..Len(decisions),
             RawAmendment(v, eventMark, decisionMark)
      PROVE StoreTypeOK'
  <2>1. [event |-> eventMark, decision |-> decisionMark] \in Marks
    BY DEF Marks
  <2>2. DOMAIN amendments' = DOMAIN amendments \union {v}
    BY <1>7 DEF RawAmendment
  <2>3. amendments' \in [DOMAIN amendments' -> Marks]
    BY <1>7, <2>1, <2>2 DEF RawAmendment
  <2> QED BY <1>7, <2>2, <2>3 DEF RawAmendment
<1>8. CASE UNCHANGED storeVars
  BY <1>8 DEF storeVars
<1> QED BY <1>1, <1>2, <1>3, <1>4, <1>5, <1>6, <1>7, <1>8 DEF StoreNext

\* Whatever raw writes arrive, in whatever order, the rows keep their columns'
\* types and an amendment row names an existing version.
THEOREM StoreTypesHold == StoreSpec => []StoreTypeOK
<1>1. StoreInit => StoreTypeOK
  BY DEF StoreInit, StoreTypeOK
<1> QED BY <1>1, StoreTypesInductive, PTL DEF StoreSpec

-----------------------------------------------------------------------------
\* On a chain the version with the highest number is the last row.
LEMMA LatestIsLast ==
  ASSUME StoreTypeOK, VersionsFormOneChain, versions # <<>>
  PROVE  LatestVersion = Len(versions) /\ Len(versions) \in Nat \ {0}
<1>1. Len(versions) \in Nat \ {0} /\ DOMAIN versions = 1..Len(versions)
  BY DEF StoreTypeOK
<1>2. \A w \in DOMAIN versions : versions[w].number <= versions[Len(versions)].number
  BY <1>1 DEF VersionsFormOneChain
<1>3. \A v \in DOMAIN versions :
        (\A w \in DOMAIN versions : versions[w].number <= versions[v].number)
          => v = Len(versions)
  BY <1>1 DEF VersionsFormOneChain
<1> QED BY <1>1, <1>2, <1>3 DEF LatestVersion

\* What the succession triggers leave a new version to be: the next of the chain.
LEMMA AcceptedVersionExtends ==
  ASSUME StoreTypeOK, VersionsFormOneChain,
         NEW number \in Nat, NEW predecessor \in Nat,
         VersionAccepted(number, predecessor)
  PROVE  /\ predecessor = Len(versions)
         /\ number = Len(versions) + 1
         /\ versions # <<>> => Len(versions) \in DOMAIN amendments
<1>1. CASE predecessor = 0
  <2>1. number = 1 /\ \A v \in DOMAIN versions : versions[v].number # 1
    BY <1>1 DEF VersionAccepted
  <2>2. versions = <<>>
    BY <2>1 DEF StoreTypeOK, VersionsFormOneChain
  <2> QED BY <1>1, <2>1, <2>2
<1>2. CASE predecessor # 0
  <2>1. /\ versions # <<>> /\ predecessor = LatestVersion
        /\ number = versions[LatestVersion].number + 1
        /\ predecessor \in DOMAIN amendments
    BY <1>2 DEF VersionAccepted
  <2>2. LatestVersion = Len(versions) /\ Len(versions) \in Nat \ {0}
    BY <2>1, LatestIsLast
  <2>3. versions[Len(versions)].number = Len(versions)
    BY <2>2 DEF VersionsFormOneChain, StoreTypeOK
  <2> QED BY <2>1, <2>2, <2>3
<1> QED BY <1>1, <1>2

LEMMA ChainInductive ==
  StoreTypeOK /\ VersionsFormOneChain /\ [StoreNext]_storeVars => VersionsFormOneChain'
<1> SUFFICES ASSUME StoreTypeOK, VersionsFormOneChain, [StoreNext]_storeVars
             PROVE  VersionsFormOneChain'
  OBVIOUS
<1>1. ASSUME NEW number \in 1..MaxVersions, NEW predecessor \in 0..Len(versions),
             NEW c \in Contents, NEW u \in Users,
             RawVersion(number, predecessor, c, u)
      PROVE VersionsFormOneChain'
  <2> DEFINE row == [number |-> number, predecessor |-> predecessor,
                     content |-> c, by |-> u]
  <2>0. number \in Nat /\ predecessor \in Nat
    BY BoundsAssumption DEF StoreTypeOK
  <2>1. /\ predecessor = Len(versions)
        /\ number = Len(versions) + 1
        /\ versions # <<>> => Len(versions) \in DOMAIN amendments
    BY <1>1, <2>0, AcceptedVersionExtends DEF RawVersion
  <2>2. versions' = Append(versions, row) /\ amendments' = amendments
    BY <1>1 DEF RawVersion
  <2>3. /\ Len(versions') = Len(versions) + 1
        /\ DOMAIN versions' = 1..(Len(versions) + 1)
        /\ \A v \in DOMAIN versions : versions'[v] = versions[v]
        /\ versions'[Len(versions) + 1] = row
        /\ DOMAIN versions = 1..Len(versions)
        /\ Len(versions) \in Nat
    BY <2>2, <2>0 DEF StoreTypeOK
  <2>4. ASSUME NEW v \in DOMAIN versions'
        PROVE versions'[v].number = v /\ versions'[v].predecessor = v - 1
    BY <2>1, <2>3 DEF VersionsFormOneChain
  <2>5. ASSUME NEW v \in DOMAIN versions', v < Len(versions')
        PROVE v \in DOMAIN amendments'
    <3>1. CASE v = Len(versions)
      BY <3>1, <2>1, <2>2, <2>3, <2>5
    <3>2. CASE v < Len(versions)
      BY <3>2, <2>2, <2>3 DEF VersionsFormOneChain
    <3> QED BY <3>1, <3>2, <2>3, <2>5
  <2> QED BY <2>4, <2>5 DEF VersionsFormOneChain
<1>2. ASSUME NEW v \in DOMAIN versions, NEW eventMark \in 0..Len(events),
             NEW decisionMark \in 0..Len(decisions),
             RawAmendment(v, eventMark, decisionMark)
      PROVE VersionsFormOneChain'
  BY <1>2 DEF RawAmendment, VersionsFormOneChain
<1>3. CASE UNCHANGED <<versions, amendments>>
  BY <1>3 DEF VersionsFormOneChain
<1>4. QED
  BY <1>1, <1>2, <1>3
     DEF StoreNext, storeVars, RawEvent, RawDecision, RawSnapshot, RawOwner, RawCopy

\* No order of raw writes forks a record's history, renumbers it, skips a number
\* or supersedes a version without its amendment.
THEOREM ChainHolds == StoreSpec => []VersionsFormOneChain
<1>1. StoreInit => VersionsFormOneChain
  BY DEF StoreInit, VersionsFormOneChain
<1> QED BY <1>1, StoreTypesHold, ChainInductive, PTL DEF StoreSpec

-----------------------------------------------------------------------------
LEMMA ApprovalInductive ==
  StoreTypeOK /\ VersionsFormOneChain /\ EveryVersionHasItsApproval
      /\ [StoreNext]_storeVars
    => EveryVersionHasItsApproval'
<1> SUFFICES ASSUME StoreTypeOK, VersionsFormOneChain, EveryVersionHasItsApproval,
                    [StoreNext]_storeVars, reviewRequired'
             PROVE  \A v \in DOMAIN versions' :
                      \E d \in SealingDecisions(v)' : decisions'[d].verdict = "approved"
  BY DEF EveryVersionHasItsApproval
<1>0. reviewRequired
  BY DEF StoreNext, storeVars, RawEvent, RawDecision, RawSnapshot, RawOwner, RawCopy,
         RawVersion, RawAmendment
<1> DEFINE Sealed(v) ==
             \E d \in SealingDecisions(v) : decisions[d].verdict = "approved"
<1>a. \A v \in DOMAIN versions : Sealed(v)
  BY <1>0 DEF EveryVersionHasItsApproval
<1>1. ASSUME NEW u \in Users, NEW verdict \in Verdicts, RawDecision(u, verdict)
      PROVE \A v \in DOMAIN versions' : Sealed(v)'
  <2>1. /\ Len(decisions) \in Nat /\ DOMAIN decisions = 1..Len(decisions)
        /\ DOMAIN decisions \subseteq DOMAIN decisions'
        /\ \A d \in DOMAIN decisions : decisions'[d] = decisions[d]
    BY <1>1 DEF RawDecision, StoreTypeOK
  <2>2. versions' = versions /\ amendments' = amendments
    BY <1>1 DEF RawDecision
  <2>3. ASSUME NEW v \in DOMAIN versions PROVE Sealed(v)'
    <3>1. PICK d \in SealingDecisions(v) : decisions[d].verdict = "approved"
      BY <1>a
    <3>2. d \in SealingDecisions(v)' /\ decisions'[d].verdict = "approved"
      BY <3>1, <2>1, <2>2 DEF SealingDecisions, DecisionMark
    <3> QED BY <3>2
  <2> QED BY <2>2, <2>3
<1>2. ASSUME NEW number \in 1..MaxVersions, NEW predecessor \in 0..Len(versions),
             NEW c \in Contents, NEW u \in Users,
             RawVersion(number, predecessor, c, u)
      PROVE \A v \in DOMAIN versions' : Sealed(v)'
  <2>0. number \in Nat /\ predecessor \in Nat
    BY BoundsAssumption DEF StoreTypeOK
  <2>1. predecessor = Len(versions) /\ number = Len(versions) + 1
    BY <1>2, <2>0, AcceptedVersionExtends DEF RawVersion
  <2>2. decisions' = decisions /\ amendments' = amendments
    BY <1>2 DEF RawVersion
  <2>3. DOMAIN versions' = DOMAIN versions \union {Len(versions) + 1}
    BY <1>2 DEF RawVersion, StoreTypeOK
  <2>4. ASSUME NEW v \in DOMAIN versions PROVE Sealed(v)'
    BY <1>a, <2>2 DEF SealingDecisions, DecisionMark
  <2>5. ASSUME NEW k \in Nat, k = Len(versions) + 1 PROVE Sealed(k)'
    <3>1. LatestVerdict(DecisionMark(Len(versions))) = "approved"
      BY <1>0, <1>2, <2>1 DEF RawVersion, VersionAccepted
    <3>2. /\ Len(decisions) > DecisionMark(Len(versions))
          /\ decisions[Len(decisions)].verdict = "approved"
      BY <3>1 DEF LatestVerdict
    <3>3. Len(decisions) \in DOMAIN decisions
      BY <3>2 DEF StoreTypeOK, DecisionMark, Marks
    <3>4. k \notin DOMAIN amendments /\ k - 1 = Len(versions)
      BY <2>5 DEF StoreTypeOK
    <3>5. Len(decisions) \in SealingDecisions(k)
      BY <3>2, <3>3, <3>4 DEF SealingDecisions
    <3> QED BY <2>2, <3>2, <3>5 DEF SealingDecisions, DecisionMark
  <2>6. Len(versions) \in Nat
    BY DEF StoreTypeOK
  <2> QED BY <2>3, <2>4, <2>5, <2>6
<1>3. ASSUME NEW v \in DOMAIN versions, NEW eventMark \in 0..Len(events),
             NEW decisionMark \in 0..Len(decisions),
             RawAmendment(v, eventMark, decisionMark)
      PROVE \A w \in DOMAIN versions' : Sealed(w)'
  <2>1. /\ v = Len(versions) /\ decisionMark = Len(decisions)
        /\ v \notin DOMAIN amendments /\ versions # <<>>
    BY <1>3, LatestIsLast DEF RawAmendment, AmendmentAccepted
  <2>2. versions' = versions /\ decisions' = decisions
    BY <1>3 DEF RawAmendment
  <2>3. /\ DOMAIN amendments' = DOMAIN amendments \union {v}
        /\ \A w \in DOMAIN amendments : amendments'[w] = amendments[w]
        /\ amendments'[v].decision = Len(decisions)
    BY <1>3, <2>1 DEF RawAmendment
  <2>4. ASSUME NEW w \in DOMAIN versions PROVE Sealed(w)'
    <3>1. PICK d \in SealingDecisions(w) : decisions[d].verdict = "approved"
      BY <1>a
    <3>2. d \in DOMAIN decisions /\ d <= Len(decisions)
      BY <3>1 DEF SealingDecisions, StoreTypeOK
    <3>3. w - 1 # v
      BY <2>1 DEF StoreTypeOK
    <3>4. DecisionMark(w - 1)' = DecisionMark(w - 1)
      BY <2>3, <3>3 DEF DecisionMark
    <3>5. w \in DOMAIN amendments' => d <= DecisionMark(w)'
      <4>1. CASE w = v
        BY <4>1, <2>3, <3>2 DEF DecisionMark
      <4>2. CASE w # v
        BY <4>2, <2>3, <3>1 DEF DecisionMark, SealingDecisions
      <4> QED BY <4>1, <4>2
    <3>6. d \in SealingDecisions(w)'
      BY <3>1, <3>4, <3>5, <2>2 DEF SealingDecisions
    <3> QED BY <3>1, <3>6, <2>2
  <2> QED BY <2>2, <2>4
<1>4. CASE UNCHANGED <<versions, amendments, decisions>>
  BY <1>a, <1>4 DEF SealingDecisions, DecisionMark
<1> QED
  BY <1>1, <1>2, <1>3, <1>4
     DEF StoreNext, storeVars, RawEvent, RawSnapshot, RawOwner, RawCopy

\* Under a policy that requires review, raw writes in any order leave every
\* version with an approval of its own cycle, shared with no other version.
THEOREM ApprovalsHold == StoreSpec => []EveryVersionHasItsApproval
<1>1. StoreInit => EveryVersionHasItsApproval
  BY DEF StoreInit, EveryVersionHasItsApproval
<1> QED BY <1>1, StoreTypesHold, ChainHolds, ApprovalInductive, PTL DEF StoreSpec

-----------------------------------------------------------------------------
\* The review_decided events up to i.
DecidedUpTo(i) == {j \in DecidedEvents : j <= i}

LEMMA DecidedFinite ==
  ASSUME StoreTypeOK
  PROVE  /\ IsFiniteSet(DecidedEvents)
         /\ Cardinality(DecidedEvents) \in Nat
         /\ \A i \in DecidedEvents :
              Cardinality(DecidedUpTo(i)) \in 1..Cardinality(DecidedEvents)
<1>0. Len(events) \in Nat
  BY DEF StoreTypeOK
<1>1. DecidedEvents \subseteq 1..Len(events) /\ IsFiniteSet(1..Len(events))
  <2>1. DecidedEvents \subseteq 1..Len(events)
    BY DEF StoreTypeOK, DecidedEvents
  <2>2. IsFiniteSet(1..Len(events))
    BY <1>0, FS_Interval
  <2> QED BY <2>1, <2>2
<1>2. IsFiniteSet(DecidedEvents) /\ Cardinality(DecidedEvents) \in Nat
  BY <1>1, FS_Subset, FS_CardinalityType
<1>3. ASSUME NEW i \in DecidedEvents
      PROVE Cardinality(DecidedUpTo(i)) \in 1..Cardinality(DecidedEvents)
  <2>1. DecidedUpTo(i) \subseteq DecidedEvents
    BY DEF DecidedUpTo
  <2>2. IsFiniteSet(DecidedUpTo(i))
        /\ Cardinality(DecidedUpTo(i)) <= Cardinality(DecidedEvents)
    BY <2>1, <1>2, FS_Subset
  <2>3. Cardinality(DecidedUpTo(i)) \in Nat
    BY <2>2, FS_CardinalityType
  <2>4. i <= i
    BY <1>1
  <2>5. DecidedUpTo(i) # {}
    BY <2>4 DEF DecidedUpTo
  <2>6. Cardinality(DecidedUpTo(i)) # 0
    BY <2>2, <2>5, FS_EmptySet
  <2> QED BY <1>2, <2>2, <2>3, <2>6
<1> QED BY <1>2, <1>3

\* A raw review_decided event has no unpaired decision to pair with, so the only
\* ones there are come with their decision.
LEMMA RawEventIsUndecided ==
  ASSUME StoreTypeOK, DecisionsPairWithEvents,
         NEW kind \in EventKinds, NEW u \in Users, NEW to \in Users \union {NoUser},
         RawEvent(kind, u, to)
  PROVE  /\ kind # "review_decided"
         /\ DecidedEvents' = DecidedEvents
         /\ \A i \in DOMAIN events : events'[i] = events[i]
<1>1. kind # "review_decided"
  BY DecidedFinite DEF RawEvent, EventAccepted, DecisionsPairWithEvents
<1>2. /\ Len(events) \in Nat /\ DOMAIN events = 1..Len(events)
      /\ DOMAIN events' = 1..(Len(events) + 1)
      /\ \A i \in DOMAIN events : events'[i] = events[i]
      /\ events'[Len(events) + 1].kind = kind
  BY DEF RawEvent, EventRow, StoreTypeOK
<1>3. DecidedEvents' = DecidedEvents
  BY <1>1, <1>2 DEF DecidedEvents
<1> QED BY <1>1, <1>2, <1>3

LEMMA RawDecisionDecides ==
  ASSUME StoreTypeOK, NEW u \in Users, NEW verdict \in Verdicts, RawDecision(u, verdict)
  PROVE  /\ DecidedEvents' = DecidedEvents \union {Len(events) + 1}
         /\ Len(events) + 1 \notin DecidedEvents
         /\ \A i \in DecidedEvents : i <= Len(events)
         /\ \A i \in DOMAIN events : events'[i] = events[i]
         /\ events'[Len(events) + 1] = EventRow("review_decided", u, NoUser)
         /\ events # <<>> /\ Len(events) \in Nat
<1>1. /\ Len(events) \in Nat /\ DOMAIN events = 1..Len(events)
      /\ DOMAIN events' = 1..(Len(events) + 1)
      /\ \A i \in DOMAIN events : events'[i] = events[i]
      /\ events'[Len(events) + 1] = EventRow("review_decided", u, NoUser)
  BY DEF RawDecision, StoreTypeOK
<1>2. EventRow("review_decided", u, NoUser).kind = "review_decided"
  BY DEF EventRow
<1>3. DecidedEvents' = DecidedEvents \union {Len(events) + 1}
  BY <1>1, <1>2 DEF DecidedEvents
<1>4. \A i \in DecidedEvents : i <= Len(events)
  BY <1>1 DEF DecidedEvents
<1>5. events # <<>>
  BY DEF RawDecision, DecisionAccepted, LatestKind
<1> QED BY <1>1, <1>3, <1>4, <1>5

LEMMA PairingInductive ==
  StoreTypeOK /\ DecisionsPairWithEvents /\ [StoreNext]_storeVars
    => DecisionsPairWithEvents'
<1> SUFFICES ASSUME StoreTypeOK, DecisionsPairWithEvents, [StoreNext]_storeVars
             PROVE  DecisionsPairWithEvents'
  OBVIOUS
<1>1. ASSUME NEW kind \in EventKinds, NEW u \in Users, NEW to \in Users \union {NoUser},
             RawEvent(kind, u, to)
      PROVE DecisionsPairWithEvents'
  <2>1. DecidedEvents' = DecidedEvents /\ \A i \in DOMAIN events : events'[i] = events[i]
    BY <1>1, RawEventIsUndecided
  <2>2. decisions' = decisions
    BY <1>1 DEF RawEvent
  <2>3. DecidedEvents \subseteq DOMAIN events
    BY DEF DecidedEvents
  <2> QED BY <2>1, <2>2, <2>3 DEF DecisionsPairWithEvents
<1>2. ASSUME NEW u \in Users, NEW verdict \in Verdicts, RawDecision(u, verdict)
      PROVE DecisionsPairWithEvents'
  <2> DEFINE n == Len(events)
             row == [reviewer |-> u, verdict |-> verdict]
  <2>1. /\ DecidedEvents' = DecidedEvents \union {n + 1}
        /\ n + 1 \notin DecidedEvents /\ n \in Nat
        /\ \A i \in DecidedEvents : i <= n
        /\ \A i \in DOMAIN events : events'[i] = events[i]
        /\ events'[n + 1] = EventRow("review_decided", u, NoUser)
    BY <1>2, RawDecisionDecides
  <2>2. /\ IsFiniteSet(DecidedEvents) /\ Cardinality(DecidedEvents) \in Nat
        /\ \A i \in DecidedEvents :
             Cardinality(DecidedUpTo(i)) \in 1..Cardinality(DecidedEvents)
    BY DecidedFinite
  <2>3. Cardinality(DecidedEvents') = Cardinality(DecidedEvents) + 1
    BY <2>1, <2>2, FS_AddElement
  <2>4. /\ decisions' = Append(decisions, row)
        /\ Len(decisions') = Len(decisions) + 1
        /\ Len(decisions) = Cardinality(DecidedEvents)
        /\ \A d \in 1..Len(decisions) : decisions'[d] = decisions[d]
        /\ decisions'[Len(decisions) + 1] = row
    BY <1>2 DEF RawDecision, DecisionsPairWithEvents, StoreTypeOK
  <2>5. ASSUME NEW i \in DecidedEvents
        PROVE events'[i].actor
                = decisions'[Cardinality({j \in DecidedEvents' : j <= i})].reviewer
    <3>1. {j \in DecidedEvents' : j <= i} = DecidedUpTo(i)
      BY <2>1 DEF DecidedUpTo, DecidedEvents, StoreTypeOK
    <3>2. events'[i] = events[i]
      BY <2>1 DEF DecidedEvents
    <3>3. decisions'[Cardinality(DecidedUpTo(i))] = decisions[Cardinality(DecidedUpTo(i))]
      BY <2>2, <2>4
    <3>4. events[i].actor = decisions[Cardinality(DecidedUpTo(i))].reviewer
      BY DEF DecisionsPairWithEvents, DecidedUpTo
    <3> QED BY <3>1, <3>2, <3>3, <3>4
  <2>6. events'[n + 1].actor
          = decisions'[Cardinality({j \in DecidedEvents' : j <= n + 1})].reviewer
    <3>1. {j \in DecidedEvents' : j <= n + 1} = DecidedEvents'
      BY <2>1 DEF DecidedEvents, StoreTypeOK
    <3>2. events'[n + 1].actor = u
      BY <2>1 DEF EventRow
    <3>3. decisions'[Cardinality(DecidedEvents')].reviewer = u
      BY <2>3, <2>4
    <3> QED BY <3>1, <3>2, <3>3
  <2> QED BY <2>1, <2>3, <2>4, <2>5, <2>6 DEF DecisionsPairWithEvents
<1>3. CASE UNCHANGED <<events, decisions>>
  BY <1>3 DEF DecisionsPairWithEvents, DecidedEvents
<1> QED
  BY <1>1, <1>2, <1>3
     DEF StoreNext, storeVars, RawSnapshot, RawOwner, RawCopy, RawVersion, RawAmendment

\* Under raw writes the decision rows and the review_decided events stay one to
\* one, in order and by the same reviewers.
THEOREM PairingHolds == StoreSpec => []DecisionsPairWithEvents
<1>1. ASSUME StoreInit PROVE DecisionsPairWithEvents
  <2>1. DecidedEvents = {}
    BY <1>1 DEF StoreInit, DecidedEvents
  <2>2. Len(decisions) = 0 /\ Cardinality(DecidedEvents) = 0
    BY <1>1, <2>1, FS_EmptySet DEF StoreInit
  <2> QED BY <2>1, <2>2 DEF DecisionsPairWithEvents
<1> QED BY <1>1, StoreTypesHold, PairingInductive, PTL DEF StoreSpec

LEMMA AnswersInductive ==
  StoreTypeOK /\ DecisionsPairWithEvents /\ DecisionsAnswerSubmissions
      /\ [StoreNext]_storeVars
    => DecisionsAnswerSubmissions'
<1> SUFFICES ASSUME StoreTypeOK, DecisionsPairWithEvents, DecisionsAnswerSubmissions,
                    [StoreNext]_storeVars
             PROVE  DecisionsAnswerSubmissions'
  OBVIOUS
<1>0. /\ DecidedEvents \subseteq 1..Len(events)
      /\ Len(events) \in Nat /\ DOMAIN events = 1..Len(events)
  BY DEF DecidedEvents, StoreTypeOK
<1> DEFINE AnswersAt(i) ==
             /\ i > 1 /\ events[i - 1].kind = "submitted_for_review"
             /\ \A j \in 1..(i - 1) : ~Touches(events[j], events[i].actor)
<1>1. ASSUME \A i \in DOMAIN events : events'[i] = events[i],
             NEW i \in DecidedEvents
      PROVE AnswersAt(i)'
  <2>1. AnswersAt(i) /\ i \in 1..Len(events)
    BY <1>0 DEF DecisionsAnswerSubmissions
  <2>2. i - 1 \in DOMAIN events /\ 1..(i - 1) \subseteq DOMAIN events
    BY <1>0, <2>1
  <2>3. events'[i] = events[i] /\ events'[i - 1] = events[i - 1]
    BY <1>0, <1>1, <2>1, <2>2
  <2>4. \A j \in 1..(i - 1) : events'[j] = events[j]
    BY <1>1, <2>2
  <2> QED BY <2>1, <2>3, <2>4 DEF Touches
<1>2. ASSUME NEW kind \in EventKinds, NEW u \in Users, NEW to \in Users \union {NoUser},
             RawEvent(kind, u, to)
      PROVE DecisionsAnswerSubmissions'
  <2>1. DecidedEvents' = DecidedEvents /\ \A i \in DOMAIN events : events'[i] = events[i]
    BY <1>2, RawEventIsUndecided
  <2> QED BY <1>1, <2>1 DEF DecisionsAnswerSubmissions
<1>3. ASSUME NEW u \in Users, NEW verdict \in Verdicts, RawDecision(u, verdict)
      PROVE DecisionsAnswerSubmissions'
  <2>1. /\ DecidedEvents' = DecidedEvents \union {Len(events) + 1}
        /\ \A i \in DOMAIN events : events'[i] = events[i]
        /\ events'[Len(events) + 1] = EventRow("review_decided", u, NoUser)
        /\ events # <<>>
    BY <1>3, RawDecisionDecides
  <2>2. /\ events[Len(events)].kind = "submitted_for_review"
        /\ \A j \in DOMAIN events : ~Touches(events[j], u)
    BY <1>3, <2>1 DEF RawDecision, DecisionAccepted, LatestKind, Contributor
  <2>3. Len(events) \in DOMAIN events
    BY <1>0, <2>1 DEF StoreTypeOK
  <2>4. ASSUME NEW k \in Nat, k = Len(events) + 1 PROVE AnswersAt(k)'
    <3>1. k - 1 = Len(events) /\ k > 1
      BY <1>0, <2>3, <2>4
    <3>2. events'[k - 1].kind = "submitted_for_review"
      BY <2>1, <2>2, <2>3, <3>1
    <3>3. events'[k].actor = u
      BY <2>1, <2>4 DEF EventRow
    <3>4. \A j \in 1..(k - 1) : events'[j] = events[j] /\ ~Touches(events[j], u)
      BY <1>0, <2>1, <2>2, <3>1
    <3> QED BY <3>1, <3>2, <3>3, <3>4 DEF Touches
  <2> QED BY <1>0, <1>1, <2>1, <2>4 DEF DecisionsAnswerSubmissions
<1>4. CASE UNCHANGED events
  BY <1>4 DEF DecisionsAnswerSubmissions, DecidedEvents
<1> QED
  BY <1>2, <1>3, <1>4
     DEF StoreNext, storeVars, RawSnapshot, RawOwner, RawCopy, RawVersion, RawAmendment

\* Under raw writes every decision answers the submission right before it, by
\* someone without a hand in the draft.
THEOREM AnswersHold == StoreSpec => []DecisionsAnswerSubmissions
<1>1. StoreInit => DecisionsAnswerSubmissions
  BY DEF StoreInit, DecisionsAnswerSubmissions, DecidedEvents
<1> QED BY <1>1, StoreTypesHold, PairingHolds, AnswersInductive, PTL DEF StoreSpec

(***************************************************************************)
(* The server's transactions.                                              *)
(***************************************************************************)

\* The types and the chain together: an amendment row names a version because the
\* latest version is the last of the chain.
Shape == TypeOK /\ VersionsFormOneChain

LEMMA NoRequestType == NoRequest \in Requests
<1>1. <<0, FALSE>> \in Cycles
  BY DEF Cycles
<1> DEFINE Shaped ==
             [op : Ops \union {"none"}, revision : Nat, seen : Contents, cycle : Cycles,
              content : Contents, to : Users \union {NoUser},
              verdict : Verdicts \union {""}, gated : BOOLEAN]
<1>2. NoRequest \in Shaped
  BY <1>1, ContentsAssumption DEF NoRequest
<1>3. NoRequest.op = "none" /\ NoRequest.to = NoUser /\ NoRequest.verdict = ""
  BY DEF NoRequest
<1>4. (NoRequest.op = "transfer") = (NoRequest.to # NoUser)
      /\ (NoRequest.op = "decide") = (NoRequest.verdict # "")
  BY <1>3
<1> HIDE DEF Shaped
<1> QED BY <1>2, <1>4 DEF Requests, Shaped

LEMMA CycleType == TypeOK => Cycle \in Cycles
<1>1. Reopened \in BOOLEAN
  BY DEF Reopened
<1>2. TypeOK => Len(versions) \in Nat
  BY DEF TypeOK, StoreTypeOK
<1> QED BY <1>1, <1>2 DEF Cycle, Cycles

LEMMA EventRowType ==
  ASSUME NEW kind \in EventKinds, NEW u \in Users, NEW to \in Users \union {NoUser}
  PROVE  EventRow(kind, u, to) \in Event
BY DEF EventRow, Event

LEMMA AttributedType ==
  ASSUME TypeOK, NEW u \in Users PROVE Attributed(u) \in Seq(Event)
<1>1. EventRow("contributed", u, NoUser) \in Event
  BY DEF EventRow, Event, EventKinds, AuthorKinds
<1> QED BY <1>1 DEF Attributed, TypeOK, StoreTypeOK

\* The requests a page sends are requests, and sending writes nothing.
LEMMA ClientStepShape ==
  ASSUME Shape, NEW u \in Users, ClientStep(u)
  PROVE  /\ pending' \in [Users -> Requests]
         /\ UNCHANGED <<storeVars, revision, editors>>
<1> USE NoRequestType, CycleType DEF Shape
<1>1. ASSUME NEW r \in Requests, Send(u, r)
      PROVE pending' \in [Users -> Requests] /\ UNCHANGED <<storeVars, revision, editors>>
  BY <1>1 DEF Send, TypeOK
<1>2. \A op \in {"save", "submit", "finalize"} : Viewing(op) \in Requests
  BY DEF Ops, Viewing, Requests, NoRequest, TypeOK, StoreTypeOK
<1>3. ASSUME NEW c \in Contents, SendSave(u, c)
      PROVE [Viewing("save") EXCEPT !.content = c, !.gated = TRUE] \in Requests
  BY <1>2 DEF Requests
<1>4. ASSUME NEW to \in Users
      PROVE [NoRequest EXCEPT !.op = "transfer", !.to = to] \in Requests
  BY NoUserAssumption DEF Ops, Requests, NoRequest
<1>5. ASSUME NEW verdict \in Verdicts
      PROVE [NoRequest EXCEPT !.op = "decide", !.seen = copy, !.verdict = verdict,
                              !.gated = TRUE] \in Requests
  BY DEF Ops, Requests, Verdicts, NoRequest, TypeOK, StoreTypeOK
<1>6. [Viewing("finalize") EXCEPT !.gated = TRUE] \in Requests
  BY <1>2 DEF Requests
<1>7. [NoRequest EXCEPT !.op = "open", !.gated = TRUE] \in Requests
  BY DEF Ops, Requests, NoRequest
<1>8. Viewing("submit") \in Requests
  BY <1>2
<1> QED
  BY <1>1, <1>3, <1>4, <1>5, <1>6, <1>7, <1>8
     DEF ClientStep, SendSave, SendSubmit, SendTransfer, SendDecide, SendFinalize, SendOpen

LEMMA ShapeInductive == Shape /\ [Next]_vars => Shape'
<1> SUFFICES ASSUME Shape, [Next]_vars PROVE Shape'
  OBVIOUS
<1> USE NoRequestType DEF Shape
<1>0. /\ \A u \in Users : pending[u] \in Requests
      /\ \A u \in Users : [pending EXCEPT ![u] = NoRequest] \in [Users -> Requests]
  BY DEF TypeOK
<1>1. ASSUME NEW u \in Users, ClientStep(u) PROVE Shape'
  BY <1>1, ClientStepShape DEF storeVars, TypeOK, StoreTypeOK, VersionsFormOneChain
<1>2. ASSUME NEW u \in Users, PassGate(u) PROVE Shape'
  <2>1. [pending[u] EXCEPT !.gated = TRUE] \in Requests
    BY <1>0 DEF Requests
  <2>2. pending' \in [Users -> Requests]
    BY <1>2, <2>1 DEF PassGate, TypeOK
  <2> QED
    BY <1>2, <2>2 DEF PassGate, storeVars, TypeOK, StoreTypeOK, VersionsFormOneChain
<1>3. ASSUME NEW u \in Users, Drop(u) PROVE Shape'
  BY <1>0, <1>3 DEF Drop, storeVars, TypeOK, StoreTypeOK, VersionsFormOneChain
<1>4. ASSUME NEW u \in Users, SaveTx(u) PROVE Shape'
  <2>1. pending[u].content \in Contents
    BY <1>0 DEF Requests
  <2> QED
    BY <1>0, <1>4, <2>1, AttributedType
       DEF SaveTx, Answered, TypeOK, StoreTypeOK, VersionsFormOneChain
<1>5. ASSUME NEW u \in Users, TransferTx(u) PROVE Shape'
  <2>1. pending[u].to \in Users
    BY <1>0, <1>5 DEF TransferTx, Ready, Requests
  <2>2. EventRow("ownership_transferred", u, pending[u].to) \in Event
    BY <2>1, EventRowType DEF EventKinds
  <2> QED
    BY <1>0, <1>5, <2>1, <2>2
       DEF TransferTx, Answered, TypeOK, StoreTypeOK, VersionsFormOneChain
<1>6. ASSUME NEW u \in Users, SubmitTx(u) PROVE Shape'
  <2>1. EventRow("submitted_for_review", u, NoUser) \in Event
    BY EventRowType DEF EventKinds, AuthorKinds
  <2>2. SnapshotRow("submission", u) \in Snapshot
    BY DEF SnapshotRow, Snapshot, Reasons, TypeOK, StoreTypeOK
  <2> QED
    BY <1>0, <1>6, <2>1, <2>2
       DEF SubmitTx, Answered, TypeOK, StoreTypeOK, VersionsFormOneChain
<1>7. ASSUME NEW u \in Users, DecideTx(u) PROVE Shape'
  <2>1. pending[u].verdict \in Verdicts
    BY <1>0, <1>7 DEF DecideTx, Ready, Requests
  <2>2. /\ EventRow("review_decided", u, NoUser) \in Event
        /\ SnapshotRow("change_request_return", u) \in Snapshot
        /\ [reviewer |-> u, verdict |-> pending[u].verdict] \in Decision
    BY <2>1, EventRowType
       DEF EventKinds, SnapshotRow, Snapshot, Reasons, Decision, TypeOK, StoreTypeOK
  <2>3. /\ snapshots' \in Seq(Snapshot)
        /\ decisions' \in Seq(Decision)
        /\ events' \in Seq(Event)
    BY <1>7, <2>2 DEF DecideTx, TypeOK, StoreTypeOK
  <2> QED
    BY <1>0, <1>7, <2>3
       DEF DecideTx, Answered, TypeOK, StoreTypeOK, VersionsFormOneChain
<1>8. ASSUME NEW u \in Users, FinalizeTx(u) PROVE Shape'
  <2> DEFINE n == Len(versions)
             row == [number |-> NextNumber, content |-> copy,
                     predecessor |-> NextPredecessor, by |-> u]
  <2>1. /\ n \in Nat /\ NextNumber = n + 1 /\ NextPredecessor = n
        /\ n # 0 => n \in DOMAIN amendments
    <3>1. CASE versions = <<>>
      BY <3>1 DEF NextNumber, NextPredecessor, Reopened
    <3>2. CASE versions # <<>>
      <4>1. LatestVersion = n /\ n \in Nat \ {0}
        BY <3>2, LatestIsLast DEF TypeOK
      <4>2. Reopened
        BY <1>8, <3>2 DEF FinalizeTx, FinalizeAdmitted
      <4>3. versions[n].number = n
        BY <4>1 DEF VersionsFormOneChain, TypeOK, StoreTypeOK
      <4> QED BY <4>1, <4>2, <4>3 DEF NextNumber, NextPredecessor, Reopened
    <3> QED BY <3>1, <3>2
  <2>2. row \in Version
    BY <2>1 DEF Version, TypeOK, StoreTypeOK
  <2>3. /\ versions' \in Seq(Version)
        /\ DOMAIN versions' = 1..(n + 1) /\ DOMAIN versions = 1..n /\ Len(versions') = n + 1
        /\ \A v \in DOMAIN versions : versions'[v] = versions[v]
        /\ versions'[n + 1] = row
    BY <1>8, <2>1, <2>2 DEF FinalizeTx, TypeOK, StoreTypeOK
  <2>4. amendments' = amendments
    BY <1>8 DEF FinalizeTx
  <2>5. ASSUME NEW v \in DOMAIN versions'
        PROVE versions'[v].number = v /\ versions'[v].predecessor = v - 1
    <3>1. CASE v \in DOMAIN versions
      BY <3>1, <2>3 DEF VersionsFormOneChain
    <3>2. CASE v = n + 1
      BY <3>2, <2>1, <2>3
    <3> QED BY <3>1, <3>2, <2>1, <2>3
  <2>6. ASSUME NEW v \in DOMAIN versions', v < Len(versions')
        PROVE v \in DOMAIN amendments'
    <3>1. v \in 1..n
      BY <2>1, <2>3, <2>6
    <3>2. CASE v = n
      BY <3>1, <3>2, <2>1, <2>4
    <3>3. CASE v < n
      BY <3>1, <3>3, <2>3, <2>4 DEF VersionsFormOneChain
    <3> QED BY <3>1, <3>2, <3>3, <2>1
  <2>7. VersionsFormOneChain'
    BY <2>5, <2>6 DEF VersionsFormOneChain
  <2>8. TypeOK'
    BY <1>0, <1>8, <2>1, <2>3 DEF FinalizeTx, Answered, TypeOK, StoreTypeOK
  <2> QED BY <2>7, <2>8
<1>9. ASSUME NEW u \in Users, OpenTx(u) PROVE Shape'
  <2>1. LatestVersion = Len(versions) /\ Len(versions) \in Nat \ {0}
    BY <1>9, LatestIsLast DEF OpenTx, OpenAdmitted, TypeOK
  <2>2. LatestVersion \in DOMAIN versions
    BY <2>1 DEF TypeOK, StoreTypeOK
  <2>3. [event |-> Len(events), decision |-> Len(decisions)] \in Marks
    BY DEF Marks, TypeOK, StoreTypeOK
  <2>4. DOMAIN Amended = DOMAIN amendments \union {LatestVersion}
    BY DEF Amended
  <2>5. Amended \in [DOMAIN Amended -> Marks]
    BY <2>3, <2>4 DEF Amended, TypeOK, StoreTypeOK
  <2> QED
    BY <1>0, <1>9, <2>2, <2>4, <2>5
       DEF OpenTx, Answered, TypeOK, StoreTypeOK, VersionsFormOneChain
<1>10. CASE UNCHANGED vars
  BY <1>10 DEF vars, storeVars, TypeOK, StoreTypeOK, VersionsFormOneChain
<1> QED
  BY <1>1, <1>2, <1>3, <1>4, <1>5, <1>6, <1>7, <1>8, <1>9, <1>10 DEF Next, ServerStep

LEMMA ShapeInitially == Init => Shape
<1> SUFFICES ASSUME Init PROVE Shape
  OBVIOUS
<1>1. EventRow("created", Creator, NoUser) \in Event
  BY RolesAssumption, EventRowType DEF EventKinds, AuthorKinds
<1>2. StoreTypeOK
  BY <1>1, RolesAssumption, ContentsAssumption DEF Init, StoreTypeOK
<1> QED BY <1>2, NoRequestType DEF Init, Shape, TypeOK, VersionsFormOneChain

LEMMA ShapeHolds == Spec => []Shape
BY ShapeInitially, ShapeInductive, PTL DEF Spec

\* Whatever requests interleave, rows and requests keep their types.
THEOREM TypesHold == Spec => []TypeOK
<1>1. Shape => TypeOK
  BY DEF Shape
<1> QED BY <1>1, ShapeHolds, PTL

-----------------------------------------------------------------------------
(***************************************************************************)
(* The status.                                                             *)
(***************************************************************************)
\* A mark recorded when the record was reopened never passes the end of its stream.
MarksWithinStreams ==
  \A v \in DOMAIN amendments :
    amendments[v].event <= Len(events) /\ amendments[v].decision <= Len(decisions)

LEMMA VerdictInType ==
  ASSUME TypeOK, NEW mark \in Nat
  PROVE  LatestVerdict(mark) \in Verdicts \union {""}
<1>1. Len(decisions) \in Nat /\ \A d \in 1..Len(decisions) : decisions[d] \in Decision
  BY DEF TypeOK, StoreTypeOK
<1>2. CASE Len(decisions) > mark
  <2>1. decisions[Len(decisions)] \in Decision
    BY <1>1, <1>2
  <2> QED BY <1>2, <2>1 DEF LatestVerdict, Decision
<1>3. CASE ~(Len(decisions) > mark)
  BY <1>3 DEF LatestVerdict
<1> QED BY <1>2, <1>3

LEMMA StatusInType ==
  ASSUME TypeOK, NEW eventMark \in Nat, NEW decisionMark \in Nat
  PROVE  /\ StatusIn(eventMark, decisionMark)
              \in {"draft", "submitted", "changes_requested", "returned", "approved"}
         /\ InReview(eventMark, decisionMark) <=>
              StatusIn(eventMark, decisionMark) \in {"submitted", "approved"}
BY VerdictInType DEF StatusIn, InReview, Verdicts

LEMMA MarkTypes ==
  TypeOK => \A v : EventMark(v) \in Nat /\ DecisionMark(v) \in Nat
BY DEF EventMark, DecisionMark, TypeOK, StoreTypeOK, Marks

\* Before the first version there are no marks, so one expression covers every
\* editable or reviewed cycle.
CycleStatus == StatusIn(EventMark(Len(versions)), DecisionMark(Len(versions)))
StatusIsOfCycle ==
  /\ Status = "finalized" <=> versions # <<>> /\ ~Reopened
  /\ Status # "finalized" => Status = CycleStatus
  /\ Status \in {"draft", "submitted", "changes_requested", "returned", "approved",
                 "finalized"}

LEMMA StatusOfCycle == Shape => StatusIsOfCycle
<1> SUFFICES ASSUME TypeOK, VersionsFormOneChain PROVE StatusIsOfCycle
  BY DEF Shape
<1> USE DEF StatusIsOfCycle, CycleStatus
<1>1. CASE versions = <<>>
  <2>1. 0 \notin DOMAIN amendments /\ Len(versions) = 0
    BY <1>1 DEF TypeOK, StoreTypeOK
  <2>2. EventMark(0) = 0 /\ DecisionMark(0) = 0
    BY <2>1 DEF EventMark, DecisionMark
  <2> QED BY <1>1, <2>1, <2>2, StatusInType DEF Status
<1>2. CASE versions # <<>>
  <2>1. LatestVersion = Len(versions)
    BY <1>2, LatestIsLast DEF TypeOK
  <2> QED BY <1>2, <2>1, StatusInType, MarkTypes DEF Status
<1> QED BY <1>1, <1>2

LEMMA StatusOfCycleNext == Shape' => StatusIsOfCycle'
BY StatusOfCycle, PTL

\* The status of a cycle depends on its streams alone, so a step that leaves them
\* alone leaves the status alone.
LEMMA StatusUnchanged ==
  UNCHANGED <<events, decisions, versions, amendments>> => UNCHANGED Status
BY DEF Status, StatusIn, LatestKind, LatestVerdict, EventMark, DecisionMark, Reopened,
       LatestVersion

LEMMA LatestIsLastNext ==
  (Shape /\ versions # <<>>)' => (LatestVersion = Len(versions))'
<1>1. Shape /\ versions # <<>> => LatestVersion = Len(versions)
  BY LatestIsLast DEF Shape, TypeOK
<1> QED BY <1>1, PTL

\* Within a cycle a new event decides the status, unless it is a decision's.
LEMMA StatusAfterEvent ==
  ASSUME Shape, MarksWithinStreams, Shape', Status # "finalized",
         NEW e \in Event, e.kind # "review_decided",
         events' = Append(events, e), UNCHANGED <<versions, amendments>>
  PROVE  Status' = IF e.kind = "submitted_for_review" THEN "submitted" ELSE "draft"
<1>1. Status' # "finalized"
  BY StatusOfCycle, StatusOfCycleNext DEF StatusIsOfCycle, Reopened, LatestVersion
<1>2. Status' = CycleStatus'
  BY <1>1, StatusOfCycleNext DEF StatusIsOfCycle
<1> DEFINE mark == EventMark(Len(versions))
<1>3. mark' = mark /\ mark \in Nat /\ mark <= Len(events)
  BY DEF EventMark, MarksWithinStreams, Shape, TypeOK, StoreTypeOK, Marks
<1>4. /\ Len(events') = Len(events) + 1 /\ Len(events) \in Nat
      /\ events'[Len(events) + 1] = e
  BY DEF Shape, TypeOK, StoreTypeOK
<1>5. LatestKind(mark)' = e.kind
  <2> HIDE DEF mark
  <2>1. Len(events') > mark' /\ events'[Len(events')] = e
    BY <1>3, <1>4
  <2> QED BY <2>1 DEF LatestKind
<1> QED BY <1>2, <1>5 DEF CycleStatus, StatusIn, mark

LEMMA StatusAfterDecision ==
  ASSUME Shape, MarksWithinStreams, Shape', Status # "finalized",
         NEW u \in Users, NEW d \in Decision,
         events' = Append(events, EventRow("review_decided", u, NoUser)),
         decisions' = Append(decisions, d), UNCHANGED <<versions, amendments>>
  PROVE  Status' = d.verdict
<1>1. Status' # "finalized"
  BY StatusOfCycle, StatusOfCycleNext DEF StatusIsOfCycle, Reopened, LatestVersion
<1>2. Status' = CycleStatus'
  BY <1>1, StatusOfCycleNext DEF StatusIsOfCycle
<1> DEFINE em == EventMark(Len(versions))
           dm == DecisionMark(Len(versions))
<1>3. /\ em' = em /\ em \in Nat /\ em <= Len(events)
      /\ dm' = dm /\ dm \in Nat /\ dm <= Len(decisions)
  BY DEF EventMark, DecisionMark, MarksWithinStreams, Shape, TypeOK, StoreTypeOK, Marks
<1>4. /\ Len(events') = Len(events) + 1 /\ Len(events) \in Nat
      /\ events'[Len(events) + 1].kind = "review_decided"
      /\ Len(decisions') = Len(decisions) + 1 /\ Len(decisions) \in Nat
      /\ decisions'[Len(decisions) + 1] = d
  BY DEF EventRow, Shape, TypeOK, StoreTypeOK
<1> HIDE DEF em, dm
<1>5. LatestKind(em)' = "review_decided"
  BY <1>3, <1>4 DEF LatestKind
<1>6. LatestVerdict(dm)' = d.verdict
  <2>1. Len(decisions') > dm' /\ decisions'[Len(decisions')] = d
    BY <1>3, <1>4
  <2> QED BY <2>1 DEF LatestVerdict
<1>7. d.verdict # ""
  BY DEF Decision, Verdicts
<1> QED BY <1>2, <1>5, <1>6, <1>7 DEF CycleStatus, StatusIn, em, dm

-----------------------------------------------------------------------------
(***************************************************************************)
(* The marks, and the inductive invariant the results below start from.    *)
(***************************************************************************)
IInv == Shape /\ MarksWithinStreams

LEMMA MarksInductive == IInv /\ [Next]_vars => MarksWithinStreams'
<1> SUFFICES ASSUME IInv, [Next]_vars PROVE MarksWithinStreams'
  OBVIOUS
<1> USE DEF IInv, MarksWithinStreams
<1>0. /\ Len(events) \in Nat /\ Len(decisions) \in Nat
      /\ \A v \in DOMAIN amendments :
           amendments[v].event \in Nat /\ amendments[v].decision \in Nat
  BY DEF Shape, TypeOK, StoreTypeOK, Marks
<1>1. ASSUME UNCHANGED amendments, Len(events') \in {Len(events), Len(events) + 1},
             Len(decisions') \in {Len(decisions), Len(decisions) + 1}
      PROVE MarksWithinStreams'
  BY <1>0, <1>1
<1>2. ASSUME NEW u \in Users, ClientStep(u) PROVE MarksWithinStreams'
  BY <1>1, <1>2, ClientStepShape DEF storeVars
<1>3. ASSUME NEW u \in Users, PassGate(u) \/ Drop(u) \/ FinalizeTx(u)
      PROVE MarksWithinStreams'
  BY <1>1, <1>3 DEF PassGate, Drop, FinalizeTx, storeVars
<1>4. ASSUME NEW u \in Users, SaveTx(u) PROVE MarksWithinStreams'
  <2>1. Len(events') \in {Len(events), Len(events) + 1}
    BY <1>4 DEF SaveTx, Attributed, Shape, TypeOK, StoreTypeOK
  <2> QED BY <1>1, <1>4, <2>1 DEF SaveTx
<1>5. ASSUME NEW u \in Users, TransferTx(u) \/ SubmitTx(u) \/ DecideTx(u)
      PROVE MarksWithinStreams'
  <2>1. Len(events') \in {Len(events), Len(events) + 1}
    BY <1>5 DEF TransferTx, SubmitTx, DecideTx, Shape, TypeOK, StoreTypeOK
  <2>2. Len(decisions') \in {Len(decisions), Len(decisions) + 1}
    BY <1>5 DEF TransferTx, SubmitTx, DecideTx, Shape, TypeOK, StoreTypeOK
  <2> QED BY <1>1, <1>5, <2>1, <2>2 DEF TransferTx, SubmitTx, DecideTx
<1>6. ASSUME NEW u \in Users, OpenTx(u) PROVE MarksWithinStreams'
  <2>1. amendments' = Amended /\ events' = events /\ decisions' = decisions
    BY <1>6 DEF OpenTx
  <2> QED BY <1>0, <2>1 DEF Amended
<1>7. CASE UNCHANGED vars
  BY <1>1, <1>7 DEF vars, storeVars
<1> QED
  BY <1>2, <1>3, <1>4, <1>5, <1>6, <1>7 DEF Next, ServerStep

LEMMA IInvHolds == Spec => []IInv
<1>1. Init => IInv
  BY ShapeInitially DEF Init, IInv, MarksWithinStreams
<1>2. IInv /\ [Next]_vars => IInv'
  BY ShapeInductive, MarksInductive DEF IInv
<1> QED BY <1>1, <1>2, PTL DEF Spec

-----------------------------------------------------------------------------
(***************************************************************************)
(* The refinement of SealedRecord, one lemma per transaction.              *)
(***************************************************************************)
LEMMA FrozenStatuses ==
  Shape => (~FrozenRefusal <=> Status \in Promise!Editable)
BY StatusOfCycle DEF StatusIsOfCycle, FrozenRefusal, Promise!Editable

LEMMA SameStreams ==
  ASSUME UNCHANGED <<copy, events, decisions, versions, amendments, reviewRequired>>
  PROVE  UNCHANGED Promise!sealedVars
BY StatusUnchanged DEF Promise!sealedVars, SealedContents

LEMMA SaveRefines ==
  ASSUME IInv, Shape', NEW u \in Users, SaveTx(u) PROVE Promise!Edit
<1>1. Status \in Promise!Editable /\ Status # "finalized"
  BY FrozenStatuses DEF SaveTx, SaveAdmitted, IInv, Promise!Editable
<1>2. copy' \in Contents
  BY DEF Shape, TypeOK, StoreTypeOK
<1>3. UNCHANGED <<SealedContents, reviewRequired>>
  BY DEF SaveTx, SealedContents
<1>4. Status' = "draft"
  <2>1. CASE events' = Append(events, EventRow("contributed", u, NoUser))
    <3>1. EventRow("contributed", u, NoUser) \in Event
      BY EventRowType DEF EventKinds, AuthorKinds
    <3>2. EventRow("contributed", u, NoUser).kind = "contributed"
      BY DEF EventRow
    <3> QED BY <1>1, <2>1, <3>1, <3>2, StatusAfterEvent DEF SaveTx, IInv
  <2>2. CASE events' = events /\ LatestKind(ScopeMark) = "contributed"
    <3>1. Status' = Status
      BY <2>2, StatusUnchanged DEF SaveTx
    <3>2. Status = CycleStatus
      BY <1>1, StatusOfCycle DEF StatusIsOfCycle, IInv
    <3>3. ScopeMark = EventMark(Len(versions))
      <4>1. CASE versions = <<>>
        <5>1. 0 \notin DOMAIN amendments /\ Len(versions) = 0
          BY <4>1 DEF IInv, Shape, TypeOK, StoreTypeOK
        <5> QED BY <4>1, <5>1 DEF ScopeMark, Reopened, EventMark
      <4>2. CASE versions # <<>>
        <5>1. LatestVersion = Len(versions)
          BY <4>2, LatestIsLast DEF IInv, Shape, TypeOK
        <5> QED BY <4>2, <5>1 DEF ScopeMark, Reopened, EventMark
      <4> QED BY <4>1, <4>2
    <3> QED BY <2>2, <3>1, <3>2, <3>3 DEF CycleStatus, StatusIn
  <2> QED BY <2>1, <2>2 DEF SaveTx, Attributed
<1> QED BY <1>1, <1>2, <1>3, <1>4 DEF Promise!Edit

LEMMA TransferRefines ==
  ASSUME IInv, Shape', NEW u \in Users, TransferTx(u) PROVE Promise!Edit
<1> DEFINE e == EventRow("ownership_transferred", u, pending[u].to)
<1>1. Status \in Promise!Editable /\ Status # "finalized"
  BY FrozenStatuses DEF TransferTx, TransferAdmitted, IInv, Promise!Editable
<1>2. pending[u].to \in Users
  BY DEF TransferTx, Ready, Requests, IInv, Shape, TypeOK
<1>3. e \in Event /\ e.kind = "ownership_transferred"
  BY <1>2, EventRowType DEF EventKinds, EventRow
<1>4. Status' = "draft"
  BY <1>1, <1>3, StatusAfterEvent DEF TransferTx, IInv
<1> QED
  BY <1>1, <1>4 DEF TransferTx, SealedContents, Promise!Edit, IInv, Shape, TypeOK, StoreTypeOK

LEMMA SubmitRefines ==
  ASSUME IInv, Shape', NEW u \in Users, SubmitTx(u) PROVE Promise!Submit
<1> DEFINE e == EventRow("submitted_for_review", u, NoUser)
<1>1. Status \in Promise!Editable /\ Status # "finalized"
  BY FrozenStatuses DEF SubmitTx, SubmitAdmitted, IInv, Promise!Editable
<1>2. e \in Event /\ e.kind = "submitted_for_review"
  BY EventRowType DEF EventKinds, AuthorKinds, EventRow
<1>3. Status' = "submitted"
  BY <1>1, <1>2, StatusAfterEvent DEF SubmitTx, IInv
<1> QED BY <1>1, <1>3 DEF SubmitTx, SealedContents, Promise!Submit

LEMMA DecideRefines ==
  ASSUME IInv, Shape', NEW u \in Users, DecideTx(u) PROVE Promise!Decide
<1> DEFINE d == [reviewer |-> u, verdict |-> pending[u].verdict]
<1>1. pending[u].verdict \in Verdicts
  BY DEF DecideTx, Ready, Requests, IInv, Shape, TypeOK
<1>2. d \in Decision /\ d.verdict = pending[u].verdict
  BY <1>1 DEF Decision
<1>3. Status = "submitted"
  BY DEF DecideTx, DecideAdmitted
<1>4. Status' = pending[u].verdict
  BY <1>2, <1>3, StatusAfterDecision DEF DecideTx, IInv
<1> QED
  BY <1>1, <1>3, <1>4
     DEF DecideTx, SealedContents, Verdicts, Promise!Decide, Promise!Decided

LEMMA FinalizeRefines ==
  ASSUME IInv, Shape', NEW u \in Users, FinalizeTx(u) PROVE Promise!Seal
<1> DEFINE n == Len(versions)
           row == [number |-> NextNumber, content |-> copy,
                   predecessor |-> NextPredecessor, by |-> u]
<1>1. Status # "finalized"
  BY StatusOfCycle DEF StatusIsOfCycle, FinalizeTx, FinalizeAdmitted, IInv
<1>2. reviewRequired => Status = "approved"
  BY DEF FinalizeTx, FinalizeAdmitted
<1>3. /\ n \in Nat /\ DOMAIN versions = 1..n /\ n + 1 \notin DOMAIN amendments
      /\ versions' = Append(versions, row)
  BY DEF FinalizeTx, IInv, Shape, TypeOK, StoreTypeOK
<1>4. /\ DOMAIN versions' = 1..(n + 1) /\ Len(versions') = n + 1
      /\ \A v \in 1..n : versions'[v] = versions[v]
      /\ versions'[n + 1] = row
  BY <1>3
<1>5. Status' = "finalized"
  <2>1. versions' # <<>>
    BY <1>3, <1>4
  <2>2. LatestVersion' = Len(versions')
    BY <2>1, LatestIsLastNext
  <2>3. ~Reopened'
    BY <1>3, <1>4, <2>2 DEF Reopened, FinalizeTx
  <2> QED BY <2>1, <2>3, StatusOfCycleNext DEF StatusIsOfCycle
<1>6. SealedContents' = Append(SealedContents, copy)
  <2>1. copy \in Contents
    BY DEF IInv, Shape, TypeOK, StoreTypeOK
  <2>2. \A v \in 1..n : versions[v] \in Version
    BY <1>3 DEF IInv, Shape, TypeOK, StoreTypeOK
  <2>3. \A v \in 1..n : versions[v].content \in Contents
    BY <2>2 DEF Version
  <2>4. SealedContents \in [1..n -> Contents]
    BY <1>3, <2>3 DEF SealedContents
  <2>5. SealedContents \in Seq(Contents) /\ Len(SealedContents) = n
    BY <1>3, <2>4, SeqDef, LenProperties
  <2>6. SealedContents' \in [1..(n + 1) -> Contents]
    <3>1. \A v \in 1..(n + 1) : versions'[v].content \in Contents
      BY <1>3, <1>4, <2>1, <2>3
    <3> QED BY <1>4, <3>1 DEF SealedContents
  <2>7. SealedContents' \in Seq(Contents) /\ Len(SealedContents') = n + 1
    BY <1>3, <2>6, SeqDef, LenProperties
  <2>8. \A v \in 1..(n + 1) : SealedContents'[v] = Append(SealedContents, copy)[v]
    <3>1. /\ Append(SealedContents, copy)[n + 1] = copy
          /\ \A v \in 1..n : Append(SealedContents, copy)[v] = SealedContents[v]
      BY <2>1, <2>5, AppendProperties
    <3>2. \A v \in 1..n : SealedContents[v] = versions[v].content
      BY <1>3 DEF SealedContents
    <3>3. \A v \in 1..(n + 1) : SealedContents'[v] = versions'[v].content
      BY <1>4 DEF SealedContents
    <3>4. ASSUME NEW v \in 1..(n + 1)
          PROVE SealedContents'[v] = Append(SealedContents, copy)[v]
      <4>1. CASE v = n + 1
        <5>1. versions'[n + 1].content = copy
          BY <1>4
        <5>2. SealedContents'[n + 1] = copy
          BY <4>1, <5>1, <3>3
        <5> QED BY <4>1, <5>2, <3>1
      <4>2. CASE v \in 1..n
        <5>1. SealedContents'[v] = versions'[v].content
          BY <3>3
        <5>2. versions'[v] = versions[v]
          BY <4>2, <1>4
        <5>3. SealedContents[v] = versions[v].content
          BY <4>2, <3>2
        <5>4. Append(SealedContents, copy)[v] = SealedContents[v]
          BY <4>2, <3>1
        <5> QED BY <5>1, <5>2, <5>3, <5>4
      <4>3. v = n + 1 \/ v \in 1..n
        <5>1. n \in Nat
          BY <1>3
        <5> HIDE DEF n
        <5> QED BY <5>1
      <4> QED BY <4>1, <4>2, <4>3
    <3> QED BY <3>4
  <2>9. Append(SealedContents, copy) \in Seq(Contents)
        /\ Len(Append(SealedContents, copy)) = n + 1
    BY <2>1, <2>5, AppendProperties
  <2> QED BY <2>7, <2>8, <2>9, SeqEqual
<1> QED BY <1>1, <1>2, <1>5, <1>6 DEF FinalizeTx, Promise!Seal

LEMMA OpenRefines ==
  ASSUME IInv, Shape', NEW u \in Users, OpenTx(u) PROVE Promise!Reopen
<1>1. Status = "finalized"
  BY StatusOfCycle DEF StatusIsOfCycle, OpenTx, OpenAdmitted, IInv
<1>2. versions # <<>> /\ LatestVersion = Len(versions) /\ LatestVersion' = Len(versions)
  BY LatestIsLast DEF OpenTx, OpenAdmitted, IInv, Shape, TypeOK, LatestVersion
<1>3. /\ LatestVersion \in DOMAIN amendments'
      /\ amendments'[LatestVersion] = [event |-> Len(events), decision |-> Len(decisions)]
  BY DEF OpenTx, Amended
<1>4. Status' = "draft"
  <2>1. Status' # "finalized"
    BY <1>2, <1>3, StatusOfCycleNext DEF StatusIsOfCycle, Reopened
  <2>2. Status' = CycleStatus'
    BY <2>1, StatusOfCycleNext DEF StatusIsOfCycle
  <2>3. EventMark(Len(versions))' = Len(events)'
    BY <1>2, <1>3 DEF EventMark, OpenTx
  <2>4. LatestKind(EventMark(Len(versions)))' = ""
    <3>1. Len(events)' \in Nat
      BY DEF Shape, TypeOK, StoreTypeOK
    <3>2. ~(Len(events)' > EventMark(Len(versions))')
      BY <2>3, <3>1
    <3> QED BY <3>2 DEF LatestKind
  <2> QED BY <2>2, <2>4 DEF CycleStatus, StatusIn
<1> QED BY <1>1, <1>4 DEF OpenTx, SealedContents, Promise!Reopen

LEMMA DraftInitially == Init => Status = "draft"
<1> SUFFICES ASSUME Init PROVE Status = "draft"
  OBVIOUS
<1>1. LatestKind(0) = "created"
  BY DEF Init, LatestKind, EventRow
<1> QED BY <1>1 DEF Init, Status, StatusIn

LEMMA StepRefines ==
  IInv /\ Shape' /\ [Next]_vars => [Promise!RecordNext]_(Promise!sealedVars)
<1> SUFFICES ASSUME IInv, Shape', [Next]_vars
             PROVE  Promise!RecordNext \/ UNCHANGED Promise!sealedVars
  OBVIOUS
<1>1. ASSUME NEW u \in Users, ClientStep(u) \/ PassGate(u) \/ Drop(u)
      PROVE UNCHANGED Promise!sealedVars
  BY <1>1, ClientStepShape, SameStreams DEF IInv, PassGate, Drop, storeVars
<1>2. CASE UNCHANGED vars
  BY <1>2, SameStreams DEF vars, storeVars
<1> QED
  BY <1>1, <1>2, SaveRefines, TransferRefines, SubmitRefines, DecideRefines,
     FinalizeRefines, OpenRefines DEF Next, ServerStep, Promise!RecordNext

\* However the requests of any number of users interleave, the record moves like
\* the workflow it promises: content changes only while editable, only approved
\* content is sealed under a policy that requires review, and the sealed history
\* only grows.
THEOREM RecordIsKept == Spec => ImplementsSealedRecord
<1>1. Init => Promise!RecordInit
  <2> SUFFICES ASSUME Init PROVE Promise!RecordInit
    OBVIOUS
  <2>1. Status = "draft"
    BY DraftInitially
  <2>2. SealedContents = <<>>
    BY DEF Init, SealedContents
  <2> QED BY <2>1, <2>2, ContentsAssumption DEF Init, Promise!RecordInit
<1>2. IInv => Shape
  BY DEF IInv
<1> QED
  BY <1>1, <1>2, IInvHolds, StepRefines, PTL
     DEF Spec, ImplementsSealedRecord, Promise!RecordSpec

-----------------------------------------------------------------------------
(***************************************************************************)
(* The completion rules.                                                   *)
(***************************************************************************)
\* What entered review met the completion rules, and stays as it was until it
\* leaves: the copy can only be saved in between while it is not frozen.
FrozenIsComplete == Status \in {"submitted", "approved"} => copy \in Complete

LEMMA FrozenIsCompleteInductive ==
  IInv /\ Shape' /\ FrozenIsComplete /\ [Next]_vars => FrozenIsComplete'
<1> SUFFICES ASSUME IInv, Shape', FrozenIsComplete, [Next]_vars PROVE FrozenIsComplete'
  OBVIOUS
<1> USE DEF FrozenIsComplete
<1>1. ASSUME UNCHANGED <<copy, events, decisions, versions, amendments>>
      PROVE FrozenIsComplete'
  BY <1>1, StatusUnchanged
<1>2. ASSUME NEW u \in Users, ClientStep(u) \/ PassGate(u) \/ Drop(u)
      PROVE FrozenIsComplete'
  BY <1>1, <1>2, ClientStepShape DEF IInv, PassGate, Drop, storeVars
<1>3. ASSUME NEW u \in Users, SaveTx(u) \/ TransferTx(u) \/ OpenTx(u) \/ FinalizeTx(u)
      PROVE FrozenIsComplete'
  BY <1>3, SaveRefines, TransferRefines, OpenRefines, FinalizeRefines
     DEF Promise!Edit, Promise!Reopen, Promise!Seal
<1>4. ASSUME NEW u \in Users, SubmitTx(u) PROVE FrozenIsComplete'
  BY <1>4 DEF SubmitTx, SubmitAdmitted, Incomplete
<1>5. ASSUME NEW u \in Users, DecideTx(u) PROVE FrozenIsComplete'
  BY <1>5 DEF DecideTx, DecideAdmitted
<1>6. CASE UNCHANGED vars
  BY <1>1, <1>6 DEF vars, storeVars
<1> QED BY <1>2, <1>3, <1>4, <1>5, <1>6 DEF Next, ServerStep

\* An approved copy can always be finalized as it stands: no interleaving wedges
\* a record between its frozen copy and a failing completion rule.
THEOREM NoWedge == Spec => []ApprovedNeverWedges
<1>1. Init => FrozenIsComplete
  BY DraftInitially DEF FrozenIsComplete
<1>2. Spec => []FrozenIsComplete
  <2>1. IInv => Shape
    BY DEF IInv
  <2> QED BY <1>1, <2>1, IInvHolds, FrozenIsCompleteInductive, PTL DEF Spec
<1>3. IInv /\ FrozenIsComplete => ApprovedNeverWedges
  BY StatusOfCycle
     DEF IInv, FrozenIsComplete, ApprovedNeverWedges, FinalizeAdmitted, Incomplete,
         StatusIsOfCycle
<1> QED BY <1>2, <1>3, IInvHolds, PTL

-----------------------------------------------------------------------------
(***************************************************************************)
(* The revision token.                                                     *)
(***************************************************************************)
\* No token is from the future, and the current one stands for the current copy
\* and, until that copy is sealed, for the current cycle.
TokenOK(r) ==
  r.op \in Tokened =>
    /\ r.revision <= revision
    /\ r.revision = revision =>
         r.seen = copy /\ (Status # "finalized" => r.cycle = Cycle)
TokensOK == \A u \in Users : TokenOK(pending[u])

LEMMA NoRequestTokenOK == TokenOK(NoRequest) /\ TokenOK(NoRequest)'
BY DEF TokenOK, NoRequest, Tokened

\* What a page sends is current when it is sent.
LEMMA SentTokenOK ==
  ASSUME Shape, NEW u \in Users, ClientStep(u), NEW w \in Users, TokenOK(pending[w])
  PROVE  TokenOK(pending'[w])
<1> DEFINE Fresh(r) == r.op \in Tokened =>
                         r.revision = revision /\ r.seen = copy /\ r.cycle = Cycle
<1>1. ASSUME NEW r, Send(u, r), Fresh(r) PROVE TokenOK(pending'[w])
  <2>1. pending'[w] = r \/ pending'[w] = pending[w]
    BY <1>1 DEF Send, Shape, TypeOK
  <2>2. revision <= revision
    BY DEF Shape, TypeOK
  <2>3. TokenOK(r)
    BY <1>1, <2>2 DEF TokenOK
  <2> QED BY <2>1, <2>3
<1>2. /\ \A c : Fresh([Viewing("save") EXCEPT !.content = c, !.gated = TRUE])
      /\ Fresh(Viewing("submit"))
      /\ Fresh([Viewing("finalize") EXCEPT !.gated = TRUE])
  BY DEF Viewing, NoRequest
<1>3. /\ \A to : Fresh([NoRequest EXCEPT !.op = "transfer", !.to = to])
      /\ \A verdict : Fresh([NoRequest EXCEPT !.op = "decide", !.seen = copy,
                                             !.verdict = verdict, !.gated = TRUE])
      /\ Fresh([NoRequest EXCEPT !.op = "open", !.gated = TRUE])
  BY DEF NoRequest, Tokened
<1> HIDE DEF Fresh
<1> QED
  BY <1>1, <1>2, <1>3
     DEF ClientStep, SendSave, SendSubmit, SendTransfer, SendDecide, SendFinalize, SendOpen

LEMMA CycleUnchanged ==
  UNCHANGED <<versions, amendments>> => UNCHANGED <<Cycle, Reopened>>
BY DEF Cycle, Reopened, LatestVersion

\* A token stays good, or goes stale for good, whatever a step does.
LEMMA TokenKept ==
  ASSUME IInv, Shape', [Next]_vars, NEW r \in Requests, TokenOK(r)
  PROVE  TokenOK(r)'
<1>0. r.revision \in Nat /\ revision \in Nat
  BY DEF Requests, IInv, Shape, TypeOK
<1>1. CASE UNCHANGED <<copy, revision, versions, amendments>>
  <2>1. Status' # "finalized" => Status # "finalized"
    BY <1>1, CycleUnchanged, StatusOfCycle, StatusOfCycleNext DEF StatusIsOfCycle, IInv
  <2> QED BY <1>1, <2>1, CycleUnchanged DEF TokenOK
<1>2. CASE revision' = revision + 1
  BY <1>0, <1>2 DEF TokenOK
<1>3. ASSUME NEW u \in Users, FinalizeTx(u) PROVE TokenOK(r)'
  <2>1. Status' = "finalized"
    BY <1>3, FinalizeRefines DEF Promise!Seal
  <2> QED BY <1>3, <2>1 DEF FinalizeTx, TokenOK
<1>4. ASSUME NEW u \in Users, ClientStep(u) PROVE TokenOK(r)'
  BY <1>1, <1>4, ClientStepShape DEF storeVars, IInv
<1>5. ASSUME NEW u \in Users,
             PassGate(u) \/ Drop(u) \/ TransferTx(u) \/ SubmitTx(u) \/ DecideTx(u)
      PROVE TokenOK(r)'
  BY <1>1, <1>5 DEF PassGate, Drop, TransferTx, SubmitTx, DecideTx, storeVars
<1>6. ASSUME NEW u \in Users, SaveTx(u) \/ OpenTx(u) PROVE TokenOK(r)'
  BY <1>2, <1>6 DEF SaveTx, OpenTx
<1>7. CASE UNCHANGED vars
  BY <1>1, <1>7 DEF vars, storeVars
<1> QED BY <1>3, <1>4, <1>5, <1>6, <1>7 DEF Next, ServerStep

LEMMA TokensInductive == IInv /\ Shape' /\ TokensOK /\ [Next]_vars => TokensOK'
<1> SUFFICES ASSUME IInv, Shape', TokensOK, [Next]_vars, NEW w \in Users
             PROVE  TokenOK(pending[w])'
  BY DEF TokensOK
<1>0. pending[w] \in Requests /\ TokenOK(pending[w]) /\ TokenOK(NoRequest)'
  BY NoRequestTokenOK DEF TokensOK, IInv, Shape, TypeOK
<1>1. ASSUME NEW r \in Requests, TokenOK(r), pending'[w] = r PROVE TokenOK(pending[w])'
  <2>1. TokenOK(r)'
    BY <1>1, TokenKept
  <2> QED BY <1>1, <2>1 DEF TokenOK
<1>2. ASSUME NEW u \in Users, ClientStep(u) PROVE TokenOK(pending[w])'
  <2>1. pending'[w] \in Requests
    BY <1>2, ClientStepShape DEF IInv
  <2>2. TokenOK(pending'[w])
    BY <1>0, <1>2, SentTokenOK DEF IInv
  <2> QED BY <1>1, <2>1, <2>2
<1>3. ASSUME NEW u \in Users, PassGate(u) PROVE TokenOK(pending[w])'
  <2> DEFINE gated == [pending[u] EXCEPT !.gated = TRUE]
  <2>1. pending[u] \in Requests /\ TokenOK(pending[u])
    BY DEF TokensOK, IInv, Shape, TypeOK
  <2>2. gated \in Requests
    BY <2>1 DEF Requests
  <2>3. TokenOK(gated)
    BY <2>1 DEF TokenOK, Requests
  <2>4. pending'[w] = gated \/ pending'[w] = pending[w]
    BY <1>3 DEF PassGate, IInv, Shape, TypeOK
  <2> QED BY <1>0, <1>1, <2>2, <2>3, <2>4
<1>4. CASE pending'[w] = pending[w] \/ pending'[w] = NoRequest
  <2>1. TokenOK(NoRequest) /\ NoRequest \in Requests
    BY NoRequestTokenOK, NoRequestType
  <2> QED BY <1>0, <1>1, <1>4, <2>1
<1>5. ASSUME NEW u \in Users,
             \/ Drop(u) \/ SaveTx(u) \/ TransferTx(u) \/ SubmitTx(u)
             \/ DecideTx(u) \/ FinalizeTx(u) \/ OpenTx(u)
      PROVE pending'[w] = pending[w] \/ pending'[w] = NoRequest
  BY <1>5
     DEF Drop, SaveTx, TransferTx, SubmitTx, DecideTx, FinalizeTx, OpenTx, Answered,
         IInv, Shape, TypeOK
<1>6. CASE UNCHANGED vars
  BY <1>4, <1>6 DEF vars
<1> QED BY <1>2, <1>3, <1>4, <1>5, <1>6 DEF Next, ServerStep

LEMMA TokensHold == Spec => []TokensOK
<1>1. Init => TokensOK
  BY NoRequestTokenOK DEF Init, TokensOK
<1>2. IInv => Shape
  BY DEF IInv
<1> QED BY <1>1, <1>2, IInvHolds, TokensInductive, PTL DEF Spec

\* A request that carries the current revision was formed from the current copy,
\* whoever saved, reopened or sealed what in the meantime.
THEOREM RevisionsNameContent == Spec => []RevisionNamesContent
<1>1. TokensOK => RevisionNamesContent
  BY DEF TokensOK, TokenOK, RevisionNamesContent
<1> QED BY <1>1, TokensHold, PTL

\* No token formed in one cycle is current in a later one, however long delayed.
THEOREM TokensDie == Spec => []TokensDieWithTheirCycle
<1>1. TokensOK => TokensDieWithTheirCycle
  BY DEF TokensOK, TokenOK, TokensDieWithTheirCycle
<1> QED BY <1>1, TokensHold, PTL
-----------------------------------------------------------------------------
(***************************************************************************)
(* The streams only grow.  Each event a transaction appends is one the     *)
(* current cycle still takes, by someone it takes it from.                 *)
(***************************************************************************)
Extends(rows, later) ==
  Len(rows) <= Len(later) /\ \A i \in 1..Len(rows) : later[i] = rows[i]

\* e is appended while the record is not sealed; a transfer moves the owner to whom it
\* names, and it and a submission come from the owner or a coordinator.
Appends(e) ==
  /\ e \in Event
  /\ events' = Append(events, e)
  /\ Status # "finalized"
  /\ owner' = IF e.kind = "ownership_transferred" THEN e.to ELSE owner
  /\ e.kind \in {"submitted_for_review", "ownership_transferred"} =>
       e.actor \in Coordinators \union {owner}

LEMMA EventStep ==
  ASSUME IInv, [Next]_vars
  PROVE  UNCHANGED <<events, owner>> \/ \E e : Appends(e)
<1> USE DEF IInv, Shape
<1>0. \A u \in Users : pending[u] \in Requests
  BY DEF TypeOK
<1>1. ASSUME NEW u \in Users, ClientStep(u) PROVE UNCHANGED <<events, owner>>
  BY <1>1, ClientStepShape DEF storeVars
<1>2. ASSUME NEW u \in Users, PassGate(u) \/ Drop(u) \/ FinalizeTx(u) \/ OpenTx(u)
      PROVE  UNCHANGED <<events, owner>>
  BY <1>2 DEF PassGate, Drop, FinalizeTx, OpenTx, storeVars
<1>3. ASSUME NEW u \in Users, SaveTx(u)
      PROVE  UNCHANGED <<events, owner>> \/ \E e : Appends(e)
  <2> DEFINE e == EventRow("contributed", u, NoUser)
  <2>1. e \in Event /\ e.kind = "contributed"
    BY DEF EventRow, Event, EventKinds, AuthorKinds
  <2>2. Status # "finalized" /\ owner' = owner
    BY <1>3, FrozenStatuses DEF SaveTx, SaveAdmitted, FrozenRefusal
  <2>3. events' = events \/ events' = Append(events, e)
    BY <1>3 DEF SaveTx, Attributed
  <2> HIDE DEF e
  <2>4. ASSUME events' = Append(events, e) PROVE Appends(e)
    BY <2>1, <2>2, <2>4 DEF Appends
  <2> QED BY <2>2, <2>3, <2>4
<1>4. ASSUME NEW u \in Users, TransferTx(u) PROVE \E e : Appends(e)
  <2> DEFINE e == EventRow("ownership_transferred", u, pending[u].to)
  <2>1. pending[u].to \in Users
    BY <1>0, <1>4 DEF TransferTx, Ready, Requests
  <2>2. e \in Event /\ e.kind = "ownership_transferred" /\ e.to = pending[u].to /\ e.actor = u
    BY <2>1 DEF EventRow, Event, EventKinds
  <2>3. /\ Status # "finalized" /\ owner' = pending[u].to /\ events' = Append(events, e)
        /\ u \in Coordinators \union {owner}
    BY <1>4 DEF TransferTx, TransferAdmitted, FrozenRefusal, OwnerOrCoordinator
  <2> HIDE DEF e
  <2> QED BY <2>2, <2>3 DEF Appends
<1>5. ASSUME NEW u \in Users, SubmitTx(u) PROVE \E e : Appends(e)
  <2> DEFINE e == EventRow("submitted_for_review", u, NoUser)
  <2>1. e \in Event /\ e.kind = "submitted_for_review" /\ e.actor = u
    BY DEF EventRow, Event, EventKinds, AuthorKinds
  <2>2. /\ Status # "finalized" /\ owner' = owner /\ events' = Append(events, e)
        /\ u \in Coordinators \union {owner}
    BY <1>5 DEF SubmitTx, SubmitAdmitted, FrozenRefusal, OwnerOrCoordinator
  <2> HIDE DEF e
  <2> QED BY <2>1, <2>2 DEF Appends
<1>6. ASSUME NEW u \in Users, DecideTx(u) PROVE \E e : Appends(e)
  <2> DEFINE e == EventRow("review_decided", u, NoUser)
  <2>1. e \in Event /\ e.kind = "review_decided"
    BY DEF EventRow, Event, EventKinds
  <2>2. Status # "finalized" /\ owner' = owner /\ events' = Append(events, e)
    BY <1>6 DEF DecideTx, DecideAdmitted
  <2> HIDE DEF e
  <2> QED BY <2>1, <2>2 DEF Appends
<1>7. CASE UNCHANGED vars
  BY <1>7 DEF vars, storeVars
<1> QED BY <1>1, <1>2, <1>3, <1>4, <1>5, <1>6, <1>7 DEF Next, ServerStep

-----------------------------------------------------------------------------
(***************************************************************************)
(* Authority.                                                              *)
(***************************************************************************)
\* The definitions the property is made of, of an event stream given as an argument.
KindsIn(log, kind, i) == {j \in 1..i : log[j].kind = kind}
LastOf(places) == CHOOSE j \in places : \A k \in places : k <= j
TransfersIn(log, i) == KindsIn(log, "ownership_transferred", i)
OwnerIn(log, i) ==
  IF TransfersIn(log, i) = {} THEN Creator ELSE log[LastOf(TransfersIn(log, i))].to

\* The stream tells the owner, and what a transfer or submission needed when it was made;
\* where there was a transfer there was a last one.
Owned(log, holder) ==
  /\ holder = OwnerIn(log, Len(log))
  /\ \A i \in 2..Len(log) :
       log[i].kind \in {"submitted_for_review", "ownership_transferred"} =>
         log[i].actor \in Coordinators \union {OwnerIn(log, i - 1)}
  /\ \A i \in 0..Len(log) : TransfersIn(log, i) # {} =>
       \E j \in TransfersIn(log, i) : \A k \in TransfersIn(log, i) : k <= j

LEMMA OwnedIsCurrent == Owned(events, owner) => AuthorityIsCurrent
BY DEF Owned, OwnerIn, TransfersIn, KindsIn, LastOf, AuthorityIsCurrent, OwnerAsOf,
       Transfers

LEMMA OwnerIsFixed ==
  ASSUME NEW log \in Seq(Event), NEW e \in Event, NEW holder, Owned(log, holder),
         NEW i \in 0..Len(log)
  PROVE  /\ TransfersIn(Append(log, e), i) = TransfersIn(log, i)
         /\ OwnerIn(Append(log, e), i) = OwnerIn(log, i)
<1>1. \A j \in 1..i : Append(log, e)[j] = log[j]
  OBVIOUS
<1>2. TransfersIn(Append(log, e), i) = TransfersIn(log, i)
  BY <1>1 DEF TransfersIn, KindsIn
<1>3. CASE TransfersIn(log, i) = {}
  BY <1>2, <1>3 DEF OwnerIn
<1>4. CASE TransfersIn(log, i) # {}
  <2>1. LastOf(TransfersIn(log, i)) \in TransfersIn(log, i)
    BY <1>4 DEF Owned, LastOf
  <2>2. LastOf(TransfersIn(log, i)) \in 1..i
    BY <2>1 DEF TransfersIn, KindsIn
  <2> QED BY <1>1, <1>2, <1>4, <2>2 DEF OwnerIn
<1> QED BY <1>2, <1>3, <1>4

LEMMA OwnedKept ==
  ASSUME NEW log \in Seq(Event), NEW e \in Event, NEW holder, Owned(log, holder),
         e.kind \in {"submitted_for_review", "ownership_transferred"} =>
           e.actor \in Coordinators \union {holder}
  PROVE  Owned(Append(log, e), IF e.kind = "ownership_transferred" THEN e.to ELSE holder)
<1> DEFINE n == Len(log)
           log2 == Append(log, e)
<1>1. /\ n \in Nat /\ Len(log2) = n + 1 /\ log2[n + 1] = e
      /\ \A i \in 1..n : log2[i] = log[i]
  OBVIOUS
<1>2. \A i \in 0..n : /\ TransfersIn(log2, i) = TransfersIn(log, i)
                      /\ OwnerIn(log2, i) = OwnerIn(log, i)
  BY OwnerIsFixed
<1>3. TransfersIn(log2, n + 1) =
        IF e.kind = "ownership_transferred" THEN TransfersIn(log, n) \union {n + 1}
        ELSE TransfersIn(log, n)
  BY <1>1 DEF TransfersIn, KindsIn
<1>4. TransfersIn(log, n) \subseteq 1..n
  BY DEF TransfersIn, KindsIn
<1> HIDE DEF n, log2
<1>5. ASSUME e.kind = "ownership_transferred"
      PROVE  /\ OwnerIn(log2, n + 1) = e.to
             /\ n + 1 \in TransfersIn(log2, n + 1)
             /\ \A k \in TransfersIn(log2, n + 1) : k <= n + 1
  <2>1. /\ n + 1 \in TransfersIn(log2, n + 1)
        /\ \A k \in TransfersIn(log2, n + 1) : k <= n + 1 /\ k \in Nat
    BY <1>1, <1>3, <1>4, <1>5
  <2>2. LastOf(TransfersIn(log2, n + 1)) = n + 1
    BY <1>1, <2>1 DEF LastOf
  <2> QED BY <1>1, <2>1, <2>2 DEF OwnerIn
<1>6. ASSUME e.kind # "ownership_transferred"
      PROVE  OwnerIn(log2, n + 1) = holder
  <2>1. OwnerIn(log2, n) = holder
    BY <1>1, <1>2 DEF Owned, n
  <2>2. TransfersIn(log2, n + 1) = TransfersIn(log2, n)
    BY <1>1, <1>2, <1>3, <1>6
  <2> QED BY <2>1, <2>2 DEF OwnerIn
<1>7. \A i \in 2..(n + 1) :
        log2[i].kind \in {"submitted_for_review", "ownership_transferred"} =>
          log2[i].actor \in Coordinators \union {OwnerIn(log2, i - 1)}
  <2>1. OwnerIn(log2, n) = holder
    BY <1>1, <1>2 DEF Owned, n
  <2>2. ASSUME NEW i \in 2..n,
               log2[i].kind \in {"submitted_for_review", "ownership_transferred"}
        PROVE  log2[i].actor \in Coordinators \union {OwnerIn(log2, i - 1)}
    BY <1>1, <1>2, <2>2 DEF Owned, n
  <2> QED BY <1>1, <2>1, <2>2
<1>8. \A i \in 0..(n + 1) : TransfersIn(log2, i) # {} =>
        \E j \in TransfersIn(log2, i) : \A k \in TransfersIn(log2, i) : k <= j
  <2>1. ASSUME NEW i \in 0..n, TransfersIn(log, i) # {}
        PROVE  \E j \in TransfersIn(log, i) : \A k \in TransfersIn(log, i) : k <= j
    BY <2>1 DEF Owned, n
  <2>2. TransfersIn(log2, n + 1) # {} =>
          \E j \in TransfersIn(log2, n + 1) : \A k \in TransfersIn(log2, n + 1) : k <= j
    BY <1>1, <1>3, <1>5, <2>1
  <2> QED BY <1>1, <1>2, <2>1, <2>2
<1>9. CASE e.kind = "ownership_transferred"
  <2>1. OwnerIn(log2, Len(log2)) = e.to
    BY <1>1, <1>5, <1>9
  <2>2. Owned(log2, e.to)
    BY <1>1, <1>7, <1>8, <2>1 DEF Owned
  <2> QED BY <1>9, <2>2 DEF log2
<1>10. CASE e.kind # "ownership_transferred"
  <2>1. OwnerIn(log2, Len(log2)) = holder
    BY <1>1, <1>6, <1>10
  <2>2. Owned(log2, holder)
    BY <1>1, <1>7, <1>8, <2>1 DEF Owned
  <2> QED BY <1>10, <2>2 DEF log2
<1> QED BY <1>9, <1>10

\* Whoever passed the gate as the owner acts only while still the owner.
THEOREM AuthorityStaysCurrent == Spec => []AuthorityIsCurrent
<1>1. Init => Owned(events, owner)
  <2> SUFFICES ASSUME Init PROVE Owned(events, owner)
    OBVIOUS
  <2>1. Len(events) = 1 /\ events[1].kind = "created" /\ owner = Creator
    BY DEF Init, EventRow
  <2>2. \A i \in 0..1 : TransfersIn(events, i) = {}
    BY <2>1 DEF TransfersIn, KindsIn
  <2> QED BY <2>1, <2>2 DEF Owned, OwnerIn
<1>2. IInv /\ Owned(events, owner) /\ [Next]_vars => Owned(events, owner)'
  <2> SUFFICES ASSUME IInv, Owned(events, owner), [Next]_vars
               PROVE  Owned(events', owner')
    BY DEF Owned, OwnerIn, TransfersIn, KindsIn, LastOf
  <2>1. ASSUME NEW e, Appends(e) PROVE Owned(events', owner')
    BY <2>1, OwnedKept DEF Appends, IInv, Shape, TypeOK, StoreTypeOK
  <2> QED BY <2>1, EventStep
<1> QED BY <1>1, <1>2, IInvHolds, OwnedIsCurrent, PTL DEF Spec
-----------------------------------------------------------------------------
(***************************************************************************)
(* The streams stay paired, so what the service admits the schema accepts. *)
(***************************************************************************)
ReasonsIn(rows, reason) == {i \in 1..Len(rows) : rows[i].reason = reason}
VerdictsIn(rows, verdict) == {i \in 1..Len(rows) : rows[i].verdict = verdict}

\* Every submission took its snapshot, every decision its event, and every request for
\* changes the copy it returned.
Paired(log, given, taken) ==
  /\ Cardinality(ReasonsIn(taken, "submission"))
       = Cardinality(KindsIn(log, "submitted_for_review", Len(log)))
  /\ Len(given) = Cardinality(KindsIn(log, "review_decided", Len(log)))
  /\ Cardinality(ReasonsIn(taken, "change_request_return"))
       = Cardinality(VerdictsIn(given, "changes_requested"))

\* How many places of a stream are in a set after one more row.
LEMMA CountGrows ==
  ASSUME NEW n \in Nat, NEW S \in SUBSET (1..n), NEW T, T = S \/ T = S \union {n + 1}
  PROVE  /\ Cardinality(S) \in Nat /\ Cardinality(T) \in Nat
         /\ Cardinality(T) = IF n + 1 \in T THEN Cardinality(S) + 1 ELSE Cardinality(S)
<1>1. IsFiniteSet(1..n)
  BY FS_Interval
<1>2. IsFiniteSet(S) /\ Cardinality(S) \in Nat
  BY <1>1, FS_Subset, FS_CardinalityType
<1>3. n + 1 \notin S
  OBVIOUS
<1>4. Cardinality(S \union {n + 1}) = Cardinality(S) + 1
  BY <1>2, <1>3, FS_AddElement
<1> QED BY <1>2, <1>3, <1>4

LEMMA KindsGrow ==
  ASSUME NEW log \in Seq(Event), NEW e \in Event, NEW kind
  PROVE  /\ Cardinality(KindsIn(log, kind, Len(log))) \in Nat
         /\ Cardinality(KindsIn(Append(log, e), kind, Len(Append(log, e))))
              = IF e.kind = kind THEN Cardinality(KindsIn(log, kind, Len(log))) + 1
                ELSE Cardinality(KindsIn(log, kind, Len(log)))
<1> DEFINE n == Len(log)
           S == KindsIn(log, kind, Len(log))
           T == KindsIn(Append(log, e), kind, Len(Append(log, e)))
<1>1. /\ n \in Nat /\ Len(Append(log, e)) = n + 1 /\ Append(log, e)[n + 1] = e
      /\ \A i \in 1..n : Append(log, e)[i] = log[i]
  OBVIOUS
<1>2. S \in SUBSET (1..n) /\ T = IF e.kind = kind THEN S \union {n + 1} ELSE S
  BY <1>1 DEF KindsIn
<1>3. n + 1 \in T <=> e.kind = kind
  BY <1>1 DEF KindsIn
<1> HIDE DEF n, S, T
<1>4. /\ Cardinality(S) \in Nat
      /\ Cardinality(T) = IF n + 1 \in T THEN Cardinality(S) + 1 ELSE Cardinality(S)
  BY <1>1, <1>2, CountGrows
<1> QED BY <1>3, <1>4 DEF S, T

LEMMA ReasonsGrow ==
  ASSUME NEW taken \in Seq(Snapshot), NEW s \in Snapshot, NEW reason
  PROVE  /\ Cardinality(ReasonsIn(taken, reason)) \in Nat
         /\ Cardinality(ReasonsIn(Append(taken, s), reason))
              = IF s.reason = reason THEN Cardinality(ReasonsIn(taken, reason)) + 1
                ELSE Cardinality(ReasonsIn(taken, reason))
<1> DEFINE n == Len(taken)
           S == ReasonsIn(taken, reason)
           T == ReasonsIn(Append(taken, s), reason)
<1>1. /\ n \in Nat /\ Len(Append(taken, s)) = n + 1 /\ Append(taken, s)[n + 1] = s
      /\ \A i \in 1..n : Append(taken, s)[i] = taken[i]
  OBVIOUS
<1>2. S \in SUBSET (1..n) /\ T = IF s.reason = reason THEN S \union {n + 1} ELSE S
  BY <1>1 DEF ReasonsIn
<1>3. n + 1 \in T <=> s.reason = reason
  BY <1>1 DEF ReasonsIn
<1> HIDE DEF n, S, T
<1>4. /\ Cardinality(S) \in Nat
      /\ Cardinality(T) = IF n + 1 \in T THEN Cardinality(S) + 1 ELSE Cardinality(S)
  BY <1>1, <1>2, CountGrows
<1> QED BY <1>3, <1>4 DEF S, T

LEMMA VerdictsGrow ==
  ASSUME NEW given \in Seq(Decision), NEW d \in Decision, NEW verdict
  PROVE  /\ Cardinality(VerdictsIn(given, verdict)) \in Nat
         /\ Cardinality(VerdictsIn(Append(given, d), verdict))
              = IF d.verdict = verdict THEN Cardinality(VerdictsIn(given, verdict)) + 1
                ELSE Cardinality(VerdictsIn(given, verdict))
<1> DEFINE n == Len(given)
           S == VerdictsIn(given, verdict)
           T == VerdictsIn(Append(given, d), verdict)
<1>1. /\ n \in Nat /\ Len(Append(given, d)) = n + 1 /\ Append(given, d)[n + 1] = d
      /\ \A i \in 1..n : Append(given, d)[i] = given[i]
  OBVIOUS
<1>2. S \in SUBSET (1..n) /\ T = IF d.verdict = verdict THEN S \union {n + 1} ELSE S
  BY <1>1 DEF VerdictsIn
<1>3. n + 1 \in T <=> d.verdict = verdict
  BY <1>1 DEF VerdictsIn
<1> HIDE DEF n, S, T
<1>4. /\ Cardinality(S) \in Nat
      /\ Cardinality(T) = IF n + 1 \in T THEN Cardinality(S) + 1 ELSE Cardinality(S)
  BY <1>1, <1>2, CountGrows
<1> QED BY <1>3, <1>4 DEF S, T

\* A step that appends nothing, or only an event that is neither a submission nor a
\* decision, keeps the streams paired.
LEMMA PairedKept ==
  ASSUME NEW log \in Seq(Event), NEW given, NEW taken, Paired(log, given, taken),
         NEW e \in Event, e.kind \notin {"submitted_for_review", "review_decided"}
  PROVE  Paired(Append(log, e), given, taken)
BY KindsGrow DEF Paired

LEMMA PairedBySubmission ==
  ASSUME NEW log \in Seq(Event), NEW given, NEW taken \in Seq(Snapshot),
         Paired(log, given, taken),
         NEW e \in Event, e.kind = "submitted_for_review",
         NEW s \in Snapshot, s.reason = "submission"
  PROVE  Paired(Append(log, e), given, Append(taken, s))
BY KindsGrow, ReasonsGrow DEF Paired

LEMMA PairedByDecision ==
  ASSUME NEW log \in Seq(Event), NEW given \in Seq(Decision), NEW taken \in Seq(Snapshot),
         Paired(log, given, taken), NEW taken2,
         NEW e \in Event, e.kind = "review_decided", NEW d \in Decision,
         NEW s \in Snapshot, s.reason = "change_request_return",
         taken2 = IF d.verdict = "changes_requested" THEN Append(taken, s) ELSE taken
  PROVE  Paired(Append(log, e), Append(given, d), taken2)
<1>1. Len(Append(given, d)) = Len(given) + 1
  OBVIOUS
<1>2. /\ Cardinality(KindsIn(Append(log, e), "review_decided", Len(Append(log, e))))
           = Cardinality(KindsIn(log, "review_decided", Len(log))) + 1
      /\ Cardinality(KindsIn(Append(log, e), "submitted_for_review", Len(Append(log, e))))
           = Cardinality(KindsIn(log, "submitted_for_review", Len(log)))
  BY KindsGrow
<1>3. CASE d.verdict = "changes_requested"
  BY <1>1, <1>2, <1>3, ReasonsGrow, VerdictsGrow DEF Paired
<1>4. CASE d.verdict # "changes_requested"
  BY <1>1, <1>2, <1>4, VerdictsGrow DEF Paired
<1> QED BY <1>3, <1>4

StreamsPaired == Paired(events, decisions, snapshots)

LEMMA StreamsPairedInductive == IInv /\ StreamsPaired /\ [Next]_vars => StreamsPaired'
<1> SUFFICES ASSUME IInv, StreamsPaired, [Next]_vars
             PROVE  Paired(events', decisions', snapshots')
  BY DEF StreamsPaired, Paired, ReasonsIn, VerdictsIn, KindsIn
<1>0. /\ events \in Seq(Event) /\ decisions \in Seq(Decision) /\ snapshots \in Seq(Snapshot)
      /\ Paired(events, decisions, snapshots) /\ copy \in Contents
      /\ \A u \in Users : pending[u] \in Requests
  BY DEF IInv, Shape, TypeOK, StoreTypeOK, StreamsPaired
<1>1. CASE UNCHANGED <<events, decisions, snapshots>>
  BY <1>0, <1>1
<1>2. ASSUME NEW u \in Users, ClientStep(u) PROVE UNCHANGED <<events, decisions, snapshots>>
  BY <1>2, ClientStepShape DEF IInv, storeVars
<1>3. ASSUME NEW u \in Users, PassGate(u) \/ Drop(u) \/ FinalizeTx(u) \/ OpenTx(u)
      PROVE  UNCHANGED <<events, decisions, snapshots>>
  BY <1>3 DEF PassGate, Drop, FinalizeTx, OpenTx, storeVars
<1>4. ASSUME NEW u \in Users, SaveTx(u) PROVE Paired(events', decisions', snapshots')
  <2> DEFINE e == EventRow("contributed", u, NoUser)
  <2>1. e \in Event /\ e.kind \notin {"submitted_for_review", "review_decided"}
    BY DEF EventRow, Event, EventKinds, AuthorKinds
  <2>2. /\ events' = events \/ events' = Append(events, e)
        /\ decisions' = decisions /\ snapshots' = snapshots
    BY <1>4 DEF SaveTx, Attributed
  <2> HIDE DEF e
  <2> QED BY <1>0, <2>1, <2>2, PairedKept
<1>5. ASSUME NEW u \in Users, TransferTx(u) PROVE Paired(events', decisions', snapshots')
  <2> DEFINE e == EventRow("ownership_transferred", u, pending[u].to)
  <2>1. pending[u].to \in Users
    BY <1>0, <1>5 DEF TransferTx, Ready, Requests
  <2>2. e \in Event /\ e.kind \notin {"submitted_for_review", "review_decided"}
    BY <2>1 DEF EventRow, Event, EventKinds
  <2>3. events' = Append(events, e) /\ decisions' = decisions /\ snapshots' = snapshots
    BY <1>5 DEF TransferTx
  <2> HIDE DEF e
  <2> QED BY <1>0, <2>2, <2>3, PairedKept
<1>6. ASSUME NEW u \in Users, SubmitTx(u) PROVE Paired(events', decisions', snapshots')
  <2> DEFINE e == EventRow("submitted_for_review", u, NoUser)
             s == SnapshotRow("submission", u)
  <2>1. /\ e \in Event /\ e.kind = "submitted_for_review"
        /\ s \in Snapshot /\ s.reason = "submission"
    BY <1>0 DEF EventRow, Event, EventKinds, AuthorKinds, SnapshotRow, Snapshot, Reasons
  <2>2. /\ events' = Append(events, e) /\ decisions' = decisions
        /\ snapshots' = Append(snapshots, s)
    BY <1>6 DEF SubmitTx
  <2> HIDE DEF e, s
  <2> QED BY <1>0, <2>1, <2>2, PairedBySubmission
<1>7. ASSUME NEW u \in Users, DecideTx(u) PROVE Paired(events', decisions', snapshots')
  <2> DEFINE e == EventRow("review_decided", u, NoUser)
             s == SnapshotRow("change_request_return", u)
             d == [reviewer |-> u, verdict |-> pending[u].verdict]
  <2>1. pending[u].verdict \in Verdicts
    BY <1>0, <1>7 DEF DecideTx, Ready, Requests
  <2>2. /\ e \in Event /\ e.kind = "review_decided" /\ d \in Decision
        /\ s \in Snapshot /\ s.reason = "change_request_return"
        /\ d.verdict = pending[u].verdict
    BY <1>0, <2>1
       DEF EventRow, Event, EventKinds, SnapshotRow, Snapshot, Reasons, Decision
  <2>3. /\ events' = Append(events, e) /\ decisions' = Append(decisions, d)
        /\ snapshots' = IF pending[u].verdict = "changes_requested"
                        THEN Append(snapshots, s) ELSE snapshots
    BY <1>7 DEF DecideTx
  <2> HIDE DEF e, s, d
  <2>4. snapshots' = IF d.verdict = "changes_requested"
                     THEN Append(snapshots, s) ELSE snapshots
    BY <2>2, <2>3
  <2> QED BY <1>0, <2>2, <2>3, <2>4, PairedByDecision
<1>8. CASE UNCHANGED vars
  BY <1>1, <1>8 DEF vars, storeVars
<1> QED
  BY <1>1, <1>2, <1>3, <1>4, <1>5, <1>6, <1>7, <1>8 DEF Next, ServerStep

LEMMA StreamsPairedHolds == Spec => []StreamsPaired
<1>1. Init => StreamsPaired
  <2> SUFFICES ASSUME Init PROVE StreamsPaired
    OBVIOUS
  <2>1. /\ KindsIn(events, "submitted_for_review", Len(events)) = {}
        /\ KindsIn(events, "review_decided", Len(events)) = {}
        /\ ReasonsIn(snapshots, "submission") = {}
        /\ ReasonsIn(snapshots, "change_request_return") = {}
        /\ VerdictsIn(decisions, "changes_requested") = {}
        /\ Len(decisions) = 0
    BY DEF Init, EventRow, KindsIn, ReasonsIn, VerdictsIn
  <2>2. Cardinality({}) = 0
    BY FS_EmptySet
  <2> QED BY <2>1, <2>2 DEF StreamsPaired, Paired
<1> QED BY <1>1, IInvHolds, StreamsPairedInductive, PTL DEF Spec

\* The schema and the service derive the cycle the same way, so both see it frozen.
LEMMA FrozenAgrees == Shape => Frozen = FrozenRefusal
<1> SUFFICES ASSUME Shape PROVE Frozen = FrozenRefusal
  OBVIOUS
<1>0. Frozen \in BOOLEAN /\ FrozenRefusal \in BOOLEAN
  BY DEF Frozen, FrozenRefusal, InReview
<1> SUFFICES Frozen <=> FrozenRefusal
  BY <1>0
<1> USE DEF Shape
<1>1. CASE versions = <<>>
  BY <1>1, StatusInType DEF Frozen, FrozenRefusal, Status
<1>2. CASE versions # <<>> /\ LatestVersion \notin DOMAIN amendments
  BY <1>2 DEF Frozen, FrozenRefusal, Status, Reopened
<1>3. CASE versions # <<>> /\ LatestVersion \in DOMAIN amendments
  <2>1. Status = StatusIn(EventMark(LatestVersion), DecisionMark(LatestVersion))
    BY <1>3 DEF Status, Reopened
  <2> QED BY <1>3, <2>1, StatusInType, MarkTypes DEF Frozen, FrozenRefusal
<1> QED BY <1>1, <1>2, <1>3

LEMMA SubmittedIsLatest ==
  ASSUME Shape, Status = "submitted"
  PROVE  /\ LatestKind(EventMark(Len(versions))) = "submitted_for_review"
         /\ LatestKind(0) = "submitted_for_review"
<1>1. CycleStatus = "submitted"
  BY StatusOfCycle DEF StatusIsOfCycle
<1>2. /\ EventMark(Len(versions)) \in Nat /\ DecisionMark(Len(versions)) \in Nat
      /\ Len(decisions) \in Nat /\ Len(events) \in Nat
  BY MarkTypes DEF Shape, TypeOK, StoreTypeOK
<1>3. LatestVerdict(DecisionMark(Len(versions))) # "submitted"
  BY <1>2, VerdictInType DEF Shape, Verdicts
<1>4. LatestKind(EventMark(Len(versions))) = "submitted_for_review"
  BY <1>1, <1>3 DEF CycleStatus, StatusIn
<1>5. Len(events) > EventMark(Len(versions))
  BY <1>4 DEF LatestKind
<1> QED BY <1>2, <1>4, <1>5 DEF LatestKind

LEMMA ApprovedIsLatest ==
  ASSUME Shape, Status = "approved"
  PROVE  /\ LatestKind(EventMark(Len(versions))) = "review_decided"
         /\ LatestVerdict(DecisionMark(Len(versions))) = "approved"
<1>1. CycleStatus = "approved"
  BY StatusOfCycle DEF StatusIsOfCycle
<1> QED BY <1>1 DEF CycleStatus, StatusIn

\* What finalize numbers its version, and the version it extends.
LEMMA NextExtends ==
  ASSUME Shape, versions # <<>> => Reopened
  PROVE  NextNumber = Len(versions) + 1 /\ NextPredecessor = Len(versions)
<1>1. CASE versions = <<>>
  BY <1>1 DEF NextNumber, NextPredecessor, Reopened
<1>2. CASE versions # <<>>
  <2>1. LatestVersion = Len(versions) /\ Len(versions) \in DOMAIN versions
    BY <1>2, LatestIsLast DEF Shape, TypeOK, StoreTypeOK
  <2> QED BY <1>2, <2>1 DEF NextNumber, NextPredecessor, Shape, VersionsFormOneChain
<1> QED BY <1>1, <1>2

LEMMA AdmittedVersionIsAccepted ==
  ASSUME Shape, NEW token, FinalizeAdmitted(token)
  PROVE  VersionAccepted(NextNumber, NextPredecessor)
<1> DEFINE n == Len(versions)
<1>1. /\ n \in Nat /\ DOMAIN versions = 1..n
      /\ \A v \in DOMAIN versions : versions[v].number = v
  BY DEF Shape, TypeOK, StoreTypeOK, VersionsFormOneChain
<1>2. NextNumber = n + 1 /\ NextPredecessor = n
  BY NextExtends DEF FinalizeAdmitted
<1>3. ASSUME n # 0 PROVE versions # <<>> /\ LatestVersion = n /\ n \in DOMAIN amendments
  <2>1. versions # <<>>
    BY <1>3
  <2> QED BY <2>1, LatestIsLast DEF FinalizeAdmitted, Reopened, Shape, TypeOK
<1>4. reviewRequired => /\ LatestKind(EventMark(n)) = "review_decided"
                        /\ LatestVerdict(DecisionMark(n)) = "approved"
  BY ApprovedIsLatest DEF FinalizeAdmitted
<1>5. n # 0 => versions[LatestVersion].number = n
  BY <1>1, <1>3
<1> HIDE DEF n
<1> QED BY <1>1, <1>2, <1>3, <1>4, <1>5 DEF VersionAccepted

\* No transaction the service admits ends in a trigger's refusal.
THEOREM AdmittedStaysAccepted == Spec => []AdmittedIsAccepted
<1>1. ASSUME IInv, StreamsPaired PROVE AdmittedIsAccepted
  <2>0. \A u \in Users : pending[u] \in Requests
    BY <1>1 DEF IInv, Shape, TypeOK
  <2>1. Frozen = FrozenRefusal
    BY <1>1, FrozenAgrees DEF IInv
  <2>2. ASSUME NEW u \in Users, SaveAdmitted(pending[u].revision)
        PROVE  CopyAccepted /\ EventAccepted("contributed", NoUser)
    BY <2>1, <2>2 DEF SaveAdmitted, CopyAccepted, EventAccepted, EventKinds, AuthorKinds
  <2>3. ASSUME NEW u \in Users, SubmitAdmitted(u, pending[u].revision)
        PROVE  EventAccepted("submitted_for_review", NoUser)
    BY <2>1, <2>3 DEF SubmitAdmitted, EventAccepted, EventKinds, AuthorKinds
  <2>4. ASSUME NEW u \in Users, TransferAdmitted(u, pending[u].to),
               pending[u].op = "transfer"
        PROVE  EventAccepted("ownership_transferred", pending[u].to)
    <3>1. pending[u].to # NoUser
      BY <2>0, <2>4 DEF Requests
    <3> QED BY <2>1, <2>4, <3>1 DEF TransferAdmitted, EventAccepted, EventKinds
  <2>5. ASSUME NEW u \in Users, NEW verdict \in Verdicts, DecideAdmitted(u)
        PROVE  DecisionAccepted(u, verdict,
                 Cardinality(SnapshotsFor("change_request_return")) + 1)
    <3>1. LatestKind(0) = "submitted_for_review"
      BY <1>1, <2>5, SubmittedIsLatest DEF DecideAdmitted, IInv
    <3>2. /\ SnapshotsFor("change_request_return")
               = ReasonsIn(snapshots, "change_request_return")
          /\ DecisionsOf("changes_requested") = VerdictsIn(decisions, "changes_requested")
      BY <1>1
         DEF SnapshotsFor, DecisionsOf, ReasonsIn, VerdictsIn, IInv, Shape, TypeOK, StoreTypeOK
    <3>3. Cardinality(VerdictsIn(decisions, "changes_requested")) \in Nat
      <4>1. VerdictsIn(decisions, "changes_requested") \subseteq 1..Len(decisions)
            /\ Len(decisions) \in Nat
        BY <1>1 DEF VerdictsIn, IInv, Shape, TypeOK, StoreTypeOK
      <4>2. IsFiniteSet(1..Len(decisions))
        BY <4>1, FS_Interval
      <4>3. IsFiniteSet(VerdictsIn(decisions, "changes_requested"))
        BY <4>1, <4>2, FS_Subset
      <4> QED BY <4>3, FS_CardinalityType
    <3>4. Cardinality(SnapshotsFor("change_request_return"))
            = Cardinality(DecisionsOf("changes_requested"))
      BY <1>1, <3>2 DEF StreamsPaired, Paired
    <3> QED
      BY <2>5, <3>1, <3>2, <3>3, <3>4 DEF DecisionAccepted, DecideAdmitted
  <2>6. ASSUME NEW u \in Users, FinalizeAdmitted(pending[u].revision)
        PROVE  VersionAccepted(NextNumber, NextPredecessor)
    BY <1>1, <2>6, AdmittedVersionIsAccepted DEF IInv
  <2>7. OpenAdmitted => AmendmentAccepted(LatestVersion, Len(events), Len(decisions))
    BY DEF OpenAdmitted, AmendmentAccepted, Reopened
  <2> QED BY <2>1, <2>2, <2>3, <2>4, <2>5, <2>6, <2>7 DEF AdmittedIsAccepted
<1> QED BY <1>1, IInvHolds, StreamsPairedHolds, PTL

-----------------------------------------------------------------------------
(***************************************************************************)
(* Attribution.                                                            *)
(***************************************************************************)
\* Where the current or last cycle began, without the latest version.
LEMMA CycleMarkIs ==
  ASSUME Shape
  PROVE  /\ Status # "finalized" => CycleMark = EventMark(Len(versions))
         /\ Status = "finalized" => CycleMark = EventMark(Len(versions) - 1)
<1>1. CASE versions = <<>>
  <2>1. EventMark(Len(versions)) = 0
    BY <1>1 DEF EventMark, Shape, TypeOK, StoreTypeOK
  <2> QED BY <1>1, <2>1, StatusOfCycle DEF StatusIsOfCycle, CycleMark
<1>2. CASE versions # <<>>
  <2>1. LatestVersion = Len(versions)
    BY <1>2, LatestIsLast DEF Shape, TypeOK
  <2> QED BY <1>2, <2>1, StatusOfCycle DEF StatusIsOfCycle, CycleMark
<1> QED BY <1>1, <1>2

LEMMA CycleMarkUnchanged ==
  UNCHANGED <<versions, amendments>> => UNCHANGED CycleMark
BY DEF CycleMark, Reopened, LatestVersion, EventMark

LEMMA AttributionInductive ==
  IInv /\ Shape' /\ EditorsAreAttributed /\ [Next]_vars => EditorsAreAttributed'
<1> SUFFICES ASSUME IInv, Shape', EditorsAreAttributed, [Next]_vars, NEW w \in editors'
             PROVE  \E i \in (CycleMark' + 1)..Len(events') :
                      events'[i].kind = "contributed" /\ events'[i].actor = w
  BY DEF EditorsAreAttributed
<1> DEFINE Credited == \E i \in (CycleMark' + 1)..Len(events') :
                         events'[i].kind = "contributed" /\ events'[i].actor = w
<1>0. CycleMark \in Nat /\ Len(events) \in Nat
  <2>1. CycleMark = EventMark(Len(versions)) \/ CycleMark = EventMark(Len(versions) - 1)
    BY CycleMarkIs, StatusOfCycle DEF IInv, StatusIsOfCycle
  <2> QED BY <2>1, MarkTypes DEF IInv, Shape, TypeOK, StoreTypeOK
<1>1. ASSUME CycleMark' = CycleMark, w \in editors, Extends(events, events'),
             Len(events') \in Nat
      PROVE  Credited
  <2>1. PICK i \in (CycleMark + 1)..Len(events) :
          events[i].kind = "contributed" /\ events[i].actor = w
    BY <1>1 DEF EditorsAreAttributed
  <2>2. i \in 1..Len(events) /\ i \in (CycleMark' + 1)..Len(events')
    BY <1>0, <1>1, <2>1 DEF Extends
  <2> QED BY <1>1, <2>1, <2>2 DEF Extends
<1>2. Extends(events, events) /\ \A e \in Event : Extends(events, Append(events, e))
  BY DEF Extends, IInv, Shape, TypeOK, StoreTypeOK
<1>3. Len(events') \in Nat
  BY DEF Shape, TypeOK, StoreTypeOK
<1>4. ASSUME UNCHANGED <<events, versions, amendments, editors>> PROVE Credited
  BY <1>1, <1>2, <1>3, <1>4, CycleMarkUnchanged
<1>5. ASSUME NEW u \in Users, ClientStep(u) \/ PassGate(u) \/ Drop(u) PROVE Credited
  BY <1>4, <1>5, ClientStepShape DEF IInv, PassGate, Drop, storeVars
<1>6. ASSUME NEW u \in Users, TransferTx(u) \/ SubmitTx(u) \/ DecideTx(u) PROVE Credited
  <2>1. UNCHANGED <<versions, amendments, editors>>
    BY <1>6 DEF TransferTx, SubmitTx, DecideTx
  <2>2. PICK e : events' = events \/ (e \in Event /\ events' = Append(events, e))
    BY EventStep DEF Appends
  <2> QED BY <1>1, <1>2, <1>3, <2>1, <2>2, CycleMarkUnchanged
<1>7. ASSUME NEW u \in Users, SaveTx(u) PROVE Credited
  <2> DEFINE e == EventRow("contributed", u, NoUser)
  <2>1. e \in Event /\ e.kind = "contributed" /\ e.actor = u
    BY DEF EventRow, Event, EventKinds, AuthorKinds
  <2>2. Status # "finalized"
    BY <1>7, FrozenStatuses DEF SaveTx, SaveAdmitted, FrozenRefusal
  <2>3. CycleMark = EventMark(Len(versions)) /\ CycleMark' = CycleMark
    BY <1>7, <2>2, CycleMarkIs, CycleMarkUnchanged DEF SaveTx, IInv
  <2>4. CycleMark <= Len(events)
    BY <1>0, <2>3 DEF IInv, MarksWithinStreams, EventMark
  <2>5. CycleMark = ScopeMark
    <3>1. CASE versions = <<>>
      BY <3>1 DEF CycleMark, ScopeMark, Reopened
    <3>2. CASE versions # <<>>
      BY <2>2, <3>2, StatusOfCycle DEF CycleMark, ScopeMark, IInv, StatusIsOfCycle
    <3> QED BY <3>1, <3>2
  <2>6. \/ /\ events' = events
           /\ LatestKind(CycleMark) = "contributed" /\ events[Len(events)].actor = u
        \/ events' = Append(events, e)
    BY <1>7, <2>5 DEF SaveTx, Attributed
  <2> HIDE DEF e
  <2>7. CASE w = u
    <3>1. CASE events' = Append(events, e)
      <4>1. Len(events') = Len(events) + 1 /\ events'[Len(events) + 1] = e
        BY <2>1, <3>1 DEF IInv, Shape, TypeOK, StoreTypeOK
      <4>2. Len(events) + 1 \in (CycleMark' + 1)..Len(events')
        BY <1>0, <2>3, <2>4, <4>1
      <4> QED BY <2>1, <2>7, <4>1, <4>2
    <3>2. CASE /\ events' = events
               /\ LatestKind(CycleMark) = "contributed" /\ events[Len(events)].actor = u
      <4>1. Len(events) > CycleMark /\ events[Len(events)].kind = "contributed"
        BY <3>2 DEF LatestKind
      <4>2. Len(events) \in (CycleMark' + 1)..Len(events')
        BY <1>0, <2>3, <3>2, <4>1
      <4> QED BY <2>7, <3>2, <4>1, <4>2
    <3> QED BY <2>6, <3>1, <3>2
  <2>8. CASE w # u
    <3>1. w \in editors
      BY <1>7, <2>8 DEF SaveTx
    <3>2. Extends(events, events')
      BY <1>2, <2>1, <2>6
    <3> QED BY <1>1, <1>3, <2>3, <3>1, <3>2
  <2> QED BY <2>7, <2>8
<1>8. ASSUME NEW u \in Users, FinalizeTx(u) PROVE Credited
  <2>1. Status # "finalized" /\ Status' = "finalized"
    BY <1>8, FinalizeRefines DEF Promise!Seal
  <2>2. /\ events' = events /\ amendments' = amendments /\ editors' = editors
        /\ Len(versions') - 1 = Len(versions)
    BY <1>8 DEF FinalizeTx, IInv, Shape, TypeOK, StoreTypeOK
  <2>3. CycleMark = EventMark(Len(versions))
    BY <2>1, CycleMarkIs DEF IInv
  <2>4. CycleMark' = EventMark(Len(versions) - 1)'
    <3>1. (Status = "finalized" => CycleMark = EventMark(Len(versions) - 1))'
      BY CycleMarkIs, PTL
    <3> QED BY <2>1, <3>1
  <2>5. CycleMark' = CycleMark
    BY <2>2, <2>3, <2>4 DEF EventMark
  <2> QED BY <1>1, <1>2, <1>3, <2>2, <2>5
<1>9. ASSUME NEW u \in Users, OpenTx(u) PROVE FALSE
  BY <1>9 DEF OpenTx
<1>10. CASE UNCHANGED vars
  BY <1>4, <1>10 DEF vars, storeVars
<1> QED
  BY <1>4, <1>5, <1>6, <1>7, <1>8, <1>9, <1>10 DEF Next, ServerStep

\* A sealed version's events name everyone who changed its copy.
THEOREM AttributionHolds == Spec => []EditorsAreAttributed
<1>1. Init => EditorsAreAttributed
  BY DEF Init, EditorsAreAttributed
<1>2. IInv => Shape
  BY DEF IInv
<1> QED BY <1>1, <1>2, IInvHolds, AttributionInductive, PTL DEF Spec

-----------------------------------------------------------------------------
(***************************************************************************)
(* Review: what is sealed is what was submitted and approved.              *)
(***************************************************************************)
\* The last submission's snapshot is the copy.
LastSubmitted(taken, content) ==
  \E i \in ReasonsIn(taken, "submission") :
    /\ \A j \in ReasonsIn(taken, "submission") : j <= i
    /\ taken[i].content = content

\* The event at end is an approval, past mark, of the submission just before it, by
\* someone with no hand in the draft until then; content is that submission's.
ReviewedAt(log, given, taken, end, mark, content) ==
  /\ end \in 1..Len(log) /\ end - 1 > mark
  /\ log[end].kind = "review_decided" /\ log[end - 1].kind = "submitted_for_review"
  /\ Cardinality(KindsIn(log, "review_decided", end)) \in 1..Len(given)
  /\ given[Cardinality(KindsIn(log, "review_decided", end))]
       = [reviewer |-> log[end].actor, verdict |-> "approved"]
  /\ \A i \in 1..end : ~Touches(log[i], log[end].actor)
  /\ \E i \in ReasonsIn(taken, "submission") :
       /\ Cardinality({j \in ReasonsIn(taken, "submission") : j <= i})
            = Cardinality(KindsIn(log, "submitted_for_review", end))
       /\ taken[i].content = content

\* What was reviewed stays so as the streams grow.
LEMMA ReviewedStays ==
  ASSUME NEW log \in Seq(Event), NEW log2 \in Seq(Event), Extends(log, log2),
         NEW given \in Seq(Decision), NEW given2 \in Seq(Decision), Extends(given, given2),
         NEW taken \in Seq(Snapshot), NEW taken2 \in Seq(Snapshot), Extends(taken, taken2),
         NEW end, NEW mark \in Nat, NEW content,
         ReviewedAt(log, given, taken, end, mark, content)
  PROVE  ReviewedAt(log2, given2, taken2, end, mark, content)
<1>1. end \in 1..Len(log) /\ end \in 1..Len(log2) /\ end - 1 > mark
  BY DEF ReviewedAt, Extends
<1>2. \A i \in 1..end : log2[i] = log[i]
  BY <1>1 DEF Extends
<1>3. \A kind : KindsIn(log2, kind, end) = KindsIn(log, kind, end)
  BY <1>2 DEF KindsIn
<1>4. /\ Cardinality(KindsIn(log, "review_decided", end)) \in 1..Len(given2)
      /\ given2[Cardinality(KindsIn(log, "review_decided", end))]
           = [reviewer |-> log[end].actor, verdict |-> "approved"]
  BY DEF ReviewedAt, Extends
<1>5. end \in 1..end
  BY <1>1
<1>6. log2[end - 1] = log[end - 1]
  <2>1. end \in Nat /\ end - 1 > mark
    BY <1>1
  <2>2. end - 1 \in 1..end
    BY <2>1
  <2> QED BY <1>2, <2>2
<1>7. PICK i \in ReasonsIn(taken, "submission") :
        /\ Cardinality({j \in ReasonsIn(taken, "submission") : j <= i})
             = Cardinality(KindsIn(log, "submitted_for_review", end))
        /\ taken[i].content = content
  BY DEF ReviewedAt
<1>8. /\ i \in ReasonsIn(taken2, "submission") /\ taken2[i].content = content
      /\ {j \in ReasonsIn(taken2, "submission") : j <= i}
           = {j \in ReasonsIn(taken, "submission") : j <= i}
  BY <1>7 DEF ReasonsIn, Extends
<1> QED
  BY <1>1, <1>2, <1>3, <1>4, <1>5, <1>6, <1>7, <1>8 DEF ReviewedAt

CopyReviewed ==
  /\ Status = "submitted" => LastSubmitted(snapshots, copy)
  /\ Status = "approved" =>
       ReviewedAt(events, decisions, snapshots, Len(events), EventMark(Len(versions)), copy)
VersionsReviewed ==
  reviewRequired =>
    \A v \in DOMAIN versions :
      ReviewedAt(events, decisions, snapshots, SealPoint(v), EventMark(v - 1),
                 versions[v].content)

\* The submission just made is the last one, of the copy it froze.
LEMMA SubmissionIsLast ==
  ASSUME NEW taken \in Seq(Snapshot), NEW s \in Snapshot, s.reason = "submission"
  PROVE  LastSubmitted(Append(taken, s), s.content)
<1>1. /\ Len(taken) \in Nat /\ Len(Append(taken, s)) = Len(taken) + 1
      /\ Append(taken, s)[Len(taken) + 1] = s
  OBVIOUS
<1>2. /\ Len(taken) + 1 \in ReasonsIn(Append(taken, s), "submission")
      /\ \A j \in ReasonsIn(Append(taken, s), "submission") : j <= Len(taken) + 1
  BY <1>1 DEF ReasonsIn
<1> QED BY <1>1, <1>2 DEF LastSubmitted

\* An approval of the last submission, by someone who never touched the draft.
LEMMA ApprovalReviews ==
  ASSUME NEW log \in Seq(Event), NEW given \in Seq(Decision), NEW taken \in Seq(Snapshot),
         Paired(log, given, taken), NEW mark \in Nat, Len(log) > mark,
         log[Len(log)].kind = "submitted_for_review",
         NEW content, LastSubmitted(taken, content),
         NEW u \in Users, \A i \in 1..Len(log) : ~Touches(log[i], u),
         NEW e \in Event, e = EventRow("review_decided", u, NoUser),
         NEW d \in Decision, d = [reviewer |-> u, verdict |-> "approved"]
  PROVE  ReviewedAt(Append(log, e), Append(given, d), taken, Len(log) + 1, mark, content)
<1> DEFINE n == Len(log)
           log2 == Append(log, e)
           given2 == Append(given, d)
<1>1. /\ n \in Nat /\ Len(log2) = n + 1 /\ log2[n + 1] = e
      /\ \A i \in 1..n : log2[i] = log[i]
      /\ Len(given) \in Nat /\ Len(given2) = Len(given) + 1 /\ given2[Len(given) + 1] = d
  OBVIOUS
<1>2. e.kind = "review_decided" /\ e.actor = u /\ ~Touches(e, u)
  BY DEF EventRow, Touches, AuthorKinds
<1>3. /\ Cardinality(KindsIn(log2, "review_decided", n + 1)) = Len(given) + 1
      /\ Cardinality(KindsIn(log2, "submitted_for_review", n + 1))
           = Cardinality(ReasonsIn(taken, "submission"))
  <2>1. /\ Cardinality(KindsIn(log2, "review_decided", Len(log2)))
             = Cardinality(KindsIn(log, "review_decided", Len(log))) + 1
        /\ Cardinality(KindsIn(log2, "submitted_for_review", Len(log2)))
             = Cardinality(KindsIn(log, "submitted_for_review", Len(log)))
    BY <1>2, KindsGrow
  <2> QED BY <1>1, <2>1 DEF Paired
<1>4. PICK i \in ReasonsIn(taken, "submission") :
        /\ \A j \in ReasonsIn(taken, "submission") : j <= i
        /\ taken[i].content = content
  BY DEF LastSubmitted
<1>5. {j \in ReasonsIn(taken, "submission") : j <= i} = ReasonsIn(taken, "submission")
  BY <1>4
<1> HIDE DEF n, log2, given2
<1>6. n > mark /\ n >= 1 /\ log2[n] = log[n] /\ log[n].kind = "submitted_for_review"
  <2>1. n > mark /\ log[n].kind = "submitted_for_review"
    BY DEF n
  <2> QED BY <1>1, <2>1
<1>7. \A k \in 1..(n + 1) : ~Touches(log2[k], u)
  <2>1. \A k \in 1..n : ~Touches(log[k], u)
    BY DEF n
  <2> QED BY <1>1, <1>2, <2>1
<1>8. /\ n + 1 \in 1..Len(log2) /\ (n + 1) - 1 = n
      /\ Len(given) + 1 \in 1..Len(given2)
  <2>1. n \in Nat /\ Len(log2) = n + 1
    BY <1>1
  <2>2. Len(given) \in Nat /\ Len(given2) = Len(given) + 1
    BY <1>1
  <2>3. n + 1 \in 1..Len(log2) /\ (n + 1) - 1 = n
    BY <2>1
  <2> QED BY <2>2, <2>3
<1>9. ReviewedAt(log2, given2, taken, n + 1, mark, content)
  BY <1>1, <1>2, <1>3, <1>4, <1>5, <1>6, <1>7, <1>8 DEF ReviewedAt
<1> QED BY <1>9 DEF n, log2, given2

LEMMA StreamsGrow ==
  ASSUME IInv, Shape', [Next]_vars
  PROVE  /\ Extends(events, events') /\ Extends(decisions, decisions')
         /\ Extends(snapshots, snapshots')
<1>0. /\ events \in Seq(Event) /\ decisions \in Seq(Decision) /\ snapshots \in Seq(Snapshot)
      /\ copy \in Contents
  BY DEF IInv, Shape, TypeOK, StoreTypeOK
<1>1. /\ Extends(events, events) /\ Extends(decisions, decisions)
      /\ Extends(snapshots, snapshots)
  BY <1>0 DEF Extends
<1>2. /\ \A e \in Event : Extends(events, Append(events, e))
      /\ \A d \in Decision : Extends(decisions, Append(decisions, d))
      /\ \A s \in Snapshot : Extends(snapshots, Append(snapshots, s))
  BY <1>0 DEF Extends
<1>3. Extends(events, events')
  BY <1>1, <1>2, EventStep DEF Appends
<1>4. ASSUME NEW u \in Users, ClientStep(u) PROVE UNCHANGED <<decisions, snapshots>>
  BY <1>4, ClientStepShape DEF IInv, storeVars
<1>5. ASSUME NEW u \in Users,
             \/ PassGate(u) \/ Drop(u) \/ SaveTx(u) \/ TransferTx(u) \/ FinalizeTx(u)
             \/ OpenTx(u)
      PROVE  UNCHANGED <<decisions, snapshots>>
  BY <1>5 DEF PassGate, Drop, SaveTx, TransferTx, FinalizeTx, OpenTx, storeVars
<1>6. ASSUME NEW u \in Users, SubmitTx(u)
      PROVE  Extends(decisions, decisions') /\ Extends(snapshots, snapshots')
  <2>1. SnapshotRow("submission", u) \in Snapshot
    BY <1>0 DEF SnapshotRow, Snapshot, Reasons
  <2> QED BY <1>1, <1>2, <1>6, <2>1 DEF SubmitTx
<1>7. ASSUME NEW u \in Users, DecideTx(u)
      PROVE  Extends(decisions, decisions') /\ Extends(snapshots, snapshots')
  <2>1. pending[u].verdict \in Verdicts
    BY <1>7 DEF DecideTx, Ready, Requests, IInv, Shape, TypeOK
  <2>2. /\ SnapshotRow("change_request_return", u) \in Snapshot
        /\ [reviewer |-> u, verdict |-> pending[u].verdict] \in Decision
    BY <1>0, <2>1 DEF SnapshotRow, Snapshot, Reasons, Decision
  <2> QED BY <1>1, <1>2, <1>7, <2>2 DEF DecideTx
<1>8. CASE UNCHANGED vars
  BY <1>1, <1>8 DEF vars, storeVars
<1> QED
  BY <1>1, <1>3, <1>4, <1>5, <1>6, <1>7, <1>8 DEF Next, ServerStep

\* The property of the next state, its streams and marks named one by one.
LEMMA VersionsReviewedNext ==
  (reviewRequired' =>
     \A v \in DOMAIN versions' :
       ReviewedAt(events', decisions', snapshots', SealPoint(v)', EventMark(v - 1)',
                  versions'[v].content))
    => VersionsReviewed'
BY DEF VersionsReviewed, ReviewedAt, ReasonsIn, KindsIn

\* A sealed version's review is out of reach of whatever a later cycle writes.
LEMMA SealedStaysReviewed ==
  ASSUME IInv, Shape', [Next]_vars, VersionsReviewed,
         UNCHANGED <<versions, amendments, reviewRequired>>,
         Status # "finalized" \/ events' = events
  PROVE  VersionsReviewed'
<1> SUFFICES ASSUME reviewRequired', NEW v \in DOMAIN versions'
             PROVE  ReviewedAt(events', decisions', snapshots', SealPoint(v)',
                               EventMark(v - 1)', versions'[v].content)
  BY VersionsReviewedNext
<1>1. ReviewedAt(events, decisions, snapshots, SealPoint(v), EventMark(v - 1),
                 versions[v].content)
  BY DEF VersionsReviewed
<1>2. SealPoint(v)' = SealPoint(v)
  <2>1. CASE v \in DOMAIN amendments
    BY <2>1 DEF SealPoint, EventMark
  <2>2. CASE v \notin DOMAIN amendments
    <3>1. v = Len(versions) /\ versions # <<>> /\ LatestVersion = Len(versions)
      BY <2>2, LatestIsLast DEF IInv, Shape, TypeOK, StoreTypeOK, VersionsFormOneChain
    <3>2. Status = "finalized"
      BY <2>2, <3>1, StatusOfCycle DEF StatusIsOfCycle, Reopened, IInv
    <3> QED BY <2>2, <3>2 DEF SealPoint
  <2> QED BY <2>1, <2>2
<1>3. EventMark(v - 1)' = EventMark(v - 1) /\ EventMark(v - 1) \in Nat
  BY MarkTypes DEF EventMark, IInv, Shape
<1>4. ReviewedAt(events', decisions', snapshots', SealPoint(v), EventMark(v - 1),
                 versions[v].content)
  BY <1>1, <1>3, StreamsGrow, ReviewedStays DEF IInv, Shape, TypeOK, StoreTypeOK
<1> QED BY <1>2, <1>3, <1>4

LEMMA VersionsReviewedInductive ==
  IInv /\ Shape' /\ CopyReviewed /\ VersionsReviewed /\ [Next]_vars => VersionsReviewed'
<1> SUFFICES ASSUME IInv, Shape', CopyReviewed, VersionsReviewed, [Next]_vars
             PROVE  VersionsReviewed'
  OBVIOUS
<1>1. CASE /\ UNCHANGED <<versions, amendments, reviewRequired>>
           /\ Status # "finalized" \/ events' = events
  BY <1>1, SealedStaysReviewed
<1>2. ASSUME NEW u \in Users, ClientStep(u) \/ PassGate(u) \/ Drop(u)
      PROVE  VersionsReviewed'
  BY <1>1, <1>2, ClientStepShape DEF IInv, PassGate, Drop, storeVars
<1>3. ASSUME NEW u \in Users, SaveTx(u) \/ TransferTx(u) \/ SubmitTx(u) \/ DecideTx(u)
      PROVE  VersionsReviewed'
  <2>1. Status # "finalized"
    BY <1>3 DEF SaveTx, TransferTx, SubmitTx, DecideTx, SaveAdmitted, TransferAdmitted,
                SubmitAdmitted, DecideAdmitted, FrozenRefusal
  <2>2. UNCHANGED <<versions, amendments, reviewRequired>>
    BY <1>3 DEF SaveTx, TransferTx, SubmitTx, DecideTx
  <2> QED BY <1>1, <2>1, <2>2
<1>4. ASSUME NEW u \in Users, FinalizeTx(u) PROVE VersionsReviewed'
  <2> DEFINE n == Len(versions)
  <2>1. /\ n \in Nat /\ DOMAIN versions = 1..n /\ DOMAIN versions' = 1..(n + 1)
        /\ \A v \in 1..n : versions'[v] = versions[v]
        /\ versions'[n + 1].content = copy
        /\ DOMAIN amendments \subseteq 1..n
    BY <1>4 DEF FinalizeTx, IInv, Shape, TypeOK, StoreTypeOK
  <2>2. UNCHANGED <<events, decisions, snapshots, amendments, reviewRequired>>
    BY <1>4 DEF FinalizeTx
  <2>3. \A v : SealPoint(v)' = SealPoint(v) /\ EventMark(v)' = EventMark(v)
    BY <2>2 DEF SealPoint, EventMark
  <2>4. SealPoint(n + 1) = Len(events)
    <3>1. n + 1 \notin DOMAIN amendments
      <4> HIDE DEF n
      <4> QED BY <2>1
    <3> QED BY <3>1 DEF SealPoint
  <2>5. reviewRequired =>
          ReviewedAt(events, decisions, snapshots, Len(events), EventMark(n), copy)
    BY <1>4 DEF FinalizeTx, FinalizeAdmitted, CopyReviewed
  <2> HIDE DEF n
  <2> SUFFICES ASSUME reviewRequired, NEW v \in 1..(n + 1)
               PROVE  ReviewedAt(events, decisions, snapshots, SealPoint(v),
                                 EventMark(v - 1), versions'[v].content)
    BY <2>1, <2>2, <2>3, VersionsReviewedNext
  <2>6. CASE v \in 1..n
    BY <2>1, <2>6 DEF VersionsReviewed
  <2>7. CASE v = n + 1
    <3>1. v - 1 = n
      BY <2>1, <2>7
    <3> QED BY <2>1, <2>4, <2>5, <2>7, <3>1
  <2> QED BY <2>1, <2>6, <2>7
<1>5. ASSUME NEW u \in Users, OpenTx(u) PROVE VersionsReviewed'
  <2> DEFINE n == Len(versions)
  <2>1. n \in Nat /\ DOMAIN versions = 1..n /\ LatestVersion = n /\ n \notin DOMAIN amendments
    BY <1>5, LatestIsLast DEF OpenTx, OpenAdmitted, Reopened, IInv, Shape, TypeOK, StoreTypeOK
  <2>2. UNCHANGED <<events, decisions, snapshots, versions, reviewRequired>>
    BY <1>5 DEF OpenTx
  <2>3. /\ DOMAIN amendments' = DOMAIN amendments \union {n}
        /\ amendments'[n] = [event |-> Len(events), decision |-> Len(decisions)]
        /\ \A v \in DOMAIN amendments : amendments'[v] = amendments[v]
    BY <1>5, <2>1 DEF OpenTx, Amended
  <2> HIDE DEF n
  <2> SUFFICES ASSUME reviewRequired, NEW v \in 1..n
               PROVE  ReviewedAt(events, decisions, snapshots, SealPoint(v)',
                                 EventMark(v - 1)', versions[v].content)
    BY <2>1, <2>2, VersionsReviewedNext
  <2>4. SealPoint(v)' = SealPoint(v)
    <3>1. CASE v = n
      BY <2>1, <2>3, <3>1 DEF SealPoint, EventMark
    <3>2. CASE v # n
      BY <2>2, <2>3, <3>2 DEF SealPoint, EventMark
    <3> QED BY <3>1, <3>2
  <2>5. EventMark(v - 1)' = EventMark(v - 1)
    <3>1. v - 1 # n
      BY <2>1
    <3> QED BY <2>3, <3>1 DEF EventMark
  <2> QED BY <2>1, <2>4, <2>5 DEF VersionsReviewed
<1>6. CASE UNCHANGED vars
  BY <1>1, <1>6 DEF vars, storeVars
<1> QED BY <1>2, <1>3, <1>4, <1>5, <1>6 DEF Next, ServerStep

LEMMA CopyReviewedInductive ==
  IInv /\ Shape' /\ StreamsPaired /\ CopyReviewed /\ [Next]_vars => CopyReviewed'
<1> SUFFICES ASSUME IInv, Shape', StreamsPaired, CopyReviewed, [Next]_vars
             PROVE  CopyReviewed'
  OBVIOUS
<1>1. CASE UNCHANGED storeVars
  <2>1. Status' = Status /\ \A v : EventMark(v)' = EventMark(v)
    BY <1>1, StatusUnchanged DEF storeVars, EventMark
  <2> QED
    BY <1>1, <2>1 DEF storeVars, CopyReviewed, LastSubmitted, ReviewedAt, ReasonsIn, KindsIn
<1>2. ASSUME NEW u \in Users, ClientStep(u) \/ PassGate(u) \/ Drop(u) PROVE CopyReviewed'
  BY <1>1, <1>2, ClientStepShape DEF IInv, PassGate, Drop, storeVars
<1>3. ASSUME NEW u \in Users, SaveTx(u) \/ TransferTx(u) \/ OpenTx(u) \/ FinalizeTx(u)
      PROVE  CopyReviewed'
  BY <1>3, SaveRefines, TransferRefines, OpenRefines, FinalizeRefines
     DEF Promise!Edit, Promise!Reopen, Promise!Seal, CopyReviewed
<1>4. ASSUME NEW u \in Users, SubmitTx(u) PROVE CopyReviewed'
  <2> DEFINE s == SnapshotRow("submission", u)
  <2>1. s \in Snapshot /\ s.reason = "submission" /\ s.content = copy
    BY DEF SnapshotRow, Snapshot, Reasons, IInv, Shape, TypeOK, StoreTypeOK
  <2>2. snapshots' = Append(snapshots, s) /\ copy' = copy
    BY <1>4 DEF SubmitTx
  <2>3. Status' = "submitted"
    BY <1>4, SubmitRefines DEF Promise!Submit
  <2> HIDE DEF s
  <2>4. LastSubmitted(snapshots', copy')
    BY <2>1, <2>2, SubmissionIsLast DEF IInv, Shape, TypeOK, StoreTypeOK
  <2> QED BY <2>3, <2>4 DEF CopyReviewed, LastSubmitted, ReasonsIn
<1>5. ASSUME NEW u \in Users, DecideTx(u) PROVE CopyReviewed'
  <2> DEFINE e == EventRow("review_decided", u, NoUser)
             d == [reviewer |-> u, verdict |-> pending[u].verdict]
             n == Len(events)
             mark == EventMark(Len(versions))
  <2>1. Status = "submitted" /\ Status' # "submitted"
    BY <1>5, DecideRefines DEF DecideTx, DecideAdmitted, Promise!Decide, Promise!Decided
  <2> SUFFICES ASSUME Status' = "approved"
               PROVE  ReviewedAt(events', decisions', snapshots', Len(events'), mark', copy')
    BY <2>1 DEF CopyReviewed, ReviewedAt, ReasonsIn, KindsIn
  <2>2. pending[u].verdict \in Verdicts
    BY <1>5 DEF DecideTx, Ready, Requests, IInv, Shape, TypeOK
  <2>3. e \in Event /\ d \in Decision /\ d.verdict = pending[u].verdict
    BY <2>2 DEF EventRow, Event, EventKinds, Decision
  <2>4. d = [reviewer |-> u, verdict |-> "approved"]
    BY <1>5, <2>1, <2>3, StatusAfterDecision DEF DecideTx, IInv
  <2>5. /\ events' = Append(events, e) /\ decisions' = Append(decisions, d)
        /\ snapshots' = snapshots /\ copy' = copy /\ mark' = mark
    <3>1. pending[u].verdict = "approved"
      BY <2>3, <2>4
    <3> QED BY <1>5, <3>1 DEF DecideTx, EventMark
  <2>6. /\ n \in Nat /\ mark \in Nat /\ n > mark
        /\ events[n].kind = "submitted_for_review"
    <3>1. LatestKind(mark) = "submitted_for_review" /\ mark \in Nat
      BY <2>1, SubmittedIsLatest, MarkTypes DEF IInv, Shape
    <3> QED BY <3>1 DEF LatestKind, IInv, Shape, TypeOK, StoreTypeOK
  <2>7. \A i \in 1..n : ~Touches(events[i], u)
    BY <1>5 DEF DecideTx, DecideAdmitted, Contributor, IInv, Shape, TypeOK, StoreTypeOK
  <2>8. LastSubmitted(snapshots, copy) /\ Paired(events, decisions, snapshots)
    BY <2>1 DEF CopyReviewed, StreamsPaired
  <2>9. Len(events') = n + 1
    BY <2>3, <2>5 DEF IInv, Shape, TypeOK, StoreTypeOK
  <2>10. ReviewedAt(Append(events, e), Append(decisions, d), snapshots, n + 1, mark, copy)
    <3>1. /\ events \in Seq(Event) /\ decisions \in Seq(Decision)
          /\ snapshots \in Seq(Snapshot)
      BY DEF IInv, Shape, TypeOK, StoreTypeOK
    <3> HIDE DEF mark, d
    <3> QED BY <2>3, <2>4, <2>6, <2>7, <2>8, <3>1, ApprovalReviews
  <2> QED BY <2>5, <2>9, <2>10
<1>6. CASE UNCHANGED vars
  BY <1>1, <1>6 DEF vars
<1> QED BY <1>2, <1>3, <1>4, <1>5, <1>6 DEF Next, ServerStep

\* Under a policy that requires review, what is sealed is what was submitted and
\* approved, however saves, submissions, decisions and reopenings interleave.
THEOREM SealedStaysAsReviewed == Spec => []SealedIsReviewed
<1>1. Init => CopyReviewed /\ VersionsReviewed
  BY DraftInitially DEF CopyReviewed, VersionsReviewed, Init
<1>2. IInv => Shape
  BY DEF IInv
<1>3. Spec => [](CopyReviewed /\ VersionsReviewed)
  BY <1>1, <1>2, IInvHolds, StreamsPairedHolds, CopyReviewedInductive,
     VersionsReviewedInductive, PTL DEF Spec
<1>4. ASSUME Shape, VersionsReviewed PROVE SealedIsReviewed
  <2> SUFFICES ASSUME reviewRequired, NEW v \in DOMAIN versions, NEW end, end = SealPoint(v)
               PROVE  LET verdict == decisions[Cardinality(KindsUpTo("review_decided", end))]
                          submissions == SnapshotsFor("submission")
                      IN /\ end - 1 > EventMark(v - 1)
                         /\ events[end].kind = "review_decided"
                         /\ events[end - 1].kind = "submitted_for_review"
                         /\ verdict = [reviewer |-> events[end].actor, verdict |-> "approved"]
                         /\ \A i \in 1..end : ~Touches(events[i], verdict.reviewer)
                         /\ \E i \in submissions :
                              /\ Cardinality({j \in submissions : j <= i})
                                   = Cardinality(KindsUpTo("submitted_for_review", end))
                              /\ snapshots[i].content = versions[v].content
    BY DEF SealedIsReviewed
  <2>1. ReviewedAt(events, decisions, snapshots, end, EventMark(v - 1), versions[v].content)
    BY <1>4 DEF VersionsReviewed
  <2>2. SnapshotsFor("submission") = ReasonsIn(snapshots, "submission")
    BY <1>4 DEF SnapshotsFor, ReasonsIn, Shape, TypeOK, StoreTypeOK
  <2>3. \A kind : KindsUpTo(kind, end) = KindsIn(events, kind, end)
    BY DEF KindsUpTo, KindsIn
  <2>4. decisions[Cardinality(KindsUpTo("review_decided", end))]
          = [reviewer |-> events[end].actor, verdict |-> "approved"]
    BY <2>1, <2>3 DEF ReviewedAt
  <2>5. decisions[Cardinality(KindsUpTo("review_decided", end))].reviewer = events[end].actor
    BY <2>4
  <2> QED BY <2>1, <2>2, <2>3, <2>4, <2>5 DEF ReviewedAt
<1> QED BY <1>2, <1>3, <1>4, IInvHolds, PTL
=============================================================================
