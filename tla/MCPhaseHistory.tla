---------------------------- MODULE MCPhaseHistory ----------------------------
(* One trainee under a program of two published versions, each with phases of *)
(* its own, beside a version not yet published; an assigned author signs      *)
(* tasks off and a reviewing coordinator overrides.                           *)
EXTENDS PhaseHistory

MCTrainees == {"trainee"}
MCVersions == {"v1", "v2", "draft"}
MCPublished == {"v1", "v2"}
MCProgram == [v \in MCVersions |-> "dispatch"]
MCAuthors == {"author"}
MCReviewers == {"lead"}
MCSigners == {"author", "lead"}
MCPhases == {"p", "q", "r"}
MCPhaseVersion == [p |-> "v1", q |-> "v1", r |-> "v2"]
MCTransitions ==
  {[from |-> "p", to |-> "q", kind |-> "advance"],
   [from |-> "q", to |-> "p", kind |-> "remediation"],
   [from |-> "q", to |-> "q", kind |-> "restart"],
   [from |-> "r", to |-> "r", kind |-> "restart"]}
MCTaskVersion == [t1 |-> "v1", t2 |-> "v2"]
MCTasks == {"t1", "t2"}

\* The two halves of one instance: phase events of one enrollment over three
\* instants, and signoffs over two enrollments at one.
PhaseEventsOfOne ==
  /\ Len(enrollments) <= 1
  /\ assigned = {}
  /\ signoffs = <<>>
  /\ \A u \in Signers : signing[u] = NoRequest
SignoffsOverTwo == clock <= 1 /\ phaseEvents = <<>>
Focus == PhaseEventsOfOne \/ SignoffsOverTwo
FocusStep == Focus'
=============================================================================
