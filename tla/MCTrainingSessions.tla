-------------------------- MODULE MCTrainingSessions --------------------------
(* One trainee under two versions of a program, one of them with a phase.    *)
EXTENDS TrainingSessions

MCTrainees == {"trainee"}
MCVersions == {"v1", "v2"}
MCProgram == [v \in MCVersions |-> "dispatch"]
MCPhaseVersion == [p |-> "v1"]
MCPhases == {"p"}

\* The two halves of one instance: two sessions over two enrollments, every pair of
\* intervals, one request at a time; and one session of two instants under
\* assignments, version changes and two requests at once.
IntervalsOfTwo ==
  /\ lifecycle = <<>> /\ assigned = {} /\ records = <<>>
  /\ \A s \in DOMAIN sessions : members[s] = {"t1"} /\ sessions[s].phase = NoPhase
  /\ InFlight \subseteq Coordinators
RacesOverOne ==
  /\ Len(enrollments) <= 1 /\ Len(sessions) <= 1
  /\ \A s \in DOMAIN sessions :
       sessions[s].start <= 1 /\ sessions[s].end \in {0, 1, Forever}
Focus == IntervalsOfTwo \/ RacesOverOne
FocusStep == Focus'
=============================================================================
