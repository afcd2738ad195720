CONSTANTS
  Trainees <- MCTrainees
  Trainers <- MCAuthors
  Versions <- MCVersions
  NoVersion = "none"
  Published <- MCPublished
  Program <- MCProgram
  MaxClock = 3
  MaxEnrollments = 2
  MaxLifecycle = 2
  Signers <- MCSigners
  Coordinators <- MCReviewers
  Authors <- MCAuthors
  Reviewers <- MCReviewers
  Phases <- MCPhases
  NoPhase = "none"
  PhaseVersion <- MCPhaseVersion
  Transitions <- MCTransitions
  Tasks <- MCTasks
  TaskVersion <- MCTaskVersion
  MaxPhaseEvents = 3
  MaxSignoffs = 2
SPECIFICATION Spec
ACTION_CONSTRAINT FocusStep
\* Nothing need follow a withdrawal: the server rests until someone reinstates the
\* enrollment, which MaxLifecycle may forbid here.
CHECK_DEADLOCK FALSE
INVARIANTS
  TypeOK
  PacketVerifies
  PhaseHistoryIsAWalk
  PinsAreDistinct
  SupersedingSignoffsAreReviewed
