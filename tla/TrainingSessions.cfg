CONSTANTS
  Trainees <- MCTrainees
  Trainers = {"t1"}
  Versions <- MCVersions
  NoVersion = "none"
  Published <- MCVersions
  Program <- MCProgram
  MaxClock = 0
  MaxEnrollments = 2
  MaxLifecycle = 1
  Coordinators = {"lead"}
  Authors = {"t1", "t2"}
  Phases <- MCPhases
  NoPhase = "none"
  PhaseVersion <- MCPhaseVersion
  Horizon = 2
  MaxSessions = 2
  MaxInFlight = 2
SPECIFICATION Spec
ACTION_CONSTRAINT FocusStep
INVARIANTS
  TypeOK
  NoInstantTwice
  AdmittedIsAccepted
  DocumentedWasWorked
  SessionsKeepATrainer
  PhasesAreHistoric
PROPERTIES
  ClosedIsSettled
