CONSTANTS
  Records <- MCRecords
  Enrollments <- MCEnrollments
  EnrollmentOf <- MCEnrollmentOf
  TraineeOf <- MCTraineeOf
  Attesters = {"attester"}
  TraineeKinds = {"acknowledged"}
  AttestedKinds = {"unavailable"}
  MaxNumber = 2
  MaxVersions = 4
  MaxAcks = 1

SPECIFICATION Spec

INVARIANTS
  ExportsAreComplete
  DamageIsFound
