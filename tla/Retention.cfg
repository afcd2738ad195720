CONSTANTS
  admin = admin
  operator = operator
  Users <- MCUsers
  Administrators = {admin}
  Classes = {"daily_report"}
  Enrollments <- MCEnrollments
  Records = {"record"}
  EnrollmentOf <- MCEnrollmentOf
  MaxTime = 1
  MaxActs = 4
  MaxInFlight = 2
SPECIFICATION Spec
ACTION_CONSTRAINT Focus
INVARIANTS
  ActsWereAuthorized
  HistoriesDoNotFork
PROPERTIES
  PreservedUntilLifted
