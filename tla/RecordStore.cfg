CONSTANTS
  u1 = u1
  u2 = u2
  Users <- MCUsers
  NoUser = NoUser
  Contents <- MCContents
  MaxEvents = 4
  MaxSnapshots = 1
  MaxVersions = 2
SYMMETRY Symmetry
SPECIFICATION StoreSpec
INVARIANTS
  VersionsFormOneChain
  EveryVersionHasItsApproval
  DecisionsAnswerSubmissions
  DecisionsPairWithEvents
