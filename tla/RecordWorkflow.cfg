CONSTANTS
  author = author
  lead = lead
  reviewer = reviewer
  Users <- MCUsers
  NoUser = NoUser
  Authors <- MCAuthors
  Coordinators <- MCCoordinators
  Reviewers <- MCReviewers
  Readers <- MCReaders
  Creator = author
  Contents <- MCContents
  Blank = "blank"
  Complete <- MCComplete
  MaxEvents = 7
  MaxSnapshots = 0
  MaxVersions = 2
  MaxRevision = 3
  MaxInFlight = 2
SPECIFICATION Spec
ACTION_CONSTRAINT FocusStep
INVARIANTS
  TypeOK
  AdmittedIsAccepted
  RevisionNamesContent
  AuthorityIsCurrent
  ApprovedNeverWedges
  TokensDieWithTheirCycle
  EditorsAreAttributed
  SealedIsReviewed
PROPERTIES
  ImplementsSealedRecord
