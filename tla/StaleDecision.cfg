CONSTANTS
  author = author
  lead = lead
  reviewer = reviewer
  Users <- MCUsers
  NoUser = NoUser
  Authors <- MCAuthors
  Coordinators <- MCCoordinators
  Reviewers <- MCReviewers
  Readers <- MCReaders
  Creator = author
  Contents <- MCContents
  Blank = "blank"
  Complete <- MCContents
  MaxEvents = 6
  MaxSnapshots = 0
  MaxVersions = 1
  MaxRevision = 2
  MaxInFlight = 2
SPECIFICATION Spec
PROPERTIES
  DecisionsLandOnWhatWasRead
