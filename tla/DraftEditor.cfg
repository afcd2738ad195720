CONSTANTS
  Fields <- MCFields
  MaxEdits = 2
  MaxOthers = 2
  MaxFaults = 1
SPECIFICATION FairSpec
INVARIANTS
  TypedTextSurvives
PROPERTIES
  OverwritesOnlyWhatWasSeen
  SubmitsWhatWasShown
  EditsSettle
CHECK_DEADLOCK FALSE
