---------------------------- MODULE MCRecordExports ----------------------------
\* Two records of one trainee, which one attester may speak for, and one of
\* another.
EXTENDS RecordExports

MCRecords == 1..3
MCEnrollments == {1, 2}
MCEnrollmentOf == <<1, 1, 2>>
MCTraineeOf == <<"trainee1", "trainee2">>
================================================================================
