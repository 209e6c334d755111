SPECIFICATION FairSpec
CONSTANT Scenes <- MCScenes
INVARIANTS TypeOK ValidIsBacked PositiveEvidence LosslessIsExact RecordsExact VerdictPerServer QueryCount
PROPERTY Terminates
CHECK_DEADLOCK FALSE
