SPECIFICATION Spec
INVARIANTS
  RunsOncePermitted
  ResultMeansRecorded
  FailureReportsTruthful
PROPERTY
  CallEnds
CHECK_DEADLOCK FALSE
