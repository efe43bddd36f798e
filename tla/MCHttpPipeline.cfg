SPECIFICATION Spec
CONSTANTS
  r1 = r1
  r2 = r2
  Requests <- TwoRequests
INVARIANTS
  AuditTellsTheTruth
  AnswersAreRecorded
  SuccessMeansDone
  EveryAnswerSecured
CHECK_DEADLOCK FALSE
