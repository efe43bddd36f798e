SPECIFICATION Spec
CONSTANTS
  u1 = u1
  u2 = u2
  j1 = j1
  j2 = j2
  j3 = j3
  j4 = j4
  r1 = r1
  r2 = r2
  NoToken = NoToken
  Users <- OneUser
  Jtis <- FourJtis
  Requests <- TwoRequests
SYMMETRY Symmetry
INVARIANTS
  TableIsLedger
  LogoutIsFinal
  ForksOnlyByOverlap
  NobodyLosesASession
  NoRowWithoutHolder
CHECK_DEADLOCK FALSE
