SPECIFICATION Spec
CONSTANTS
  i1 = i1
  i2 = i2
  e1 = e1
  e2 = e2
  p1 = p1
  p2 = p2
  x1 = x1
  x2 = x2
  r1 = r1
  r2 = r2
  r3 = r3
  Nil = Nil
  Ids <- TwoIds
  Emails <- OneEmail
  Passwords <- TwoPasswords
  Providers <- OneProvider
  ProviderIDs <- OneProviderID
  Patches <- MainPatches
  Requests <- ThreeRequests
SYMMETRY Symmetry
INVARIANTS
  RegisteredStands
  OnlyUnseenIsLost
  RefusedLoginHasNoSession
  PanicsOnlyOnOAuthAccount
CHECK_DEADLOCK FALSE
