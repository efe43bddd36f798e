SPECIFICATION Spec
CONSTANTS
  i1 = i1
  i2 = i2
  e1 = e1
  e2 = e2
  p1 = p1
  x1 = x1
  j1 = j1
  j2 = j2
  j3 = j3
  c1 = c1
  c2 = c2
  t1 = t1
  Nil = Nil
  NoToken = NoToken
  Ids <- TwoIds
  Emails <- TwoEmails
  Passwords <- OnePassword
  Providers <- TwoProviders
  ProviderIDs <- OneProviderID
  Patches <- OnePatch
  Jtis <- ThreeJtis
  Calls <- TwoCalls
  Others <- OneOther
SYMMETRY Symmetry
INVARIANTS
  TypeOK
  HoldersPresentedCredentials
  FailedCallsGiveNoToken
CHECK_DEADLOCK FALSE
