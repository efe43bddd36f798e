SPECIFICATION FairSpec
CONSTANTS
  run1 = run1
  Shared = Shared
  Types <- TwoTypes
  Drafts <- ManyDrafts
  Keys <- TwoKeys
  Messages <- TwoMessages
  MaxActions = 2
  Runs <- OneRun
INVARIANTS
  TypeOK
  ResultIsMeaning
  AllowedByAll
  FirstRefusalDecides
PROPERTIES
  EveryChainEnds
CHECK_DEADLOCK FALSE
