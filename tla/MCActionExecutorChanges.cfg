SPECIFICATION Spec
CONSTANTS
  run1 = run1
  Shared = Shared
  Types <- TwoTypes
  Drafts <- FewDrafts
  Keys <- TwoKeys
  Messages <- TwoMessages
  MaxActions = 2
  Runs <- OneRun
INVARIANTS
  ChangesSurvive
