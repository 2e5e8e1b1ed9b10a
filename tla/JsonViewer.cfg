SPECIFICATION Spec
CONSTANTS
  Trees <- TwoTrees
  Payloads <- SomePayloads
  Sizes <- ThreeSizes
  TabForms <- TwoForms
  WrapWidths = {45, 49}
  Columns = {0, 1, 11, 12, 27, 28, 58}
  Limit = 3
  Above = 5
  FreeModels = 1
  OtherModels = 0
  LongestID = 20
INVARIANTS
  DrawnIsCurrent
  CursorIsDrawn
  ClickHitsWhatIsDrawn
