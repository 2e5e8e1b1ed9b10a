SPECIFICATION Spec
CONSTANTS
  ToolIndexes = {"tool0", "tool1"}
  MaxFragments = 2
INVARIANTS
  TypeOK
  NothingLost
  OneKindOpen
  TerminalAfterStops
  StopReasonTellsToolUse
PROPERTY ItemStreamSpec
\* The stream has ended.
CHECK_DEADLOCK FALSE
