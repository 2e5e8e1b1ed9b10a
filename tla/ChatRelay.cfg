SPECIFICATION Spec
CONSTANTS
  Protocols = {"chat"}
  Names = {"read", "read_file", "grep"}
  ReadLike = {"read", "read_file"}
  Indexes = {"call0", "call1"}
  ZeroIndex = "call0"
  MaxTools = 2
  MaxEvents = 2
INVARIANT
  RelayChangesOnlyNames
\* The answer has ended.
CHECK_DEADLOCK FALSE
