SPECIFICATION ExchangeSpec
CONSTANTS
  Protocols = {"chat", "responses", "anthropic"}
  Names = {"read", "read_file", "grep"}
  ReadLike = {"read", "read_file"}
  Indexes = {"call0", "call1"}
  ZeroIndex = "call0"
  MaxTools = 2
  MaxEvents = 3
  Rejections = {429}
INVARIANTS
  ExchangeTypeOK
  NamesRestored
  CompletionIsStream
  FinishedTraceIsWhole
  AnswerTellsFailure
PROPERTY GoneClientEndsRequest
\* The request has ended.
CHECK_DEADLOCK FALSE
