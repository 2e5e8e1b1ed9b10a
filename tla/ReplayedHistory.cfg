SPECIFICATION Spec
CONSTANTS
  MaxAnswers = 3
  MaxCalls = 2
  MaxMessages = 4
INVARIANTS
  CallsCarryReasoning
  ReasoningIsOwn
  OutputsFollowCalls
  CallsAreAnswered
\* The conversation has ended.
CHECK_DEADLOCK FALSE
