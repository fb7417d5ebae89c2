SPECIFICATION McpSpec
CONSTANTS
  Client = {"c1", "c2"}
  Collection = {"a", "b", "c"}
  Name <- MCName
  Trim <- MCTrim
  Doc <- MCDoc
  MaxDepth = 1
  MaxMessages = 3
  McpSetups <- MCSetups
INVARIANTS AnswersMatch ScopesHold
PROPERTIES RequestsAreAnswered
CHECK_DEADLOCK FALSE
