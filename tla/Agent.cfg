SPECIFICATION Spec
CONSTANTS
  Caller = {c1, c2, c3}
  Text = {t1, t2, t3}
  Asker = {a1, a2, a3}
  Question = {"q1", "q2"}
  AgentSetups <- MCSetups
INVARIANTS MemoriesKept MemoryIsCompact AnswersFit
PROPERTIES RequestsEnd
CHECK_DEADLOCK FALSE
