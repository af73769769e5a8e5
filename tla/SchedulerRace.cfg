SPECIFICATION Spec
CONSTANTS
  Requests = {q1, q2}
  Workers = {w1}
  None = None
  Priorities = {1, 2}
INVARIANTS SubmittedIsKept
CHECK_DEADLOCK FALSE
