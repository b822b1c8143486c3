CONSTANTS
  None = None
  Accounts = {a1, a2}
  Policies = {p1}
  Sacs = {c1}
SPECIFICATION AskedSpec
INVARIANTS EvaluationTypeOK LoopMatchesEvaluate OracleParity AllowIsEarned DenialIsCheap
CHECK_DEADLOCK FALSE
