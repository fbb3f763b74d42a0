CONSTANTS
  Tasks = {k1}
  Pollers = {p1}
  User = user
  Kinds <- GeminiOnly
  Quotas = {2}
  Actuals = {1}
  MaxFaults = 0
  MaxGets = 1
  MaxCredit = 0
SPECIFICATION Spec
INVARIANT FailedTaskRefunded
