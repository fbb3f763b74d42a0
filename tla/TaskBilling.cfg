CONSTANTS
  Tasks = {k1}
  Pollers = {p1, p2}
  User = user
  Kinds <- AllKinds
  Quotas = {0, 2}
  Actuals = {1}
  MaxFaults = 1
  MaxGets = 1
  MaxCredit = 0
SPECIFICATION FairSpec
INVARIANT TypeOK
INVARIANT ChargeMatchesRow
INVARIANT RefundedAtMostOnce
PROPERTY EndedStays
PROPERTY TaskEnds
