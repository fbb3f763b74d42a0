SPECIFICATION FairSpec
CONSTANTS
  Requests = {q1, q2}
  Realtime = {q2}
  Plans <- BothWays
  Kinds = {"limited", "playground"}
  Estimates = {0, 2}
  Targets = {1, 3}
  Actuals = {1, 3}
  MaxUsage = 1
  Wallet0 = 4
  Token0 = 5
  Used0 = 1
  SubTotal = 4
  TrustQuota = 3
  MaxErrors = 1
  q1 = q1
  q2 = q2
INVARIANT TypeOK
INVARIANT FinalExact
INVARIANT TokenExact
INVARIANT NeverCredited
INVARIANT NeverOvercharged
INVARIANT SubWithinTotal
PROPERTY HoldReturned
\* A request that is over does nothing more.
CHECK_DEADLOCK FALSE
