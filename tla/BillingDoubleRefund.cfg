SPECIFICATION Spec
CONSTANTS
  Requests = {q1}
  Realtime = {}
  Plans <- SubscriptionOnly
  Kinds = {"limited"}
  Estimates = {0, 2}
  Targets = {1, 3}
  Actuals = {1, 3}
  MaxUsage = 1
  Wallet0 = 4
  Token0 = 5
  Used0 = 1
  SubTotal = 4
  TrustQuota = 3
  MaxErrors = 1
  q1 = q1
INVARIANT RefundIdempotent
\* A request that is over does nothing more.
CHECK_DEADLOCK FALSE
