SPECIFICATION FairSpec
CONSTANTS
  Runners = {r1, r2}
  Mortal = {r1}
  Types = {poll}
  Scheduled = {poll}
  MaxTasks = 2
  MaxErrors = 1
  TimelyHolders = TRUE
  NoRunner = NoRunner
  r1 = r1
  r2 = r2
  poll = poll
INVARIANT TypeOK
INVARIANT OneExecutor
INVARIANT RunningHasLock
PROPERTY LockNotTakenFromHolder
PROPERTY RunningEnds
PROPERTY PendingClaimed
\* The environment may stop asking and every task may be over.
CHECK_DEADLOCK FALSE
