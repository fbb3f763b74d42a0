SPECIFICATION Spec
CONSTANTS
  Runners = {r1, r2}
  Mortal = {r1}
  Types = {poll}
  Scheduled = {poll}
  MaxTasks = 2
  MaxErrors = 0
  TimelyHolders = FALSE
  NoRunner = NoRunner
  r1 = r1
  r2 = r2
  poll = poll
INVARIANT OneActivePerType
INVARIANT TakeoverFindsNothingRunning
PROPERTY TerminalStays
PROPERTY ClaimedOnce
\* The environment may stop asking and every task may be over.
CHECK_DEADLOCK FALSE
