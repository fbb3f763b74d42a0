SPECIFICATION Spec
CONSTANTS
  Runners = {r1, r2, r3}
  Mortal = {r1}
  Types = {poll}
  Scheduled = {poll}
  MaxTasks = 1
  MaxErrors = 0
  TimelyHolders = TRUE
  NoRunner = NoRunner
  r1 = r1
  r2 = r2
  r3 = r3
  poll = poll
INVARIANT HeartbeatKeepsTask
\* The environment may stop asking and every task may be over.
CHECK_DEADLOCK FALSE
