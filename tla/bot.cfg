SPECIFICATION OrderSpec
CHECK_DEADLOCK FALSE
CONSTANTS
  MaxRuns = 3
  MaxSockets = 2
  MaxTokens = 1
  Request = {r1, r2}
  Boot = boot
  MaxCalls = 2
  MaxOverlaps = 5
  MaxFaults = 1
  MaxNow = 2
  BotMax = 1
  MaxAmount = 1
  MaxBalance = 1
  MaxSpent = 2
  MaxEarned = 1
  Scenarios = {{"overlap"}, {"credentials"}, {"pause"}, {"crash"}, {"socket", "reader"}, {"restart", "credentials"}, {"trade", "credentials"}}
INVARIANTS
  BotTypeOK
  AllOrNothing
  DegradedRetries
  UptimeExact
  Resubscribed
  OrdersAreFunded
PROPERTIES
  SupervisorRevives
  DegradedEnds
