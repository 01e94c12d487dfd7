SPECIFICATION OutboxFairSpec
CONSTANTS
  Events = {e1, e2, e3}
  BatchSize = 2
  MaxRetries = 2
  MaxFaults = 1
INVARIANTS
  RelayInvariant
  OutcomesHold
PROPERTIES
  SettledForEver
  ImplementsAtLeastOnce
  EveryRowSettled
CHECK_DEADLOCK FALSE
