\* Flush failures, a reconnect and a restart, flushed by the ticker alone.
SPECIFICATION FairSpec
CONSTANTS
  file = file
  session = session
  ticker = ticker
  MaxBatchLines = 2
  MaxWritten = 3
  MaxReceived = 4
  MaxReconnects = 1
  MaxRestarts = 1
INVARIANTS
  NothingPassedOver
PROPERTIES
  DeliversAtLeastOnce
  GapNeedsRewindOrNoOffset
  EventuallyInLoki
CHECK_DEADLOCK FALSE
