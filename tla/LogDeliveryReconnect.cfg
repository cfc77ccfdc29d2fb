\* A reconnect runs the command built at launch: the tail is rewound.
SPECIFICATION FairSpec
CONSTANTS
  file = file
  session = session
  ticker = ticker
  MaxBatchLines = 9
  MaxWritten = 3
  MaxReceived = 4
  MaxReconnects = 1
  MaxRestarts = 1
INVARIANT CursorCoversStoredAfterReconnect
CHECK_DEADLOCK FALSE
