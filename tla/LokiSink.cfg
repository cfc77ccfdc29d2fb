\* Overflow flushes of the session race the flush ticker.
SPECIFICATION FairSpec
CONSTANTS
  access = access
  error = error
  session = session
  ticker = ticker
  Streams <- MCStreams
  Sessions <- MCSessions
  Loops <- MCLoops
  SessionOf <- MCSessionOf
  MaxBatchLines = 2
  MaxLines <- MCMaxLines
INVARIANTS
  TypeOK
  DroppedLinesAreStored
  BytesMatchBuffer
  ResumeMissesNothing
PROPERTY EventuallyStored
CHECK_DEADLOCK FALSE
