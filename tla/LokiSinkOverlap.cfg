\* The overflow flush and the ticker's flush hold the same stream at once.
SPECIFICATION FairSpec
CONSTANTS
  access = access
  error = error
  session = session
  ticker = ticker
  Streams <- MCStreams
  Sessions <- MCSessions
  Loops <- MCLoops
  SessionOf <- MCSessionOf
  MaxBatchLines = 2
  MaxLines <- MCMaxLines
INVARIANT EveryDroppedLineIsStored
CHECK_DEADLOCK FALSE
