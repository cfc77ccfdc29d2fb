\* Three callers, three connections, breaking links, refused channels, Close.
SPECIFICATION FairSpec
CONSTANTS
  pull = pull
  stream = stream
  request = request
  Callers <- MCCallers
  MaxDials = 3
INVARIANTS
  TypeOK
  NoLeak
  StoredIsNotClosed
PROPERTIES
  RetryMovesOn
  BrokenIsDropped
CHECK_DEADLOCK FALSE
