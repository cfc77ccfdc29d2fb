\* Creation, launch, deletion and shutdown interleave.
SPECIFICATION FairSpec
CONSTANTS
  old = old
  new = new
  Servers <- MCServers
  Boot <- MCBoot
  Sources <- MCSources
INVARIANTS
  TypeOK
  PanicNeedsAStoppedManager
  EveryServerIsPulled
  OrphansNeedARace
  BootStreamsStay
PROPERTY RemovedIsNotTailed
CHECK_DEADLOCK FALSE
