\* The hot launch cancels the context its session runs under.
SPECIFICATION FairSpec
CONSTANTS
  old = old
  new = new
  Servers <- MCServers
  Boot <- MCBoot
  Sources <- MCSources
INVARIANT HotLaunchStreams
CHECK_DEADLOCK FALSE
