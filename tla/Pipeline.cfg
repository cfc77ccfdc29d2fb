\* Overlapping pulls of one server, a connection test, faults and a stop.
SPECIFICATION Spec
CONSTANTS
    Servers <- MCServers
    Runs <- MCRuns
    JobSteps <- MCJobSteps
    FirstStep = "lookup"
    NoServer = NoServer
    MaxParallel = 1
    MaxFaults = 2
    MaxTests = 1
CHECK_DEADLOCK FALSE
INVARIANTS
    TypeOK
    StoppedIsDrained
PROPERTIES
    FiredJobsEnd
    UpIsReported
    DownIsReported
