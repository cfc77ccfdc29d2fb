CONSTANTS
    p1 = p1  p2 = p2
    CpuFields = {"cpu_user"}
    MemFields = {"mem_total_kb"}
    LoadFields = {"load_1m"}
    Queues = {"short"}
    Commas = {"a,b"}
    Blanks = {"a b", "two bench"}
    Pulls = {p1, p2}
    Hosts <- MCHosts
    ServerName = "srv"
    MaxRuns = 2
    MaxChanges = 1
    MaxDeploys = 1
    Stride = 5

SPECIFICATION Spec
SYMMETRY MCSymmetry
CHECK_DEADLOCK FALSE

INVARIANTS PushedIsWhatWasRead PagesShowTheNewest
