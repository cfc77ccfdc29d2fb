----------------------------- MODULE MCPipeline -----------------------------
(* Instances of Pipeline: one server whose host changes, and two goroutines *)
(* of its pulls that compete for the single slot of the semaphore.          *)
EXTENDS Pipeline

MCServers  == {"web"}
MCRuns     == {"r1", "r2"}
MCJobSteps == {"lookup", "dial", "ssh", "failed", "push", "report"}
=============================================================================
