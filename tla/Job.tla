-------------------------------- MODULE Job --------------------------------
(***************************************************************************)
(* The domain rules of internal/job: the lifecycle states of a job, the    *)
(* transitions between them, and the failure codes that go with a state.   *)
(* The persistence code (JobStore) never calls these validators when it    *)
(* writes a row, so that its writes respect them is something to check.    *)
(***************************************************************************)
EXTENDS Integers

CONSTANTS
    MaxDispatchAttempts,      \* how often a job may be handed to its agent
    DispatchLease,            \* time an agent has to start a dispatched job
    ExecutionResultDeadline,  \* time an agent has to report an outcome
    MaxActiveJobsPerAgent     \* bound on the queued and in-flight jobs of an agent

ASSUME JobAssumption ==
    /\ MaxDispatchAttempts \in Nat \ {0}
    /\ DispatchLease \in Nat \ {0}
    /\ ExecutionResultDeadline \in Nat \ {0}
    /\ MaxActiveJobsPerAgent \in Nat \ {0}

State == {"queued", "dispatched", "running", "succeeded", "failed", "unknown"}

Terminal == {"succeeded", "failed", "unknown"}

InFlight == {"dispatched", "running"}

Active == {"queued"} \cup InFlight

FailureCode == {"executor_error", "dispatch_exhausted", "execution_timeout"}

\* A NULL failure_code.
NoFailure == ""

ValidateTransition(from, to) ==
    \/ from = "queued"     /\ to = "dispatched"
    \/ from = "dispatched" /\ to \in {"running", "queued", "failed"}
    \/ from = "running"    /\ to \in {"succeeded", "failed", "unknown"}

ValidateStateFailureCode(state, fc) ==
    \/ state \in Active \cup {"succeeded"} /\ fc = NoFailure
    \/ state = "failed"  /\ fc \in {"executor_error", "dispatch_exhausted"}
    \/ state = "unknown" /\ fc = "execution_timeout"
=============================================================================
