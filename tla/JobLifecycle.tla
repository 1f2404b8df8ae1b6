---------------------------- MODULE JobLifecycle ----------------------------
(***************************************************************************)
(* What the controller promises about jobs, without rows, leases, events   *)
(* or transactions: every job follows the lifecycle of internal/job, it is *)
(* dispatched a bounded number of times, it runs at most once, and an      *)
(* agent has at most one job in flight.  JobStore implements it.           *)
(***************************************************************************)
EXTENDS Job

CONSTANTS Jobs, Agents, None

VARIABLES state, attempt, owner

vars == <<state, attempt, owner>>

Init ==
    /\ state = [j \in Jobs |-> "absent"]
    /\ attempt = [j \in Jobs |-> 0]
    /\ owner = [j \in Jobs |-> None]

Keep(j) == state'[j] = state[j] /\ attempt'[j] = attempt[j] /\ owner'[j] = owner[j]

Submit(j) ==
    /\ state[j] = "absent" /\ state'[j] = "queued"
    /\ attempt'[j] = 0
    /\ owner'[j] \in Agents

\* A transition of the lifecycle.  Only a dispatch uses up an attempt, and a
\* dispatched job is given up exactly when it has no attempt left.
Transition(j) ==
    /\ ValidateTransition(state[j], state'[j])
    /\ attempt'[j] = IF state'[j] = "dispatched" THEN attempt[j] + 1 ELSE attempt[j]
    /\ state'[j] = "queued" => attempt[j] < MaxDispatchAttempts
    /\ state[j] = "dispatched" /\ state'[j] = "failed" => attempt[j] = MaxDispatchAttempts
    /\ owner'[j] = owner[j]

\* A job goes back to the queue and out again in one transaction.
Redispatch(j) ==
    /\ state[j] = "dispatched" /\ state'[j] = "dispatched"
    /\ attempt'[j] = attempt[j] + 1
    /\ owner'[j] = owner[j]

OneInFlight ==
    \A i, j \in Jobs :
        state[i] \in InFlight /\ state[j] \in InFlight /\ owner[i] = owner[j] => i = j

Bounded == \A j \in Jobs : attempt[j] <= MaxDispatchAttempts

\* One transaction may move several jobs.
Next ==
    /\ \A j \in Jobs : Keep(j) \/ Submit(j) \/ Transition(j) \/ Redispatch(j)
    /\ OneInFlight'
    /\ Bounded'

Spec == Init /\ [][Next]_vars
=============================================================================
