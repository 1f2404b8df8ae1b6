------------------------------ MODULE JobStore ------------------------------
(***************************************************************************)
(* The job tables of the controller (internal/database/jobs.go): one       *)
(* action per exported operation, each one a committed transaction.  Every *)
(* operation locks the rows it decides on before it reads the clock, so    *)
(* here a transaction is one atomic step.                                  *)
(*                                                                         *)
(* Time.  The code compares dispatch_expires_at and execution_deadline_at  *)
(* with clock_timestamp() and with nothing else.  A row holds the time     *)
(* that is left until the timestamp, 0 once it has been reached and        *)
(* NullTime for NULL, and Tick lets one unit of time pass.  This keeps the *)
(* boundary case (expiry at exactly now) and needs no bound on the clock.  *)
(*                                                                         *)
(* Identity.  Jobs are numbered in the order (created_at, id).  created_at *)
(* is the start of the creating transaction, which may have waited for its *)
(* locks, so that CreateJob may add a job in front of ones that were added *)
(* before it: it takes any number that is free.  JobTx has the starts of   *)
(* the transactions and with them the order itself.                        *)
(*                                                                         *)
(* A rejected request (ErrQueueFull, ErrJobIdempotencyConflict, ...) and   *)
(* an idempotent replay change no row: they are the stuttering steps.      *)
(***************************************************************************)
EXTENDS Job, Sequences, FiniteSets

CONSTANTS
    Agents,          \* the rows of the agents table
    Operators,       \* the operators that are enabled and may execute operations
    Keys,            \* hashes of the Idempotency-Key header
    MaxJobs,         \* bound: number of jobs ever created
    ReconcileLimit,  \* the most rows one unfiltered ListJobs reconciles
    None             \* the columns of a row that does not exist

ASSUME StoreAssumption ==
    /\ MaxJobs \in Nat
    /\ ReconcileLimit \in Nat
    /\ None \notin Agents

VARIABLES
    jobs,    \* stackpilot.jobs, by job id
    events,  \* stackpilot.job_events, by job id, in the order of their commits
    audit    \* the jobs with a job.created row in operator_audit_events

vars == <<jobs, events, audit>>

Jobs == 1..MaxJobs

NullTime == -1

NoRow ==
    [agent |-> None, operator |-> None, key |-> None, state |-> "absent",
     attempt |-> 0, failure_code |-> NoFailure, dispatch_expires_at |-> NullTime,
     execution_deadline_at |-> NullTime, finished_at |-> NullTime]

Exists(j) == jobs[j].state # "absent"

Event(type, attempt, fc) == [type |-> type, attempt |-> attempt, failure_code |-> fc]

Init ==
    /\ jobs = [j \in Jobs |-> NoRow]
    /\ events = [j \in Jobs |-> <<>>]
    /\ audit = {}

-----------------------------------------------------------------------------
(* CreateJob *)

ActiveJobs(a) == {j \in Jobs : jobs[j].agent = a /\ jobs[j].state \in Active}

KeyUsed(o, k) == \E j \in Jobs : jobs[j].operator = o /\ jobs[j].key = k

QueuedRow(o, k, a) ==
    [NoRow EXCEPT !.agent = a, !.operator = o, !.key = k, !.state = "queued"]

CreateJob(o, k, a) ==
    \E j \in Jobs :
        /\ ~Exists(j)
        /\ ~KeyUsed(o, k)
        /\ Cardinality(ActiveJobs(a)) < MaxActiveJobsPerAgent
        /\ jobs' = [jobs EXCEPT ![j] = QueuedRow(o, k, a)]
        /\ events' = [events EXCEPT ![j] = Append(@, Event("job.created", 0, NoFailure))]
        /\ audit' = audit \cup {j}

-----------------------------------------------------------------------------
(* Reconciliation of expired leases and deadlines *)

DispatchExpired(row) == row.state = "dispatched" /\ row.dispatch_expires_at = 0

ExecutionExpired(row) == row.state = "running" /\ row.execution_deadline_at = 0

Expired(row) == DispatchExpired(row) \/ ExecutionExpired(row)

Requeued(row) == [row EXCEPT !.state = "queued", !.dispatch_expires_at = NullTime]

Exhausted(row) ==
    [row EXCEPT !.state = "failed", !.failure_code = "dispatch_exhausted",
                !.dispatch_expires_at = NullTime, !.finished_at = 0]

TimedOut(row) ==
    [row EXCEPT !.state = "unknown", !.failure_code = "execution_timeout",
                !.execution_deadline_at = NullTime, !.finished_at = 0]

\* Fault: the attempt budget is off by one.
ReconciledRow_OneTooMany(row) ==
    IF row.state = "running" THEN TimedOut(row)
    ELSE IF row.attempt <= MaxDispatchAttempts THEN Requeued(row)
    ELSE Exhausted(row)

ReconciledRow(row) ==
    IF row.state = "running" THEN TimedOut(row)
    ELSE IF row.attempt < MaxDispatchAttempts THEN Requeued(row)
    ELSE Exhausted(row)

\* Fault: the last dispatch of a job is recorded as one more requeue.
ReconcileEvent_NeverFailed(row) ==
    IF row.state = "running"
    THEN Event("job.unknown", row.attempt, "execution_timeout")
    ELSE Event("job.requeued", row.attempt, NoFailure)

ReconcileEvent(row) ==
    IF row.state = "running"
    THEN Event("job.unknown", row.attempt, "execution_timeout")
    ELSE IF row.attempt < MaxDispatchAttempts
    THEN Event("job.requeued", row.attempt, NoFailure)
    ELSE Event("job.failed", row.attempt, "dispatch_exhausted")

\* The tables once the expired rows S are reconciled.
ReconciledJobs(S) == [j \in Jobs |-> IF j \in S THEN ReconciledRow(jobs[j]) ELSE jobs[j]]

ReconciledEvents(S) ==
    [j \in Jobs |-> IF j \in S THEN Append(events[j], ReconcileEvent(jobs[j]))
                               ELSE events[j]]

ExpiredJobs == {j \in Jobs : Expired(jobs[j])}

\* Fault: the claim reconciles leases and forgets execution deadlines.
ExpiredJobsOf_LeasesOnly(a) ==
    {j \in ExpiredJobs : jobs[j].agent = a /\ jobs[j].state = "dispatched"}

ExpiredJobsOf(a) == {j \in ExpiredJobs : jobs[j].agent = a}

Reconcile(S) ==
    /\ jobs' = ReconciledJobs(S)
    /\ events' = ReconciledEvents(S)
    /\ UNCHANGED audit

\* GetJobByID reconciles the one row it returns.
GetJobByID(j) == j \in ExpiredJobs /\ Reconcile({j})

\* ListJobs filtered by agent reconciles every expired row of the agent.
ListAgentJobs(a) == ExpiredJobsOf(a) # {} /\ Reconcile(ExpiredJobsOf(a))

\* Without a filter it reconciles a bounded number of rows and skips the ones
\* that another transaction holds locked.
ListJobs ==
    \E S \in SUBSET ExpiredJobs :
        /\ S # {}
        /\ Cardinality(S) <= ReconcileLimit
        /\ Reconcile(S)

-----------------------------------------------------------------------------
(* ClaimNextAgentJob *)

\* Fault: only a running job counts as in flight.
HasInFlight_RunningOnly(rows, a) ==
    \E j \in Jobs : rows[j].agent = a /\ rows[j].state = "running"

HasInFlight(rows, a) == \E j \in Jobs : rows[j].agent = a /\ rows[j].state \in InFlight

QueuedOf(rows, a) == {j \in Jobs : rows[j].agent = a /\ rows[j].state = "queued"}

OldestQueued(rows, a, j) ==
    j \in QueuedOf(rows, a) /\ \A i \in QueuedOf(rows, a) : j <= i

DispatchedRow(row) ==
    [row EXCEPT !.state = "dispatched", !.attempt = row.attempt + 1,
                !.dispatch_expires_at = DispatchLease]

\* The claim commits what it reconciled and assigns no job.
ClaimNothing(a) ==
    LET rows == ReconciledJobs(ExpiredJobsOf(a))
    IN  /\ HasInFlight(rows, a) \/ QueuedOf(rows, a) = {}
        /\ Reconcile(ExpiredJobsOf(a))

\* The claim reconciles, then assigns the oldest queued job of the agent.
ClaimJob(a, j) ==
    LET rows == ReconciledJobs(ExpiredJobsOf(a))
        evts == ReconciledEvents(ExpiredJobsOf(a))
    IN  /\ ~HasInFlight(rows, a)
        /\ OldestQueued(rows, a, j)
        /\ rows[j].attempt < MaxDispatchAttempts
        /\ jobs' = [rows EXCEPT ![j] = DispatchedRow(rows[j])]
        /\ events' = [evts EXCEPT ![j] =
                        Append(@, Event("job.dispatched", rows[j].attempt + 1, NoFailure))]
        /\ UNCHANGED audit

ClaimNextAgentJob(a) == ClaimNothing(a) \/ \E j \in Jobs : ClaimJob(a, j)

-----------------------------------------------------------------------------
(* StartAgentJob *)

\* Fault: the attempt of the request is not compared with the row.
MayStart_AnyAttempt(a, j, n) ==
    /\ jobs[j].state = "dispatched"
    /\ jobs[j].agent = a
    /\ jobs[j].dispatch_expires_at > 0

MayStart(a, j, n) ==
    /\ jobs[j].state = "dispatched"
    /\ jobs[j].agent = a
    /\ jobs[j].attempt = n
    /\ jobs[j].dispatch_expires_at > 0

RunningRow(row) ==
    [row EXCEPT !.state = "running", !.dispatch_expires_at = NullTime,
                !.execution_deadline_at = ExecutionResultDeadline]

StartAgentJob(a, j, n) ==
    /\ MayStart(a, j, n)
    /\ jobs' = [jobs EXCEPT ![j] = RunningRow(jobs[j])]
    /\ events' = [events EXCEPT ![j] = Append(@, Event("job.started", n, NoFailure))]
    /\ UNCHANGED audit

-----------------------------------------------------------------------------
(* CompleteAgentJob *)

Outcome == {"succeeded", "failed"}

\* The agent of the job reports on the attempt that is running.
MayComplete(a, j, n) ==
    jobs[j].state = "running" /\ jobs[j].agent = a /\ jobs[j].attempt = n

OutcomeCode(outcome) == IF outcome = "failed" THEN "executor_error" ELSE NoFailure

OutcomeEvent(outcome) == IF outcome = "failed" THEN "job.failed" ELSE "job.succeeded"

FinishedRow(row, outcome) ==
    [row EXCEPT !.state = outcome, !.failure_code = OutcomeCode(outcome),
                !.execution_deadline_at = NullTime, !.finished_at = 0]

\* Fault: a late completion replaces the unknown state.
CompleteAgentJob_AfterUnknown(a, j, n, outcome) ==
    /\ jobs[j].state \in {"running", "unknown"}
    /\ jobs[j].agent = a
    /\ jobs[j].attempt = n
    /\ jobs[j].execution_deadline_at # 0
    /\ jobs' = [jobs EXCEPT ![j] = FinishedRow(jobs[j], outcome)]
    /\ events' = [events EXCEPT ![j] =
                    Append(@, Event(OutcomeEvent(outcome), n, OutcomeCode(outcome)))]
    /\ UNCHANGED audit

CompleteAgentJob(a, j, n, outcome) ==
    /\ MayComplete(a, j, n)
    /\ jobs[j].execution_deadline_at > 0
    /\ jobs' = [jobs EXCEPT ![j] = FinishedRow(jobs[j], outcome)]
    /\ events' = [events EXCEPT ![j] =
                    Append(@, Event(OutcomeEvent(outcome), n, OutcomeCode(outcome)))]
    /\ UNCHANGED audit

\* A completion after the deadline commits the unknown state, and then fails.
CompleteTooLate(a, j, n) ==
    /\ MayComplete(a, j, n)
    /\ jobs[j].execution_deadline_at = 0
    /\ Reconcile({j})

\* A replay of the outcome that was recorded succeeds and changes nothing.
CompletedAs(a, j, n, outcome) ==
    /\ jobs[j].agent = a
    /\ jobs[j].attempt = n
    /\ jobs[j].state = outcome
    /\ jobs[j].failure_code = OutcomeCode(outcome)

-----------------------------------------------------------------------------
Elapse(time) == IF time > 0 THEN time - 1 ELSE time

ElapsedRow(row) ==
    [row EXCEPT !.dispatch_expires_at = Elapse(row.dispatch_expires_at),
                !.execution_deadline_at = Elapse(row.execution_deadline_at)]

TimeIsRunning ==
    \E j \in Jobs : jobs[j].dispatch_expires_at > 0 \/ jobs[j].execution_deadline_at > 0

\* One unit of database time passes.
Tick ==
    /\ TimeIsRunning
    /\ jobs' = [j \in Jobs |-> ElapsedRow(jobs[j])]
    /\ UNCHANGED <<events, audit>>

Next ==
    \/ \E o \in Operators, k \in Keys, a \in Agents : CreateJob(o, k, a)
    \/ \E a \in Agents : ClaimNextAgentJob(a)
    \/ \E a \in Agents, j \in Jobs, n \in 1..MaxDispatchAttempts : StartAgentJob(a, j, n)
    \/ \E a \in Agents, j \in Jobs, n \in 1..MaxDispatchAttempts, outcome \in Outcome :
            CompleteAgentJob(a, j, n, outcome)
    \/ \E a \in Agents, j \in Jobs, n \in 1..MaxDispatchAttempts : CompleteTooLate(a, j, n)
    \/ \E j \in Jobs : GetJobByID(j)
    \/ \E a \in Agents : ListAgentJobs(a)
    \/ ListJobs
    \/ Tick

Spec == Init /\ [][Next]_vars

-----------------------------------------------------------------------------
(* Properties *)

Row ==
    [agent : Agents \cup {None}, operator : Operators \cup {None},
     key : Keys \cup {None}, state : State \cup {"absent"},
     attempt : 0..MaxDispatchAttempts, failure_code : FailureCode \cup {NoFailure},
     dispatch_expires_at : NullTime..DispatchLease,
     execution_deadline_at : NullTime..ExecutionResultDeadline, finished_at : {NullTime, 0}]

EventType ==
    {"job.created", "job.dispatched", "job.requeued", "job.started", "job.succeeded",
     "job.failed", "job.unknown"}

EventRow ==
    [type : EventType, attempt : 0..MaxDispatchAttempts,
     failure_code : FailureCode \cup {NoFailure}]

\* The columns and the values that the CHECK constraints of migrations 010 and
\* 011 allow in the job tables.
TypeOK ==
    /\ jobs \in [Jobs -> Row]
    /\ events \in [Jobs -> Seq(EventRow)]
    /\ audit \in SUBSET Jobs

\* Every write keeps a row readable and usable: its failure code and finished_at
\* fit its state (or the CHECK constraints abort the write and validateJobRow
\* fails every read), it has a lease exactly while dispatched (or StartAgentJob
\* rejects every start) and a deadline exactly while running (or CompleteAgentJob
\* fails for ever), and a queued row has an attempt left (or ClaimNextAgentJob
\* fails on it for ever, and with it the whole queue of the agent).
RowsUsable ==
    \A j \in Jobs : Exists(j) =>
        LET row == jobs[j] IN
        /\ ValidateStateFailureCode(row.state, row.failure_code)
        /\ row.finished_at # NullTime <=> row.state \in Terminal
        /\ row.dispatch_expires_at # NullTime <=> row.state = "dispatched"
        /\ row.execution_deadline_at # NullTime <=> row.state = "running"
        /\ row.state = "queued" => row.attempt < MaxDispatchAttempts
        /\ row.state # "queued" => row.attempt > 0

\* ClaimNextAgentJob, which both reconciles and dispatches, and the reconciling
\* reads never leave an agent with two jobs in flight: the partial unique index
\* jobs_agent_inflight_idx is never what stops a claim.
OneInFlightPerAgent ==
    \A i, j \in Jobs :
        /\ jobs[i].state \in InFlight
        /\ jobs[j].state \in InFlight
        /\ jobs[i].agent = jobs[j].agent
        => i = j

EventsOf(j, type) == {n \in DOMAIN events[j] : events[j][n].type = type}

StateEvent(row) ==
    CASE row.state = "queued" /\ row.attempt = 0 -> "job.created"
      [] row.state = "queued" /\ row.attempt # 0 -> "job.requeued"
      [] row.state = "dispatched"                -> "job.dispatched"
      [] row.state = "running"                   -> "job.started"
      [] row.state = "succeeded"                 -> "job.succeeded"
      [] row.state = "failed"                    -> "job.failed"
      [] row.state = "unknown"                   -> "job.unknown"

\* The history of a job tells its row: the last event is the one of the row's
\* state, with its attempt and its failure code, and there is one dispatch event
\* for every attempt.  No transaction, and neither of the two copies of the
\* reconciliation code, changes a row without the matching event.
HistoryTellsRow ==
    \A j \in Jobs : Exists(j) =>
        /\ events[j] # <<>>
        /\ events[j][Len(events[j])] =
              Event(StateEvent(jobs[j]), jobs[j].attempt, jobs[j].failure_code)
        /\ Cardinality(EventsOf(j, "job.dispatched")) = jobs[j].attempt
        /\ j \in audit

\* StartAgentJob succeeds at most once for a job, over all its attempts: a job
\* whose start was granted never goes back to the queue.
StartedAtMostOnce ==
    \A j \in Jobs : \A m, n \in EventsOf(j, "job.started") : m = n

\* A finished job is final: a late or repeated start or completion, a read and a
\* claim leave its row and its history as they are.
TerminalIsFinal ==
    [][\A j \in Jobs : jobs[j].state \in Terminal =>
            jobs'[j] = jobs[j] /\ events'[j] = events[j]]_vars

Lifecycle ==
    INSTANCE JobLifecycle WITH
        state   <- [j \in Jobs |-> jobs[j].state],
        attempt <- [j \in Jobs |-> jobs[j].attempt],
        owner   <- [j \in Jobs |-> jobs[j].agent]

\* The SQL of jobs.go, which never calls ValidateTransition, moves every job
\* along the transitions that it allows, within the attempts it is given and with
\* one job in flight per agent.
ImplementsLifecycle == Lifecycle!Spec
=============================================================================
