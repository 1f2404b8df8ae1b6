# StackPilot: a verification project

TLA+ modules for the StackPilot controller and agent, the TLC configurations
that check them on small instances, and TLAPS proofs of the central properties
for instances of any size. `PROJECT.json` holds the machine-readable part: the
components, the map from definitions to source lines, the runs, one seeded fault
per property, the hazards and the theorems.

## 1. The system

One controller (`cmd/controller`) serves operators and agents from a PostgreSQL
database. Agents (`cmd/agent`) are daemons on the managed machines. They enroll
once with a one-time token, then call the controller over mutual TLS: nothing
ever calls an agent. A privileged helper (`cmd/agent-helper`) runs beside the
agent and answers on a Unix socket.

### Inventory

| Part | Source | State | Operations |
|---|---|---|---|
| Job domain rules | `internal/job` | none | `ValidateTransition`, `ValidateStateFailureCode`, limits, syntax of keys and actions |
| Job store | `internal/database/jobs.go`, migrations 010 to 012 | `jobs`, `job_events`, job rows of `operator_audit_events` | `CreateJob`, `GetJobByID`, `ListJobs`, `ListJobEvents`, `ClaimNextAgentJob`, `StartAgentJob`, `CompleteAgentJob`; reconciliation of expired leases and deadlines inside the reads and the claim |
| Agent loop, jobs | `internal/agent/presence.go`, `executor.go` | loop position, assignment, `pendingCompletion` (in memory only) | heartbeat, start, execute, complete, retry of a completion, stop on permanent failures |
| Agent API, jobs | `internal/controller/controller.go` | none of its own | heartbeat (two transactions: record, then claim), start, complete |
| Operator API, jobs | `internal/controller/controller.go` | none of its own | create, get, list, events |
| Operators and sessions | `controller.go`, `database.go`, `internal/operator` | operators, sessions, audit events, login limiter | login, logout, authenticate, create and disable operators |
| Enrollment | `controller.go`, `database.go`, `internal/enrollment`, `internal/agent/enroll.go` | tokens, agents | issue and use a token, register |
| Identity files | `internal/agent/identity.go`, `transport.go` | key, identity and trust root files | create, load, save |
| Operator requests | `controller.go`, `database.go`, `internal/operator/role.go` | none of its own | `authenticateOperator`, `HasPermission`, the handlers behind them, the audited read `RecordAndListAuditEvents` |
| Certificate manager, back-off | `presence.go`, `transport.go` | current client and its expiry, failure count | `getClient`, `computeBackoff` |
| Inventory | `internal/agent/inventory.go`, `database.go` | next delivery time, inventory rows | collect, deliver, reschedule |
| Telemetry | `internal/agent/telemetry*.go`, `database.go` | CPU baseline, telemetry rows | `Sample`, deliver, upsert |
| Privilege helper | `internal/privilege`, `cmd/agent-helper` | socket file, connection slots | `Serve`: prepare, bind, accept, answer, drain, clean up; `Ping` |
| Controller process | `cmd/controller`, `controller.go` | listeners, two HTTP servers, error channel, pool | `runServer`, `Run`, `serve`, `serveDual` |
| Daemon hardening, migrations, command lines | the rest | none | one-shot checks, a library call, argument parsing |

### How the job parts interact

An operator's request inserts a queued job. A heartbeat of the agent is recorded
in one transaction; when it shows active jobs, a second transaction reconciles
the agent's expired rows and, if none is in flight, dispatches the oldest queued
one under a lease. The answer carries the assignment. The agent asks to start
it, and executes only on a 204. It reports the outcome; a report whose answer it
did not get stays in memory and is sent again after the next heartbeat, before
any new job. A lease that runs out puts the job back in the queue until its
attempts are used up; an execution deadline that runs out makes it `unknown`.
There is no background reaper: expired rows are changed only by a claim, by a
read or by a late completion.

### What makes it hard

Lost answers; requests handled after the agent gave up on them; agents that
crash after executing and remember nothing; leases that expire exactly when a
start arrives; reconciliation that happens as a side effect of reads and exists
in two copies; requeued jobs that compete with newer ones; a claim that commits
although its answer is never seen; transactions that are ordered by the time they
began and decide when they get their locks; enroll commands that are killed between
two files, repeated, or run side by side on one host; logins and logouts of one
operator whose transactions wait for each other; operators who are disabled between
the authentication of a request and its commit; a certificate that must outlive a
turn of six slow requests on two clocks; a helper that is killed and leaves its
socket behind; two servers that share one shutdown budget and one error channel.
`PROJECT.json` lists the hazards line by line.

### What correctness means

1. No job is executed twice, and the row never claims an execution or an outcome
   that did not happen.
2. A finished job is final.
3. An agent has one job in flight and gets the oldest of its jobs that are committed; a
   job whose creation was answered before another was asked for goes first.
4. Every row that a transaction leaves can be read, started, completed or
   claimed by the next one; the history tells the row.
5. Idempotency keys and the queue bound hold for creations that overlap, and no
   transactions of the store wait for each other in a circle.
6. The SQL follows the transition table that `internal/job` defines.
7. If heartbeats keep arriving, every job finishes; if the network keeps
   recovering, the agent becomes free again.
8. A host has one identity, which the controller knows; a token and a key belong
   to one agent; a registration whose answer was lost can be completed.
9. An operator has a bounded number of sessions, loses none too early and gets
   none when disabled; the audit log counts what happened.
10. No operator's request succeeds that nothing permitted, and every audit listing
    is recorded and complete.
11. The daemon presents a valid certificate, stops only for cause, and never lets an
    old report replace a newer one; what a report says of the machine is true.
12. The path of the helper's socket leads to the helper that listens; helpers that
    were killed or stopped leave nothing that keeps the service away for good, given the
    administrator's repairs.
13. The controller process ends when it should and its exit status is true.

## 2. Modules

| Module | Content |
|---|---|
| `Job` | states, transitions, failure codes and limits of `internal/job` |
| `JobLifecycle` | the abstract promise: per job a state, an attempt and an owner, moved along `ValidateTransition` only, one in flight per owner, attempts bounded |
| `JobStore` | the job tables; one action per operation of `jobs.go` |
| `JobDispatch` | `JobStore` composed with the agents' loops, the handlers and the network |
| `Enrollment` | tokens and agents at the controller, the enroll command and its three files on the hosts |
| `OperatorSessions` | operators, sessions, login limiter and audit counts; login and logout with their row locks |
| `JobTx` | the transactions of `jobs.go` with begin, row locks and commit, interleaved |
| `OperatorRequests` | the operators' HTTP requests: authentication, permission, job creation and audited reads, with the transactions behind them |
| `AgentReports` | the daemon's loop as it spends time: certificate, back-off, inventory and telemetry reports, and the rows they replace |
| `TelemetrySample` | the telemetry sampler: readers, word arithmetic, CPU baseline |
| `PrivilegeHelper` | helpers, their socket, their connections, kills and repairs |
| `ControllerProcess` | the controller process from its configuration to its exit |
| `JobStoreProofs`, `JobDispatchProofs`, `JobTxProofs`, `JobTxOrderProofs`, `EnrollmentProofs`, `OperatorRequestsProofs`, `OperatorSessionsProofs`, `ProcessProofs` | theorems |
| `MC...` | the instances of the runs: symmetry sets, levels of counters, contents of files |

**`JobStore`.** `jobs` is the table, by id; a row has the columns that decide
anything. `events` is `job_events` in commit order, `audit` the jobs with a
`job.created` audit row. Each operation locks the rows it decides on before it
reads the clock, so it is one step here: `CreateJob`, `ClaimNextAgentJob`
(reconcile, then dispatch or not, in one commit), `StartAgentJob`,
`CompleteAgentJob`, `CompleteTooLate` (the branch of `CompleteAgentJob` that
commits `unknown` and then reports a conflict), `GetJobByID`, `ListAgentJobs` and
`ListJobs` (the two forms of `ListJobs`; the unfiltered one has a limit and skips
locked rows, hence any bounded subset of the expired rows). Rejections and
idempotent replays change nothing and are stuttering steps.

Time is relative. The code compares `dispatch_expires_at` and
`execution_deadline_at` with `clock_timestamp()` and with nothing else, so a row
holds the time that is left, 0 once reached; `Tick` takes one unit from every
row. No clock needs a bound, and "expires exactly now" is a reachable state.

Jobs are numbered by `created_at`, the start of the creating transaction. A creation that
waited for its locks may commit a job that is older than others in the table, so
`CreateJob` takes any number that is free: more orders than the code has, and every one
it has. The exact order is the subject of `JobTx`.

**`JobDispatch`.** Per agent: `pc` (a place in the loop of
`runPresenceWithConfig`), `assignment`, `pending` (`pendingCompletion`) and `call`,
the one open request. `Serve` lets the controller take the next transaction of an
open request; `ServeLate` does so for a request its agent gave up on. Each
`...Fails` action stands for a timeout, a broken connection and a 429 or 5xx
answer: in all three the agent learns nothing and the transaction may have
happened, may happen later or never. `HandleClaim` includes a claim that fails
and one whose commit succeeds while the handler sees an error, since both are
answered with a 204. `Crash` may happen anywhere and loses all memory. `ran` is a
history variable: the outcomes of the executions of each job. A 409 and a 204
settle a report; an assignment that arrives while a report stays pending is
dropped. `HeartbeatBodyFails` is the one transient error that ends the daemon
(section 5).

The other permanent failures of the loop (an invalid certificate, a 4xx answer, a
malformed assignment) are not produced by this controller for an enrolled agent
and are left out; they end the process as `Crash` does.

**`Enrollment`.** `token`, `consumed` and `agents` are the tables of migrations 002
and 003; `ca`, `key` and `meta` are the files `controller-ca.pem`, `identity.key` and
`identity.json` of each host; `proc` is the enroll command that each administrator
currently runs. The actions follow `Enroll`: `CheckIdentity`, `CheckCA` and
`RenameCA` (the two ends of `ValidateAndPersistCAFile`), `LoadKey`, `CreateKey` and
`WriteKey` (`LoadOrGenerateKey`), the transaction `RegisterAgent` in `HandleEnroll`,
`WriteIdentityMetadata`. Steps are separate where another command can see or change
the file in between. `Fail` ends a command anywhere: an error, a kill, a timeout, a
lost answer; a request it leaves behind is handled later (`HandleLate`) or never.
`RegisterAgent` is atomic because it locks the token row first, reads
`consumed_at` after the lock, and leaves competing keys to a UNIQUE index. A key
file is created before it is written, so a kill in between leaves an empty file
(`Partial`). Only tokens that were issued are used: an unknown token is refused
like an expired one. What the trust roots are used for (TLS) is not modelled, nor
is a loss of power that undoes a rename.

**`OperatorSessions`.** `status` and `sessions` are the tables of migrations 007 and
008, `audit` counts the rows of 009 by operator and kind, `slots` is the login
limiter, `proc` the requests being handled. A login goes through `TryAcquire`,
`VerifyOperator` (which also begins the transaction), `LockOperator` and
`CreateOperatorSession`; a logout through `Authenticate`, `DeleteSession` and
`RevokeOperatorSession`. A session is named by the order in which login
transactions begin, because `now()` is the start of the transaction; it may be
committed after a newer one. `seen` is what had expired at that moment. The rest of
a login after its lock is one step: whatever a logout does meanwhile it could do
after. Two locks can be held across steps, the operator row by a login and the
deleted session row by a logout; the foreign key of the audit event makes the
logout wait for the former, the pruning makes the login wait for the latter. That
is a cycle, and it is reachable: a logout of a session that a concurrent login
prunes may deadlock with it, and PostgreSQL ends one of the two, which is answered
with a 500. `Fail` is that, and every timeout and error. Nothing in the repository
disables an operator; `DisableOperator` is an administrator's UPDATE.

**`JobTx`.** The same transactions as in `JobStore`, one level down. A transaction
of a connection in `Procs` begins (`begins` is `now()`, the place of its BEGIN among
all others), asks for rows `FOR UPDATE` one after the other (`lock`), reads what is
committed when it has them, and commits; `Rollback` ends it anywhere. `CreateJob` is
`BeginCreate`, `LockOperator`, `ReplayJob` or `LockAgentAndCount`, `InsertJob`; the
claim of a heartbeat is `RecordAgentHeartbeat`, `BeginClaim`, `LockAgent`,
`ReconcileAgent`, then `ClaimNothing` or `LockOldest` and `ClaimJob`; start and
completion lock one job. The unfiltered list skips locked rows. Writes become visible
at the commit and are made there. An agent reports only on an attempt whose dispatch
is committed, which is what `in_flight_at` records. Time is reduced to what this level
needs: a row in flight has expired or not (`Expire`).

**`OperatorRequests`.** A handler authenticates (`authenticateOperator` with
`FindOperatorSession`), asks the permission matrix, checks the request, and runs its
transaction: `ReadJobs`; or `Begin`, `LockOperator`, `CreateJob`; or `Begin`,
`ListAudit`, `CommitAudit`. `Administer` disables an operator or gives them another role
at any moment the row is not locked; sessions come and go. A commit may succeed while
its handler sees an error, and `Fail` ends a request anywhere. `was` is a history
variable: whether the rows permitted the request at some time since it arrived. An
audit event is dated by the start of its transaction and may appear behind a younger one.

**`AgentReports`.** The loop of `runPresenceWithConfig` again, now with time and
without jobs' contents: a turn is `getClient`, heartbeat, up to three job requests,
inventory and telemetry, then `Wait` for a jittered interval or back-off. Each request
takes any time up to its timeout, and is answered by what the controller makes of the
certificate, the agent's row and the protocol version, or is lost; a lost report may be
handled for `HandlerLife` more (`HandleLate`), which is the server's `ReadTimeout` of 10
seconds and the 5 seconds of the handler's database context. The execution of a job is
instantaneous, as the executor's actions are. A 400 does not occur: agent and controller
validate with the same functions. Time is relative, as in `JobStore`: the certificate's
age, the time until the inventory is due, the rest of a late request's life. The
certificate counts on the agent's clock and is checked on the controller's, which
differs by up to `MaxSkew`.

**`TelemetrySample`.** `Sample` over arbitrary counters and files, with integers of
`Word` bits that wrap where the code's do. The readers are operators; the baseline
(`hasCPUBaseline`, `lastCPUTotal`, `lastCPUIdle`, `window`) is the state. Counters move to
any of their levels, forwards and back. `seen` is a history variable: what `Sample` read
last, whatever became of that call.

**`PrivilegeHelper`.** Each helper runs `Serve`: `InspectDir`, for a directory that is not
there `MakeDir`, `ChownDir`, `ChmodDir` and `VerifyDir`, then `CheckSocket`, `Listen`,
`StatCreated`, `SetMode`, `Harden`, then accepts connections under its semaphore until it
is cancelled (`Cancel`, `Shutdown`) or `Accept` fails, waits for its handlers (`Drained`),
and cleans up (`InspectSocket`, `RemoveSocket`: the two halves of `cleanupSocket`). Any
call may fail: `SetMode` and `Harden` have a failing branch, since they still clean up,
`AcceptFails` is that of `Accept`, and `CallFails` is that of all others, on which `Serve`
returns at once. `Kill` ends a helper anywhere and leaves its socket, or a directory that
was made but not yet given its group and mode (`dir` is then `"made"`), which the next
helper refuses. Clients follow `Ping`:
they check the path and dial. The administrator removes sockets that nobody listens on
(`RemoveStale`), by mistake one that is in use (`RemoveLive`, noted in `mistaken`), and
repairs the directory. A socket is named by the helper that bound it: that device and
inode identify it is what `os.SameFile` assumes.

**`ControllerProcess`.** `runServer` is a program counter: configuration, pool,
migrations, TLS, listeners, then `serve` or `serveDual` with a goroutine per server, the
select on signal and `errCh`, the two `Shutdown`s under one context, the receipt of one
value per server, and the deferred `db.Close`. `http.Server` is external and modelled from
its use: `Serve` ends with one value, `Shutdown` closes the listener and waits for requests
until its context ends.

## 3. Runs

| Run | Instance | Result |
|---|---|---|
| `job_store` | 2 agents, 2 operators, 2 keys, 3 jobs, 2 attempts, lease 1, deadline 2, queue bound 2, list limit 1 | passes, about 108 000 states |
| `job_dispatch` | 1 agent, 2 jobs, 2 attempts, 1 late request, `HeartbeatSpec` | passes, about 81 000 states |
| `daemon_stops` | 1 agent, 1 job, 1 attempt, no late requests | violated, see section 5 |
| `enrollment` | 2 hosts, 2 commands, 2 tokens, no CA files | passes, about 147 000 states |
| `enroll_retry` | 1 host, 1 command, 2 tokens, 2 CA files, `RetrySpec` | passes |
| `operator_sessions` | 2 operators, 3 requests, 2 login slots, 2 sessions per operator, 4 login transactions | passes, about 2 100 000 states |
| `job_tx` | 1 agent, 2 operators, 2 keys, 3 jobs, 3 connections, 4 transactions, 2 attempts, queue bound 2 | passes, about 105 000 states |
| `operator_requests` | 2 operators, 2 requests at a time, 1 key, listing limit 2, 3 transactions | passes, about 1 400 000 states |
| `agent_reports` | lifetime 20, margin 9, skew 1, timeouts 1 and 2, interval and back-off 6, inventory 18 and 12 | passes, about 1 950 000 states |
| `telemetry_sample` | words of 4 bits, 3 basis points, window 2, edge values of every file | passes, about 7 300 states |
| `privilege_helper` | 2 helpers, 2 clients, 1 slot, 3 faults, `HelperFairSpec` | passes, about 317 000 states |
| `controller_process` | 3 requests, `ControllerFairSpec` | passes, about 68 000 states |

Why the bounds are enough to be interesting. With three jobs and two agents, two
jobs share an agent, so that order, the queue bound and requeues matter, while
the third belongs to the other agent and can be reconciled by the unfiltered
list. Two attempts give one requeue and one exhaustion. A lease of 1 and a
deadline of 2 make every order of start, completion and expiry reachable,
including both at 0. One agent is enough for the protocol and for `job_tx`: agents
share no rows, and a job never changes its agent; the proofs cover any number. One
late request allows a late start or completion to overtake a later heartbeat of the
same agent; two (about 198 000 states) were checked once and show nothing new, and the
invariants are proved for any number. Four transactions on three connections let two creations wait for a third
one's locks while a claim overtakes them; five (about 1 200 000 states) were checked
once and show nothing new.

`job_store` checks:

- `RowsUsable`: failure code, `finished_at`, lease and deadline fit the state, and
  a queued row has an attempt left;
- `HistoryTellsRow`: the last event is the one of the row's state, attempt and
  failure code, and there is one dispatch event per attempt;
- `TerminalIsFinal`;
- `ImplementsLifecycle`: refinement of `JobLifecycle`, which includes one job in flight
  per agent and the bound on attempts. `ValidateTransition` has no caller outside tests,
  so this is what ties the SQL to it.

`job_dispatch` checks `AtMostOnceExecution`, `RowTellsExecution` (a job that
succeeded or failed with `executor_error` was executed with that outcome; one that
waits or failed with `dispatch_exhausted` never was), `ReportsStand` (what an
agent executes or reports is still its own attempt, and only the deadline can
make the report come to nothing), and the two liveness properties `EveryJobFinishes` and
`PendingSettles`.

`job_tx` checks `NoDeadlock` (no set of transactions in which each waits for another:
creations lock operator, then agent or job, claims the agent, then jobs, reads one
job), `CreationsSerialized` (queue bound and keys under overlap), `DispatchesOldest` (when
a claim commits, every older job of the agent that is committed by then is over),
`AnsweredFirstServedFirst`, `ExecutionListedInOrder` (a start and a success are listed
after everything that led to them, although `occurred_at` is the start of the
transaction) and `TxImplementsLifecycle` (the row locks are enough for what `JobStore`
assumes).

`enrollment` lets two commands meet on one host with one or two tokens, or on two
hosts with one token, and repeats them without a bound. It checks `IdentityTruthful`,
`RegisteredKeyIsKept`, `OneAgentPerTokenAndKey` and `IdentityIsFinal`. The last one is not
obvious: `identity.json` is replaced unconditionally, and only the UNIQUE key together
with the exclusive creation of the key file makes every later identity equal to the
first. CA files do not influence these properties and are left to `enroll_retry`, which
checks `EnrollmentRecovers`.

`operator_sessions` has one request more than login slots, so that two logins and a
logout, or a login and two logouts, meet; four login transactions are enough to
prune twice and to commit out of the order of their start. It checks
`SessionsBounded` (which includes that the limiter counts exactly the running logins),
`RecentSessionsSurvive`, `AuditTellsSessions` and `DisabledGetsNoSession`.

`operator_requests` checks `AnsweredIfPermitted` (disabling, ending a session and a
change of role work at once), `CreatorPermitted` (a job is committed only for an operator
who is enabled and may execute at that moment), `ReadsRecorded` and `ListingComplete` (a
listing hides nothing that was committed when it began, but for as many younger events
as its limit).

`agent_reports` uses small durations in the proportions of the code that matter: a turn
and the skew just fit the refresh margin, and a late handler ends just before the
shortest wait. It checks `CertificateHonoured`, `StopsForCause`, `NeverOlder` (an
abandoned report never replaces one sent later) and `RetriedSoon`.

`telemetry_sample` shortens words to four bits, so that every sum and product meets its
boundary. It checks `UsageOfWindow` (a report is about exactly the time since the last
read, with the machine's usage in that time, and `Sample` is silent only where that time
has none) and `NumbersTrue` (no number is cut off, and what the readers accept the shared
validation accepts).

`privilege_helper` has two helpers that a supervisor restarts, so that one can start while
the other cleans up, or after it was killed. It checks `HandlersContained`,
`PathTellsHelper` (the socket at the path is that of the helper that listens, hence at
most one listens and no helper removes the socket of another; and success means the own
socket is gone), `ShutdownEnds` and `ServesAgain`. The last one is not a promise of the
code alone: a helper refuses a socket or a half-made directory that a dead one left, so
that the service comes back only because the administrator removes or repairs them.

`controller_process` checks `ReturnIsTrue` (nothing is left serving, no failure is
swallowed, and a clean exit has cut off no request) and `StopEnds`. Three requests keep
both servers busy at once and one of them with two.

### Fairness

`job_dispatch` runs under `HeartbeatSpec`, which assumes: time passes (WF on `Tick`); the
daemon goes on and a supervisor restarts it (WF on `Agent`); the daemon sends heartbeats
again and again however often it crashes (SF on `SendHeartbeat`: the loop sends one at
once when it starts); heartbeats that are sent for ever reach the controller
infinitely often, and of their claims infinitely many commit (SF). Nothing is
assumed of starts, completions or any answer. `EveryJobFinishes` then says that
leases, deadlines and the attempt bound do the rest. `PendingSettles` has the assumption
`NetworkFairness` as a hypothesis: retried completions are handled, and answers to
heartbeats and retries received, infinitely often. It says that the daemon does not hold
a report for ever.

`enroll_retry` assumes that a command ends (WF on its steps), that the
administrator repeats it with the tokens they have (SF on `Run`), and that of the
repetitions with one token that get to a step infinitely often infinitely many
get past it (SF). `EnrollmentRecovers` needs the token of the lost registration
among them: with any other token the controller answers 409 for ever. It is not
claimed of a host whose command was killed between `CreateKey` and `WriteKey`: its
key was never sent, every later command refuses the empty file, and somebody has
to remove it.

`privilege_helper` assumes weak fairness of a helper's own steps, of the supervisor
(`Start`), of the end of a handler (its connection has a deadline: `Refuse`, `Close`), and
of the administrator's repairs (`RemoveStale`, `RepairDir`: the code refuses to remove a
stale socket or to repair a directory itself). Nothing is assumed of clients. Faults are bounded by `MaxFaults`.

`controller_process` assumes weak fairness of the process, of `Serve`, of the shutdown
timer, and of handlers, whose reads and database calls have timeouts. A request that
does not end before the timer does is still among the behaviours.

Deadlock checking is on in all runs but `privilege_helper`: there both helpers may serve
on sockets that were removed under them, with no client and no fault left. Where a bound
of the model ends a run's behaviours (`job_tx`), or the process has exited
(`controller_process`), an explicit stuttering step (`Done`, `Exited`) says so.

## 4. Proofs

`JobStoreProofs` and `JobDispatchProofs` are for any agents, operators, keys, number of
jobs and limits that satisfy `JobAssumption`, `StoreAssumption` and `MaxLateAssumption` (the
limits are positive, `None` is not an agent).

`JobStoreProofs`:

- `Typed`, `RowsStayUsable`, `OneInFlight`, `OneStart`: the invariants `TypeOK`,
  `RowsUsable`, `OneInFlightPerAgent` and `StartedAtMostOnce`;
- `FinishedIsFinal`: the action property `TerminalIsFinal`;
- `FollowsLifecycle`: the refinement `ImplementsLifecycle`.

The inductive invariant is `Inv`. Its part about rows, `GoodTable`, is stated of
any table and not of the variable `jobs`, since a claim first reconciles and then
dispatches from the table that results: reconciliation keeps a table good
(`ReconcileGood`), a dispatch from a good table keeps it good (`DispatchGood`), and
the claim composes the two. One part is not among the properties and is needed: a
history with a start belongs to a row that is running or finished (or the row could be
started again, against `StartedAtMostOnce`). The refinement follows job by job: `Follows` says of
a row before and after a step what `JobLifecycle` says of a job, reconciliation satisfies
it (`ReconciledFollows`), and a claim either dispatches a queued row or, in one commit, puts
an expired one back and dispatches it again (`ClaimFollows`).

`JobDispatchProofs`:

- `UsesStore`: `DispatchSpec => Spec`, so that every theorem about the store holds
  of the protocol;
- `ExecutedAtMostOnce`: the invariant `AtMostOnceExecution`;
- `RowAlwaysTellsExecution`, `ReportsAlwaysStand`: the invariants `RowTellsExecution` and
  `ReportsStand`;
- `HistoryAlwaysTellsRow`: the invariant `HistoryTellsRow` of the store.

The invariant `DispatchInv` says of an agent that waits for a start that was
granted, or is about to execute, that the job is its own, was started and has not
been executed (`Granted`). A grant happens while the job is dispatched, when it
cannot have been executed; from then on no other start is granted (`BegunStays`);
the execution uses the grant up. A lost answer, a late start and a crash only
lose grants.

That the row tells the execution needs the reports that are on their way, the late ones
included, since any of them may be the next to write the row. `TruthInv` says that each is
backed by the one execution of the job, in the attempt the row has (`Backed`), and that an
agent that may execute holds a job that was started, has no outcome and was not executed
(`Held`). Every operation of the store is either quiet, that is, it adds no outcome to a job
that was started (`Quiet`), or records a completion, and that one is backed
(`CompletionRecorded`). Both keep what is held and backed (`HeldStays`, `BackedStays`).

For the history, `TellInv` states `HistoryTellsRow` of any pair of a table and its events
(`TellsAll`), since a claim appends to the events twice. Each operation either leaves row and
events alone or appends the event of the new row (`AppendTells`), which is a dispatch exactly
if the attempt went up. The lemmas about it are in `JobStoreProofs`; they take the facts about
cardinalities that they need as assumptions, and `JobDispatchProofs` ends with these facts
(`Counts`) and the theorem.

`JobTxProofs` and `JobTxOrderProofs`, for any agents, operators, keys and connections, and any
number of jobs and transactions, from `TxAssumption` (rows of the three tables are different things and `None`
is none of them):

- `TxInvariance`: the inductive invariant `TxInv`, on which the others rest and to which
  `JobTxProofs` is devoted;
- `NeverDeadlocked`, `CreationsStaySerialized`, `AlwaysAnsweredFirstServedFirst`,
  `AlwaysListedInOrder`: the invariants `NoDeadlock`, `CreationsSerialized`,
  `AnsweredFirstServedFirst` and `ExecutionListedInOrder`;
- `AlwaysDispatchesOldest`: the action property `DispatchesOldest`;
- `OverlapFollowsLifecycle`: the refinement `TxImplementsLifecycle`.

`TxInv` says which rows a transaction holds at each of its places (`Locks`) and what it has
read there and relies on later (`Knows`): the expired row it will reconcile is still expired,
the row it starts or completes is still in the state it checked, the job it claimed is still
the oldest and nothing of its agent is in flight. A commit of another transaction cannot
disturb that, since it would have to hold the same row; for the oldest job it is the row of
the agent, without which no creation inserts (`OlderAreOver`, from which
`AlwaysDispatchesOldest` follows). The refinement follows job by
job, as for `JobStore`. `NeverDeadlocked` gives every transaction a level, a bound on
the length of a chain of waits that begins with it, from a creation that wants its operator
(4) down to one that wants nothing (0). Who holds a wanted row has a lower level (`HolderIsFurther`). The
delicate case is that of two claims that both have reconciled: the row the one wants and the other
holds is of the agent of both, and they hold that agent's row. `CreationInv` adds what a creation
has found under its locks (no job with the key, room in the queue); `AnswerInv` that a job
that was committed when a creation began has a smaller `created_at`; `ListingInv` that a
report that will still be accepted began after every event of its job (`ReportLater`).

`EnrollmentProofs`, for any hosts, commands, tokens and CA files, from
`EnrollAssumption` (`None` is no content of a file):

- `IdentityStaysTruthful`, `OneAgent`, `RegisteredKeysStay`: the invariants
  `IdentityTruthful`, `OneAgentPerTokenAndKey`, `RegisteredKeyIsKept`;
- `IdentityStays`: the action property `IdentityIsFinal`.

The inductive invariant `EnrollInv` adds `SentKeysKept` (also the key of a request
left behind is in a key file) and `CommandsUpToDate` (the key a command holds is
still that of its host, an agent it was told is registered, and the writer of an
empty key file is alone). The argument: a key file that holds a key never changes,
since only an absent file is created and only an empty one written; so whatever
was sent stays on disk; and the key of a host determines its agent.

`OperatorRequestsProofs`, for any operators, requests, keys and limits (`RequestsAssumption`:
the limit is a natural number):

- `CreatorAlwaysPermitted`: the action property `CreatorPermitted`, from `LockInv` (the row
  that `CreateJob` holds permits the job, and nobody can change it);
- `AlwaysAnsweredIfPermitted` and `ReadsAlwaysRecorded`: the invariants
  `AnsweredIfPermitted` and `ReadsRecorded`, from `WasInv` and `ReadInv` (what a handler has
  passed so far is remembered at each of its places);
- `ListingsAlwaysComplete`: the invariant `ListingComplete`, from `ListInv` (the committed
  events and the open transactions have different times). Then the place of an event in the
  order of the listing is a bijection to `1..n` (`RankIsBijection`), so that an event that is
  left out has exactly as many younger ones in the listing as the limit (`NewestComplete`).

`OperatorSessionsProofs`, for any operators, requests at a time and limits that satisfy
`SessionAssumption` (at least one active session is allowed):

- `LocksHold`: the inductive invariant `LocksInv`;
- `DisabledNeverGetsSession`: the action property `DisabledGetsNoSession`;
- `SessionsStayBounded`, `RecentSessionsAlwaysSurvive`, `AuditAlwaysTellsSessions`: the
  invariants `SessionsBounded`, `RecentSessionsSurvive` and `AuditTellsSessions`.

`LocksInv` says what a request that holds a row knows: a login, that its operator is enabled
and that its session is new; a logout, that its session is there. No two hold the same. A
login then prunes and inserts in one commit, and what remains is at most the limit because
the newest `n` of a finite set are at most `n` (`NewestBounded`, by well-founded
choice of the oldest of them). `SlotsInv` and `AuditInv` relate the limiter and the audit
counts to the cardinalities of the sets they count.

`ProcessProofs` is about the three processes that run for long.

The daemon (`AgentReports`), for all durations that satisfy `ClockAssumption` (a turn and the
skew fit the refresh margin, the skew fits the backdating, a handler ends before the
shortest wait; the constants of the code do, with 10 minutes of margin, 5 of backdating,
and 15 seconds against 27):

- `CertificateAlwaysHonoured`, `AlwaysStopsForCause`, `AlwaysRetriedSoon`: the invariants
  `CertificateHonoured`, `StopsForCause` and `RetriedSoon`;
- `RowsNeverOlder`: the action property `NeverOlder`.

The inductive invariant `IInv` adds `CertInv` (the certificate had the margin left when
the turn began and has aged by at most the timeouts of the requests before this place)
and `LateInv` (a request is abandoned only until the end of the wait that follows, so
that no report is sent while an older one may still be handled).

The helper (`PrivilegeHelper`), for any helpers, clients, slots and faults that satisfy
`HelperAssumption` (there is a slot, `None` is no helper):

- `SocketTellsHelper`, `HelperContainsHandlers`: the invariants `PathTellsHelper` and
  `HandlersContained`.

`PathTellsHelper` speaks of helpers that listen, and is not inductive: what counts when a
helper removes a socket is that between its bind and this removal the path has its socket,
listening or not. That is `PathInv`. `HandlersInv` adds that the handlers are finitely many
and that an accepted connection knows its helper.

The controller process (`ControllerProcess`), for any requests:

- `ReturnAlwaysTrue`: the invariant `ReturnIsTrue`.

Its inductive invariant `ControllerInv` has four parts besides the types. `PlaceInv`: before
`select` no goroutine runs and nothing was shut down, at `select` nothing was received.
`ServeInv`: an open listener belongs to a goroutine that has not ended, but for the local one
while the remote one is being opened. `ValueInv`: what is in `errCh` and what was received are
together as many values as goroutines have ended, a failure is among them, and no `Serve` ends
well before a `Shutdown`. `ShutInv`: a server whose `Shutdown` returned without an error has no
request, and gets none. When as many values were received as there are servers, every goroutine
has therefore ended, with its listener closed, `errCh` is empty, and an outcome without an error
means that none failed and that no request is left. `ReturnIsTrue` alone is not inductive: it says
nothing of the states before the return.

Only model-checked:

- the liveness properties (`EveryJobFinishes`, `PendingSettles`, `EnrollmentRecovers`,
  `ShutdownEnds`, `ServesAgain`, `StopEnds`): fairness and `ENABLED` are out of reach of the
  prover;
- `NumbersTrue` and `UsageOfWindow` of `TelemetrySample`. Both compare sums over a sequence
  that the code accumulates in a loop (the interfaces of `/proc/net/dev`, the columns of
  `/proc/stat`) with the sums they should be. The loops are `FoldLeft`, and what a fold
  computes for every sequence takes an induction over data that none of the provers does.

## 5. Findings

`daemon_stops`. The repository's README says that the daemon "Reconnects with
bounded exponential backoff on transient errors (1s to 30s cap)". A connection
that breaks after the status line of a 200 answer to a heartbeat, while the body
with the assignment is read, is reported by `sendHeartbeat` as a permanent failure
(`presence.go:557`), and the loop ends the daemon. The same error before the status
line is transient. The dispatched job is then requeued when its lease runs out;
only the daemon's end needs outside help.

Four more comments say more than the code does. The models have these behaviours, and
the properties say what does hold:

- `transport.go:152`, on `ValidateAndPersistCAFile`: an existing `controller-ca.pem` is
  verified to have matching contents. The file is looked for once and renamed into place
  later (`transport.go:186` and `:235`); of two enroll commands at the same time on one host
  that both saw no file, the second replaces the file of the first (`RenameCA`).
- `jobs.go:735`, in `ClaimNextAgentJob`: the lock of the agent row is there "to guarantee
  strict FIFO dispatch ordering". `created_at`, by which the claim orders, is the start of
  a transaction, so that a creation that waited for a lock can commit a job that is older
  than one already dispatched: over the whole life of two jobs the order is not strict, and
  no property says so. What the lock does guarantee is `DispatchesOldest`, at the moment of
  a dispatch; `AnsweredFirstServedFirst` is the order an operator can rely on.
- `jobs.go:662`, on `ListJobEvents`: events are "ordered chronologically". They are ordered
  by the start of their transactions, so that two that waited for one row may be listed
  in the other order than they took effect. `ExecutionListedInOrder` says which events
  that cannot happen to.
- `server.go:202`, in `cleanupSocket`: "SameFile check prevents unlinking a replacement
  socket object". The comparison and the removal are two calls (`server.go:203` and
  `:207`), and the socket of a replacement can be there in between, but only after somebody
  removed a socket that was in use: otherwise the replacement could not have bound the
  path (`PathTellsHelper`).

A logout of a session that a concurrent login prunes may deadlock with it in the database
(section 2, `OperatorSessions`). PostgreSQL ends one of the two and nothing is lost but the
request.

## 6. What is not modelled

Syntax and formatting: the checks of names, keys, tokens, URLs, UUIDs and JSON bodies,
and the formatting of answers and log lines; configuration and command lines, whose
outcome is a choice in `ControllerProcess`. They are pure functions of one text.

The collection of the inventory: host name, `os-release`, kernel release and memory size,
each read and parsed once, without state. In `AgentReports` it succeeds or fails. Likewise
the tokenising of files under `/proc` and the parsing of decimal fractions: in
`TelemetrySample` a field is a number or malformed.

Password hashing, TLS and the signing of certificates: cryptography is the outcome of its
check.

`TransportCheck` (`transport.go`), one request of an administrator's command that changes
nothing. The daemon hardening, one-shot checks of kernel state. The migration library,
which runs the SQL files in order before anything else starts.

Assumed, and outside the models: a machine is not suspended in the middle of a turn longer
than the refresh margin (the code reads a monotonic clock for waits and the wall clock for
the certificate); the file system does not reuse an inode while the helper that bound it
cleans up; a rename survives a loss of power.

What could be proved next: the parts of `NumbersTrue` that are about one file system and the
memory, which take arithmetic modulo the word size and no induction.
