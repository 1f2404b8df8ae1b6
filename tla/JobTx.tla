------------------------------- MODULE JobTx -------------------------------
(***************************************************************************)
(* The transactions of internal/database/jobs.go as they overlap.  JobStore *)
(* takes each of them as one step; here a transaction begins, waits for row *)
(* locks, reads what is committed when it has them (READ COMMITTED), and    *)
(* commits, so that its locks, and not an assumption, keep it apart from    *)
(* the others.                                                              *)
(*                                                                          *)
(* Time.  created_at and occurred_at default to now(), which is the start   *)
(* of the transaction: the place of its BEGIN among all others.  Leases and *)
(* deadlines are compared with clock_timestamp(); a row in flight is        *)
(* expired or not; in_flight_at is the latest BEGIN when it was put in      *)
(* flight.                                                                  *)
(*                                                                          *)
(* Job j is the j-th one committed.  Writes become visible at the commit    *)
(* and are made there.                                                      *)
(***************************************************************************)
EXTENDS Job, Sequences, FiniteSets

CONSTANTS
    Agents, Operators, Keys,
    Procs,      \* the connections of the pool
    MaxJobs,    \* bound: jobs ever created
    MaxBegins,  \* bound: transactions ever begun
    None

\* Operators, agents and jobs are the rows of three tables.
ASSUME TxAssumption ==
    /\ MaxJobs \in Nat
    /\ MaxBegins \in Nat
    /\ None \notin Procs \cup Operators \cup Agents \cup (1..MaxJobs)
    /\ Operators \cap Agents = {}
    /\ (Operators \cup Agents) \cap (1..MaxJobs) = {}

VARIABLES
    jobs,       \* stackpilot.jobs, committed
    history,    \* stackpilot.job_events by job, in the order of the commits
    begins,     \* the transactions begun so far: now() of the latest one
    lock,       \* the transaction that holds a row FOR UPDATE
    tx          \* the transactions

vars == <<jobs, history, begins, lock, tx>>

Jobs == 1..MaxJobs
Rows == Operators \cup Agents \cup Jobs

NoRow ==
    [agent |-> None, operator |-> None, key |-> None, state |-> "absent",
     attempt |-> 0, created_at |-> 0, expired |-> FALSE, in_flight_at |-> 0, after |-> {}]

\* after: history, the jobs that were committed when the creation began.
NoTx ==
    [op |-> None, pc |-> "idle", start |-> 0, after |-> {}, agent |-> None,
     operator |-> None, key |-> None, job |-> None, attempt |-> 0, expired |-> None]

Init ==
    /\ jobs = [j \in Jobs |-> NoRow]
    /\ history = [j \in Jobs |-> <<>>]
    /\ begins = 0
    /\ lock = [r \in Rows |-> None]
    /\ tx = [t \in Procs |-> NoTx]

At(t, op, pc) == tx[t].op = op /\ tx[t].pc = pc

Exists(j) == jobs[j].state # "absent"

Committed == {j \in Jobs : Exists(j)}

ActiveJobs(a) == {j \in Jobs : jobs[j].agent = a /\ jobs[j].state \in Active}

KeyOf(o, k) == {j \in Jobs : jobs[j].operator = o /\ jobs[j].key = k}

\* Where dispatch_expires_at or execution_deadline_at <= clock_timestamp().
Expired(j) == jobs[j].state \in InFlight /\ jobs[j].expired

ExpiredOf(a) == {j \in Jobs : jobs[j].agent = a /\ Expired(j)}

-----------------------------------------------------------------------------
(* Begin, lock, commit, roll back *)

Begin(t, fields) ==
    /\ begins < MaxBegins
    /\ begins' = begins + 1
    /\ tx' = [tx EXCEPT ![t] =
                [fields EXCEPT !.pc = "begun", !.start = begins + 1]]
    /\ UNCHANGED <<jobs, history, lock>>

Acquire(t, rows) ==
    /\ \A r \in rows : lock[r] \in {None, t}
    /\ lock' = [r \in Rows |-> IF r \in rows THEN t ELSE lock[r]]

Move(t, fields) == tx' = [tx EXCEPT ![t] = fields] /\ UNCHANGED <<jobs, history, begins>>

Release(t) ==
    /\ lock' = [r \in Rows |-> IF lock[r] = t THEN None ELSE lock[r]]
    /\ tx' = [tx EXCEPT ![t] = NoTx]
    /\ UNCHANGED begins

\* An error, a timeout, the answer of a conflict: nothing is written.
Rollback(t) ==
    /\ tx[t].pc # "idle"
    /\ Release(t)
    /\ UNCHANGED <<jobs, history>>

Event(t, type) == [type |-> type, occurred_at |-> tx[t].start]

-----------------------------------------------------------------------------
(* CreateJob *)

BeginCreate(t, o, k, a) ==
    /\ tx[t].pc = "idle"
    /\ Begin(t, [NoTx EXCEPT !.op = "create", !.operator = o, !.key = k, !.agent = a,
                              !.after = Committed])

\* Fault: the expired jobs of the agent are locked on the way.
LockOperator_Reconciles(t) ==
    LET o == tx[t].operator IN
    /\ At(t, "create", "begun")
    /\ Acquire(t, {o} \cup ExpiredOf(tx[t].agent))
    /\ IF KeyOf(o, tx[t].key) = {}
       THEN Move(t, [tx[t] EXCEPT !.pc = "new"])
       ELSE Move(t, [tx[t] EXCEPT !.pc = "replay"])

\* Lock the operator, then look for a job with the key.
LockOperator(t) ==
    LET o == tx[t].operator IN
    /\ At(t, "create", "begun")
    /\ Acquire(t, {o})
    /\ IF KeyOf(o, tx[t].key) = {}
       THEN Move(t, [tx[t] EXCEPT !.pc = "new"])
       ELSE Move(t, [tx[t] EXCEPT !.pc = "replay"])

\* The replay locks the job it answers with, and commits nothing.
ReplayJob(t) ==
    /\ At(t, "create", "replay")
    /\ \A j \in KeyOf(tx[t].operator, tx[t].key) : lock[j] = None
    /\ Release(t)
    /\ UNCHANGED <<jobs, history>>

\* Fault: the jobs of the agent are counted before its row is locked.
LockAgentAndCount_Unlocked(t) ==
    LET a == tx[t].agent IN
    /\ At(t, "create", "new")
    /\ Cardinality(ActiveJobs(a)) < MaxActiveJobsPerAgent
    /\ Move(t, [tx[t] EXCEPT !.pc = "counted"])
    /\ UNCHANGED lock

\* Lock the agent, then count; a full queue leads to a rollback.
LockAgentAndCount(t) ==
    LET a == tx[t].agent IN
    /\ At(t, "create", "new")
    /\ Acquire(t, {a})
    /\ Cardinality(ActiveJobs(a)) < MaxActiveJobsPerAgent
    /\ Move(t, [tx[t] EXCEPT !.pc = "counted"])

InsertJob(t) ==
    /\ At(t, "create", "counted")
    /\ \E j \in Jobs :
        /\ ~Exists(j) /\ \A i \in Jobs : i < j => Exists(i)
        /\ jobs' = [jobs EXCEPT ![j] =
                        [NoRow EXCEPT !.agent = tx[t].agent, !.operator = tx[t].operator,
                                      !.key = tx[t].key, !.state = "queued",
                                      !.created_at = tx[t].start, !.after = tx[t].after]]
        /\ history' = [history EXCEPT ![j] = <<Event(t, "job.created")>>]
    /\ Release(t)

-----------------------------------------------------------------------------
(* Reconciliation, shared by the reads and the claim *)

Requeues(j) == jobs[j].state = "dispatched" /\ jobs[j].attempt < MaxDispatchAttempts

Reconciled(j) ==
    [jobs[j] EXCEPT
        !.expired = FALSE,
        !.in_flight_at = 0,
        !.state = IF Requeues(j) THEN "queued"
                  ELSE IF @ = "dispatched" THEN "failed" ELSE "unknown"]

ReconcileEvent(t, j) ==
    Event(t, IF Requeues(j) THEN "job.requeued"
             ELSE IF jobs[j].state = "dispatched" THEN "job.failed" ELSE "job.unknown")

\* The committed rows with what t has reconciled: what t itself reads.
RowsSeen(t) ==
    [j \in Jobs |-> IF tx[t].expired = j THEN Reconciled(j) ELSE jobs[j]]

HistorySeen(t) ==
    [j \in Jobs |-> IF tx[t].expired = j THEN Append(history[j], ReconcileEvent(t, j))
                                         ELSE history[j]]

CommitReconciled(t) ==
    /\ jobs' = RowsSeen(t)
    /\ history' = HistorySeen(t)
    /\ Release(t)

\* Lock the expired row of the agent FOR UPDATE, waiting for it.  An agent has
\* one job in flight, so that there is at most one.
LockExpired(t) ==
    /\ Acquire(t, ExpiredOf(tx[t].agent))
    /\ \E x \in ExpiredOf(tx[t].agent) \cup {None} :
        /\ x = None => ExpiredOf(tx[t].agent) = {}
        /\ Move(t, [tx[t] EXCEPT !.pc = "reconciled", !.expired = x])

BeginListAgent(t, a) ==
    /\ tx[t].pc = "idle"
    /\ Begin(t, [NoTx EXCEPT !.op = "list", !.agent = a])

ListAgentJobs(t) ==
    \/ At(t, "list", "begun") /\ LockExpired(t)
    \/ At(t, "list", "reconciled") /\ CommitReconciled(t)

BeginListAll(t) == tx[t].pc = "idle" /\ Begin(t, [NoTx EXCEPT !.op = "listall"])

\* Without a filter, SKIP LOCKED: it takes an expired row that is free, or none.
ListJobs(t) ==
    \/ /\ At(t, "listall", "begun")
       /\ \E x \in {j \in Jobs : Expired(j) /\ lock[j] = None} \cup {None} :
            /\ Acquire(t, {x} \ {None})
            /\ Move(t, [tx[t] EXCEPT !.pc = "reconciled", !.expired = x])
    \/ At(t, "listall", "reconciled") /\ CommitReconciled(t)

BeginGet(t, j) ==
    /\ tx[t].pc = "idle"
    /\ Exists(j)
    /\ Begin(t, [NoTx EXCEPT !.op = "get", !.job = j])

\* Lock the row, then read the clock.
GetJobByID(t) ==
    LET j == tx[t].job IN
    \/ /\ At(t, "get", "begun")
       /\ Acquire(t, {j})
       /\ Move(t, [tx[t] EXCEPT !.pc = "reconciled",
                                !.expired = IF Expired(j) THEN j ELSE None])
    \/ At(t, "get", "reconciled") /\ CommitReconciled(t)

-----------------------------------------------------------------------------
(* ClaimNextAgentJob *)

\* RecordAgentHeartbeat, a transaction of its own, sees that there is work.
RecordAgentHeartbeat(t, a) ==
    /\ tx[t].pc = "idle"
    /\ ActiveJobs(a) # {}
    /\ Move(t, [NoTx EXCEPT !.op = "claim", !.pc = "hint", !.agent = a])
    /\ UNCHANGED lock

BeginClaim(t) == At(t, "claim", "hint") /\ Begin(t, tx[t])

\* Fault: the claim does not lock the agent.
LockAgent_Unlocked(t) ==
    /\ At(t, "claim", "begun")
    /\ Move(t, [tx[t] EXCEPT !.pc = "locked"])
    /\ UNCHANGED lock

LockAgent(t) ==
    /\ At(t, "claim", "begun")
    /\ Acquire(t, {tx[t].agent})
    /\ Move(t, [tx[t] EXCEPT !.pc = "locked"])

ReconcileAgent(t) == At(t, "claim", "locked") /\ LockExpired(t)

HasInFlight(t) ==
    \E j \in Jobs : RowsSeen(t)[j].agent = tx[t].agent /\ RowsSeen(t)[j].state \in InFlight

\* Fault: the jobs are claimed in the order of their last requeue.
Oldest_FewestAttempts(t) ==
    LET queued == {j \in Jobs : RowsSeen(t)[j].agent = tx[t].agent
                                /\ RowsSeen(t)[j].state = "queued"}
    IN  {j \in queued : \A i \in queued :
            \/ jobs[j].attempt < jobs[i].attempt
            \/ jobs[j].attempt = jobs[i].attempt /\ jobs[j].created_at <= jobs[i].created_at}

\* ORDER BY created_at ASC, id ASC LIMIT 1, at most one element.
Oldest(t) ==
    LET queued == {j \in Jobs : RowsSeen(t)[j].agent = tx[t].agent
                                /\ RowsSeen(t)[j].state = "queued"}
    IN  {j \in queued : \A i \in queued : jobs[j].created_at <= jobs[i].created_at}

ClaimNothing(t) ==
    /\ At(t, "claim", "reconciled")
    /\ HasInFlight(t) \/ Oldest(t) = {}
    /\ CommitReconciled(t)

LockOldest(t) ==
    /\ At(t, "claim", "reconciled")
    /\ ~HasInFlight(t)
    /\ \E j \in Oldest(t) :
        /\ Acquire(t, {j})
        /\ Move(t, [tx[t] EXCEPT !.pc = "claimed", !.job = j])

ClaimJob(t) ==
    LET j == tx[t].job IN
    /\ At(t, "claim", "claimed")
    /\ jobs' = [RowsSeen(t) EXCEPT ![j].state = "dispatched", ![j].attempt = @ + 1,
                                ![j].in_flight_at = begins]
    /\ history' = [HistorySeen(t) EXCEPT ![j] = Append(@, Event(t, "job.dispatched"))]
    /\ Release(t)

-----------------------------------------------------------------------------
(* StartAgentJob, CompleteAgentJob *)

\* An agent starts a job whose dispatch, and completes one whose start, it was
\* told of, hence one that was committed.
BeginStart(t, j) ==
    /\ tx[t].pc = "idle"
    /\ jobs[j].state = "dispatched"
    /\ Begin(t, [NoTx EXCEPT !.op = "start", !.job = j, !.attempt = jobs[j].attempt])

BeginComplete(t, j) ==
    /\ tx[t].pc = "idle"
    /\ jobs[j].state = "running"
    /\ Begin(t, [NoTx EXCEPT !.op = "complete", !.job = j, !.attempt = jobs[j].attempt])

\* Fault: the row is read without FOR UPDATE.
LockJob_Unlocked(t, op, state) ==
    /\ At(t, op, "begun")
    /\ jobs[tx[t].job].state = state
    /\ jobs[tx[t].job].attempt = tx[t].attempt
    /\ Move(t, [tx[t] EXCEPT !.pc = "locked",
                             !.expired = IF Expired(tx[t].job) THEN tx[t].job ELSE None])
    /\ UNCHANGED lock

\* Fault: the attempt is not compared.
LockJob_AnyAttempt(t, op, state) ==
    /\ At(t, op, "begun")
    /\ Acquire(t, {tx[t].job})
    /\ jobs[tx[t].job].state = state
    /\ Move(t, [tx[t] EXCEPT !.pc = "locked",
                             !.expired = IF Expired(tx[t].job) THEN tx[t].job ELSE None])

\* Lock the row, compare it with the request, then read the clock.
LockJob(t, op, state) ==
    /\ At(t, op, "begun")
    /\ Acquire(t, {tx[t].job})
    /\ jobs[tx[t].job].state = state
    /\ jobs[tx[t].job].attempt = tx[t].attempt
    /\ Move(t, [tx[t] EXCEPT !.pc = "locked",
                             !.expired = IF Expired(tx[t].job) THEN tx[t].job ELSE None])

Advance(t, j, state, type) ==
    /\ jobs' = [jobs EXCEPT ![j].state = state, ![j].expired = FALSE,
                            ![j].in_flight_at = IF state = "running" THEN begins ELSE 0]
    /\ history' = [history EXCEPT ![j] = Append(@, Event(t, type))]
    /\ Release(t)

\* A start after the lease is a conflict: a rollback.
StartAgentJob(t) ==
    \/ LockJob(t, "start", "dispatched")
    \/ /\ At(t, "start", "locked")
       /\ tx[t].expired = None
       /\ Advance(t, tx[t].job, "running", "job.started")

\* A completion after the deadline commits the unknown state.
CompleteAgentJob(t) ==
    \/ LockJob(t, "complete", "running")
    \/ /\ At(t, "complete", "locked")
       /\ tx[t].expired # None
       /\ CommitReconciled(t)
    \/ /\ At(t, "complete", "locked")
       /\ tx[t].expired = None
       /\ \/ Advance(t, tx[t].job, "succeeded", "job.succeeded")
          \/ Advance(t, tx[t].job, "failed", "job.failed")

-----------------------------------------------------------------------------
\* A lease (30 s) or a deadline (60 s) is reached.  Every handler gives its
\* transactions 5 s, so that the ones that were open when it was set are over.
Expire(j) ==
    /\ jobs[j].state \in InFlight
    /\ ~jobs[j].expired
    /\ \A t \in Procs : tx[t].start # 0 => tx[t].start > jobs[j].in_flight_at
    /\ jobs' = [jobs EXCEPT ![j].expired = TRUE]
    /\ UNCHANGED <<history, begins, lock, tx>>

Arrive(t) ==
    \/ \E o \in Operators, k \in Keys, a \in Agents : BeginCreate(t, o, k, a)
    \/ \E a \in Agents : BeginListAgent(t, a) \/ RecordAgentHeartbeat(t, a)
    \/ BeginListAll(t)
    \/ \E j \in Jobs : BeginGet(t, j) \/ BeginStart(t, j) \/ BeginComplete(t, j)

Proceed(t) ==
    \/ LockOperator(t) \/ ReplayJob(t) \/ LockAgentAndCount(t) \/ InsertJob(t)
    \/ ListAgentJobs(t) \/ ListJobs(t) \/ GetJobByID(t)
    \/ BeginClaim(t) \/ LockAgent(t) \/ ReconcileAgent(t)
    \/ ClaimNothing(t) \/ LockOldest(t) \/ ClaimJob(t)
    \/ StartAgentJob(t) \/ CompleteAgentJob(t)

\* The bound on transactions is used up.
Done ==
    /\ begins = MaxBegins
    /\ \A t \in Procs : tx[t].pc = "idle"
    /\ UNCHANGED vars

Next ==
    \/ \E t \in Procs : Arrive(t) \/ Proceed(t) \/ Rollback(t)
    \/ \E j \in Jobs : Expire(j)
    \/ Done

Spec == Init /\ [][Next]_vars

-----------------------------------------------------------------------------
(* Properties *)

\* The row a transaction asks for next, FOR UPDATE and without SKIP LOCKED.
Wanted(t) ==
    CASE At(t, "create", "begun")     -> {tx[t].operator}
      [] At(t, "create", "replay")    -> KeyOf(tx[t].operator, tx[t].key)
      [] At(t, "create", "new")       -> {tx[t].agent}
      [] At(t, "claim", "begun")      -> {tx[t].agent}
      [] At(t, "claim", "locked")     -> ExpiredOf(tx[t].agent)
      [] At(t, "claim", "reconciled") -> IF HasInFlight(t) THEN {} ELSE Oldest(t)
      [] At(t, "list", "begun")       -> ExpiredOf(tx[t].agent)
      [] tx[t].op \in {"get", "start", "complete"} /\ tx[t].pc = "begun" -> {tx[t].job}
      [] OTHER -> {}

WaitsFor(t, S) == \E r \in Wanted(t) : lock[r] \in S \ {t}

\* No transactions of the store ever wait for each other in a circle, whatever
\* rows they share: creations lock operator, then job or agent, claims lock the
\* agent, then jobs, reads one job.  PostgreSQL never has to abort one of them.
NoDeadlock == \A S \in (SUBSET Procs) \ {{}} : \E t \in S : ~WaitsFor(t, S)

\* Creations that overlap keep the queue bound and the meaning of a key: CreateJob
\* counts after it has locked the agent and inserts before it lets the agent go, and
\* of two with one key the first locks the operator, so that the second finds its job.
\* Requeues never push an agent over the bound.
CreationsSerialized ==
    /\ \A a \in Agents : Cardinality(ActiveJobs(a)) <= MaxActiveJobsPerAgent
    /\ \A o \in Operators, k \in Keys : Cardinality(KeyOf(o, k)) <= 1

\* "Target Agent row lock serializes claim operations per agent to guarantee strict
\* FIFO dispatch ordering" (ClaimNextAgentJob), over all dispatches, those after a requeue
\* included: when the claim of a job commits, every job of the agent that is older and
\* committed by then is over.  The claim chose it some steps before; since then no
\* creation that had waited has put an older job in front of it.
DispatchesOldest ==
    [][\A i, j \in Jobs :
        /\ jobs'[j].attempt # jobs[j].attempt
        /\ jobs'[i].state # "absent"
        /\ jobs'[i].agent = jobs'[j].agent
        /\ jobs'[i].created_at < jobs'[j].created_at
        => jobs'[i].state \in Terminal]_vars

\* created_at, by which ClaimNextAgentJob orders, is the start of a transaction that may
\* have waited, so that a job can be older than one already dispatched.  What an
\* operator can rely on: a job whose creation was answered before another one was
\* asked for is dispatched first.  No job of the agent is dispatched, even
\* once, while one is unfinished that was committed before its creation began.
AnsweredFirstServedFirst ==
    \A j \in Jobs : jobs[j].attempt > 0 =>
        \A i \in jobs[j].after : jobs[i].agent = jobs[j].agent => jobs[i].state \in Terminal

\* ListJobEvents orders by occurred_at, the start of a transaction that may have
\* waited.  Still it lists a start and a success after everything that led to them:
\* an agent only reports on an attempt whose dispatch it was told of, and a report on
\* an attempt that is over is refused.
ExecutionListedInOrder ==
    \A j \in Jobs : \A m, n \in DOMAIN history[j] :
        m < n /\ history[j][n].type \in {"job.started", "job.succeeded"}
            => history[j][m].occurred_at < history[j][n].occurred_at

Lifecycle ==
    INSTANCE JobLifecycle WITH
        state   <- [j \in Jobs |-> jobs[j].state],
        attempt <- [j \in Jobs |-> jobs[j].attempt],
        owner   <- [j \in Jobs |-> jobs[j].agent]

\* Transactions that overlap, decide after they have their locks and commit later
\* still move every job along ValidateTransition, with one job in flight per agent
\* and the attempts bounded: the row locks are enough for what JobStore assumes.
TxImplementsLifecycle == Lifecycle!Spec
=============================================================================
