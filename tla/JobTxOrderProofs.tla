-------------------------- MODULE JobTxOrderProofs --------------------------
(***************************************************************************)
(* What follows from the invariant of JobTxProofs: no deadlock, the        *)
(* lifecycle, the order of the queue and of the history, and the limits    *)
(* that creations keep.                                                    *)
(***************************************************************************)
EXTENDS JobTxProofs

\* Zenon first, and its time; a leaf that is not for it names SMT.
USE ZenonT(60), SMTT(30)

\* The entries of a history are entries.
LEMMA HistoryEntries == \A h \in Seq(Entry) : \A m \in DOMAIN h : h[m] \in Entry
  BY SMTT(30)

-----------------------------------------------------------------------------
(* No deadlock *)

\* How far a transaction that waits is from one that does not.  A claim that has
\* reconciled waits for a job of its own agent, others for any job.
Level(t) ==
    IF At(t, "create", "begun") THEN 4
    ELSE IF At(t, "create", "new") \/ At(t, "claim", "begun") THEN 3
    ELSE IF \/ At(t, "create", "replay") \/ At(t, "claim", "locked") \/ At(t, "list", "begun")
            \/ tx[t].op \in {"get", "start", "complete"} /\ tx[t].pc = "begun" THEN 2
    ELSE IF At(t, "claim", "reconciled") THEN 1 ELSE 0

\* What kind of row a transaction of each level asks for.
LEMMA WantedRows ==
    ASSUME TxInv, NEW t \in Procs, NEW r \in Wanted(t)
    PROVE  \/ Level(t) = 4 /\ r \in Operators
           \/ Level(t) = 3 /\ r \in Agents
           \/ Level(t) = 2 /\ r \in Jobs
           \/ Level(t) = 1 /\ r \in Oldest(t)
<1>0. GoodTx(tx[t])
  BY DEF TxInv, Typed
<1>1. CASE At(t, "create", "begun")
  <2>1. Wanted(t) = {tx[t].operator} /\ Level(t) = 4
    BY <1>1 DEF Wanted, Level, At
  <2> QED BY <1>0, <1>1, <2>1 DEF At, GoodTx, Resting, Creating, Claiming, Listing, Reading,
                                  Reporting
<1>2. CASE At(t, "create", "new") \/ At(t, "claim", "begun")
  <2>1. Wanted(t) = {tx[t].agent} /\ Level(t) = 3
    BY <1>2 DEF Wanted, Level, At
  <2> QED BY <1>0, <1>2, <2>1 DEF At, GoodTx, Resting, Creating, Claiming, Listing, Reading,
                                  Reporting
<1>3. CASE At(t, "create", "replay")
  <2>1. Wanted(t) = KeyOf(tx[t].operator, tx[t].key) /\ Level(t) = 2
    BY <1>3 DEF Wanted, Level, At
  <2> QED BY <2>1 DEF KeyOf
<1>4. CASE At(t, "claim", "locked") \/ At(t, "list", "begun")
  <2>1. Wanted(t) = ExpiredOf(tx[t].agent) /\ Level(t) = 2
    BY <1>4 DEF Wanted, Level, At
  <2> QED BY <2>1 DEF ExpiredOf
<1>5. CASE tx[t].op \in {"get", "start", "complete"} /\ tx[t].pc = "begun"
  <2>1. Wanted(t) = {tx[t].job} /\ Level(t) = 2
    BY <1>5 DEF Wanted, Level, At
  <2> QED BY <1>0, <1>5, <2>1 DEF GoodTx, Resting, Creating, Claiming, Listing, Reading, Reporting
<1>6. CASE At(t, "claim", "reconciled")
  <2>1. Wanted(t) = (IF HasInFlight(t) THEN {} ELSE Oldest(t)) /\ Level(t) = 1
    BY <1>6 DEF Wanted, Level, At
  <2> QED BY <2>1
<1> QED BY <1>1, <1>2, <1>3, <1>4, <1>5, <1>6 DEF Wanted

\* Where a transaction is that holds a row of each kind.
LEMMA HeldRows ==
    ASSUME TxInv, NEW u \in Procs, NEW r, Holds(tx[u], r)
    PROVE  /\ r \in Operators => Level(u) < 4
           /\ r \in Agents => Level(u) < 3
           /\ r \in Jobs => Level(u) < 2
           /\ r \in Jobs /\ Level(u) = 1 => r = tx[u].expired
<1>0. GoodTx(tx[u]) /\ Knows(u)
  BY DEF TxInv, Typed
<1>1. Creating(tx[u]) => tx[u].operator \notin Agents \cup Jobs /\ tx[u].agent \notin Operators \cup Jobs
  BY TxAssumption DEF Creating, Jobs
<1>2. Claiming(tx[u]) => tx[u].agent \notin Operators \cup Jobs
  BY TxAssumption DEF Claiming, Jobs
<1>3. \A j \in Jobs \cup {None} : j \notin Operators \cup Agents
  BY TxAssumption DEF Jobs
<1>4. tx[u].expired \in Jobs \cup {None} /\ tx[u].job \in Jobs \cup {None}
  BY <1>0 DEF GoodTx, Tx
<1>5. CASE Creating(tx[u])
  BY SMTT(30), <1>1, <1>5 DEF Holds, Level, At, Creating, Claiming, Listing, Reading, Reporting
<1>6. CASE Claiming(tx[u])
  BY SMTT(30), <1>2, <1>3, <1>4, <1>6, TxAssumption
     DEF Holds, Level, At, Creating, Claiming, Listing, Reading, Reporting, Jobs
<1>7. CASE Listing(tx[u])
  BY SMTT(30), <1>3, <1>4, <1>7, TxAssumption
     DEF Holds, Level, At, Creating, Claiming, Listing, Reading, Reporting, Jobs
<1>8. CASE Reading(tx[u]) \/ Reporting(tx[u])
  BY SMTT(30), <1>3, <1>4, <1>8 DEF Holds, Level, At, Creating, Claiming, Listing, Reading, Reporting
<1> QED BY <1>5, <1>6, <1>7, <1>8 DEF Holds

\* A transaction that holds what another one waits for is closer to its end.
LEMMA HolderIsFurther ==
    ASSUME TxInv, NEW t \in Procs, NEW r \in Wanted(t), NEW u \in Procs \ {t}, lock[r] = u
    PROVE  Level(u) < Level(t)
<1>1. r \in Rows
  BY WantedRows DEF Rows, Oldest
<1>2. Holds(tx[u], r)
  BY <1>1 DEF TxInv, Locks
<1>3. Level(t) \in 0..4 /\ Level(u) \in 0..4
  BY SMTT(30) DEF Level
<1>4. CASE Level(t) = 1 /\ r \in Oldest(t)
  <2>1. At(t, "claim", "reconciled") /\ Claiming(tx[t]) /\ Holds(tx[t], tx[t].agent)
    BY SMTT(30), <1>4 DEF Level, At, TxInv, Typed, GoodTx, Resting, Creating, Claiming, Listing, Reading,
                Reporting, Holds
  <2>2. r \in Jobs /\ RowsSeen(t)[r].agent = tx[t].agent
    BY <1>4 DEF Oldest
  <2>3. jobs[r].agent = tx[t].agent
    <3>1. CASE tx[t].expired # r
      BY <2>2, <3>1, SeenRows
    <3>2. CASE tx[t].expired = r
      BY SMTT(30), <2>2, <3>2, SeenRows, ReconciledRow DEF TxInv, SameJob
    <3> QED BY <3>1, <3>2
  <2> SUFFICES ASSUME Level(u) = 1 PROVE FALSE
    BY SMTT(30), <1>2, <1>3, <1>4, <2>2, HeldRows
  <2>4. At(u, "claim", "reconciled") /\ Holds(tx[u], tx[u].agent) /\ tx[u].agent \in Rows
    BY SMTT(30) DEF Level, At, TxInv, Typed, GoodTx, Resting, Creating, Claiming, Listing, Reading,
           Reporting, Holds, Rows
  <2>5. r = tx[u].expired
    BY <1>2, <2>2, HeldRows
  <2>6. jobs[r].agent = tx[u].agent
    <3>1. Knows(u) /\ tx[u].expired # None /\ tx[u].op = "claim"
      BY <2>2, <2>4, <2>5, TxAssumption DEF TxInv, At, Jobs
    <3> QED BY <2>5, <3>1 DEF Knows
  <2> QED BY <2>1, <2>3, <2>4, <2>6, OnlyHolder DEF TxInv
<1>5. CASE Level(t) # 1
  BY <1>2, <1>3, <1>5, WantedRows, HeldRows
<1> QED BY SMTT(30), <1>4, <1>5, WantedRows

\* Whatever rows they share, the transactions of the store never wait for each other
\* in a circle: a circle would lead from every transaction in it to one of a lower
\* level, and there are five.
THEOREM NeverDeadlocked == Spec => []NoDeadlock
<1>1. TxInv => NoDeadlock
  <2> SUFFICES ASSUME TxInv, NEW S \in SUBSET Procs, NEW s \in S,
                      \A t \in S : WaitsFor(t, S)
               PROVE  FALSE
    BY DEF NoDeadlock
  <2>1. \A t \in S : Level(t) \in 0..4
    BY SMTT(30) DEF Level
  <2>2. \A t \in S : \E u \in S : Level(u) < Level(t)
    BY HolderIsFurther DEF WaitsFor
  <2>3. \A t \in S : Level(t) >= 1
    BY SMTT(30), <2>1, <2>2
  <2>4. \A t \in S : Level(t) >= 2
    BY SMTT(30), <2>1, <2>2, <2>3
  <2>5. \A t \in S : Level(t) >= 3
    BY SMTT(30), <2>1, <2>2, <2>4
  <2>6. \A t \in S : Level(t) >= 4
    BY SMTT(30), <2>1, <2>2, <2>5
  <2> QED BY SMTT(30), <2>1, <2>2, <2>6
<1> QED BY <1>1, TxInvariance, PTL

-----------------------------------------------------------------------------
(* The lifecycle *)

\* A job whose state does not change, though its lease or its deadline may be reached.
Unmoved(j) ==
    /\ SameJob(jobs[j], jobs'[j])
    /\ jobs'[j].state = jobs[j].state /\ jobs'[j].attempt = jobs[j].attempt
    /\ history'[j] = history[j]

\* What a step of the store can do to a job.
LEMMA JobSteps ==
    ASSUME TxInv, [Next]_vars, NEW j \in Jobs
    PROVE  \/ Unmoved(j)
           \/ \E t \in Procs :
                \/ Inserts(t, j)
                \/ Writes(t) /\ (ReconciledBy(t, j) \/ DispatchedBy(t, j) \/ ReportedBy(t, j))
<1>1. Kept(j) => Unmoved(j)
  BY DEF Kept, Unmoved, SameJob
<1>2. CASE \E t \in Procs : Arrive(t) \/ BeginClaim(t)
  BY <1>1, <1>2, ArriveGoes DEF TxInv, Arrived, Kept
<1>3. CASE \E t \in Procs : LocksMore(t)
  BY <1>1, <1>3, LocksMoreGoes DEF Reads, Kept
<1>4. CASE \E t \in Procs : GivesUp(t)
  BY <1>1, <1>4 DEF GivesUp, Kept
<1>5. CASE Tables /\ \E t \in Procs, i \in Jobs : Inserts(t, i)
  BY <1>1, <1>5 DEF Inserts
<1>6. CASE Tables /\ \E t \in Procs : Writes(t)
  BY <1>1, <1>6 DEF Writes
<1>7. CASE \E i \in Jobs : Expire(i)
  <2>1. PICK i \in Jobs : Expire(i)
    BY <1>7
  <2>2. history' = history
    BY <2>1 DEF Expire
  <2> QED BY <2>1, <2>2, ExpireOwn DEF Unmoved
<1>8. CASE UNCHANGED vars
  BY <1>1, <1>8 DEF vars, Kept
<1> QED BY <1>2, <1>3, <1>4, <1>5, <1>6, <1>7, <1>8, Kinds

\* What JobLifecycle allows to happen to one job, said of its row.
Follows(row, new) ==
    \/ new.state = row.state /\ new.attempt = row.attempt /\ new.agent = row.agent
    \/ /\ row.state = "absent" /\ new.state = "queued"
       /\ new.attempt = 0
       /\ new.agent \in Agents
    \/ /\ ValidateTransition(row.state, new.state)
       /\ new.attempt = IF new.state = "dispatched" THEN row.attempt + 1 ELSE row.attempt
       /\ new.state = "queued" => row.attempt < MaxDispatchAttempts
       /\ row.state = "dispatched" /\ new.state = "failed" => row.attempt = MaxDispatchAttempts
       /\ new.agent = row.agent
    \/ /\ row.state = "dispatched" /\ new.state = "dispatched"
       /\ new.attempt = row.attempt + 1
       /\ new.agent = row.agent

LEMMA StepFollows ==
    ASSUME TxInv, [Next]_vars, NEW j \in Jobs
    PROVE  Follows(jobs[j], jobs'[j])
<1>0. GoodRow(jobs[j]) /\ jobs[j].attempt \in Nat
  BY DEF TxInv, Typed, GoodRow, Row
<1>1. CASE Unmoved(j)
  BY <1>1 DEF Unmoved, SameJob, Follows
<1>2. ASSUME NEW t \in Procs, Inserts(t, j) PROVE Follows(jobs[j], jobs'[j])
  <2>1. tx[t].agent \in Agents
    BY <1>2 DEF Inserts, At, TxInv, Typed, GoodTx, Resting, Creating, Claiming, Listing, Reading,
                Reporting
  <2> QED BY <1>2, <2>1 DEF Inserts, Exists, Follows
<1>3. ASSUME NEW t \in Procs, ReconciledBy(t, j) PROVE Follows(jobs[j], jobs'[j])
  <2>1. CASE Requeues(j) /\ jobs'[j].state = "queued"
    BY <1>3, <2>1 DEF ReconciledBy, SameJob, Follows, ValidateTransition, Requeues
  <2>2. CASE jobs[j].state = "dispatched" /\ ~Requeues(j) /\ jobs'[j].state = "failed"
    <3>1. jobs[j].attempt = MaxDispatchAttempts
      BY <1>0, <2>2, JobAssumption, NatOrder DEF Requeues, GoodRow
    <3> QED BY <1>3, <2>2, <3>1 DEF ReconciledBy, SameJob, Follows, ValidateTransition
  <2>3. CASE jobs[j].state = "running" /\ jobs'[j].state = "unknown"
    BY <1>3, <2>3 DEF ReconciledBy, SameJob, Follows, ValidateTransition
  <2> QED BY <1>3, <2>1, <2>2, <2>3 DEF ReconciledBy
<1>4. ASSUME NEW t \in Procs, DispatchedBy(t, j) PROVE Follows(jobs[j], jobs'[j])
  BY <1>4 DEF DispatchedBy, SameJob, Follows, ValidateTransition
<1>5. ASSUME NEW t \in Procs, ReportedBy(t, j) PROVE Follows(jobs[j], jobs'[j])
  BY <1>5 DEF ReportedBy, SameJob, Follows, ValidateTransition
<1> QED BY <1>1, <1>2, <1>3, <1>4, <1>5, JobSteps

\* Transactions that overlap, decide after they have their locks and commit later
\* move every job along ValidateTransition, within its attempts and with one job in
\* flight per agent: the row locks of jobs.go are enough.
THEOREM OverlapFollowsLifecycle == Spec => TxImplementsLifecycle
<1>1. Init => Lifecycle!Init
  BY SMTT(30) DEF Init, NoRow, Lifecycle!Init
<1>2. ASSUME TxInv, TxInv', [Next]_vars
      PROVE  Lifecycle!Next
  <2>1. \A j \in Jobs : \/ Lifecycle!Keep(j) \/ Lifecycle!Submit(j)
                        \/ Lifecycle!Transition(j) \/ Lifecycle!Redispatch(j)
    <3> SUFFICES ASSUME NEW j \in Jobs
                 PROVE  \/ Lifecycle!Keep(j) \/ Lifecycle!Submit(j)
                        \/ Lifecycle!Transition(j) \/ Lifecycle!Redispatch(j)
      OBVIOUS
    <3>1. Follows(jobs[j], jobs'[j])
      BY <1>2, StepFollows
    <3> QED BY <3>1 DEF Follows, Lifecycle!Keep, Lifecycle!Submit, Lifecycle!Transition,
                        Lifecycle!Redispatch, ValidateTransition, Lifecycle!ValidateTransition
  <2>2. Lifecycle!OneInFlight'
    BY <1>2 DEF TxInv, OneInFlight, Lifecycle!OneInFlight, InFlight, Lifecycle!InFlight
  <2>3. Lifecycle!Bounded'
    BY <1>2, JobAssumption DEF TxInv, Typed, GoodRow, Row, Lifecycle!Bounded
  <2> QED BY <2>1, <2>2, <2>3 DEF Lifecycle!Next
<1> QED BY <1>1, <1>2, TxInvariance, PTL DEF Spec, TxImplementsLifecycle, Lifecycle!Spec

-----------------------------------------------------------------------------
(* The order of the queue *)

\* A job that was committed when the creation of another began is older.
AnswerInv ==
    /\ \A t \in Procs :
        /\ tx[t].start <= begins
        /\ Creating(tx[t]) => \A i \in tx[t].after : Exists(i) /\ jobs[i].created_at < tx[t].start
    /\ \A j \in Jobs :
        /\ jobs[j].created_at <= begins
        /\ \A i \in jobs[j].after : Exists(i) /\ jobs[i].created_at < jobs[j].created_at
    /\ AnsweredFirstServedFirst

\* What a step can do to a transaction.
LEMMA TxSteps ==
    ASSUME TxInv, [Next]_vars, NEW t \in Procs
    PROVE  /\ begins' \in {begins, begins + 1}
           /\ \/ tx'[t] = tx[t]
              \/ tx'[t] = NoTx
              \/ LocksMore(t) /\ Reads(t)
              \/ Goes(t, {}) /\ Arrived(t)
<1>0. tx \in [Procs -> Tx] /\ Typed
  BY DEF TxInv, Typed
<1>1. ASSUME NEW u \in Procs, Release(u)
      PROVE  begins' = begins /\ (tx'[t] = tx[t] \/ tx'[t] = NoTx)
  BY <1>0, <1>1 DEF Release
<1>2. CASE \E u \in Procs : Arrive(u) \/ BeginClaim(u)
  <2>1. PICK u \in Procs : Goes(u, {}) /\ Arrived(u)
    BY <1>0, <1>2, ArriveGoes
  <2>2. begins' \in {begins, begins + 1}
    BY <2>1 DEF Arrived
  <2>3. CASE u = t
    BY <2>1, <2>2, <2>3
  <2>4. CASE u # t
    BY <1>0, <2>1, <2>2, <2>4 DEF Goes
  <2> QED BY <2>3, <2>4
<1>3. CASE \E u \in Procs : LocksMore(u)
  <2>1. PICK u \in Procs : LocksMore(u)
    BY <1>3
  <2>2. Reads(u) /\ \E rows : Goes(u, rows)
    BY <2>1, LocksMoreGoes
  <2>3. CASE u = t
    BY <2>1, <2>2, <2>3 DEF Reads
  <2>4. CASE u # t
    BY <1>0, <2>2, <2>4 DEF Goes, Reads
  <2> QED BY <2>3, <2>4
<1>4. CASE \E u \in Procs : GivesUp(u)
  BY <1>1, <1>4 DEF GivesUp
<1>5. CASE Tables /\ \E u \in Procs, j \in Jobs : Inserts(u, j)
  BY <1>1, <1>5 DEF Inserts
<1>6. CASE Tables /\ \E u \in Procs : Writes(u)
  BY <1>1, <1>6 DEF Writes
<1>7. CASE \E j \in Jobs : Expire(j)
  BY <1>7 DEF Expire
<1>8. CASE UNCHANGED vars
  BY <1>8 DEF vars
<1> QED BY <1>2, <1>3, <1>4, <1>5, <1>6, <1>7, <1>8, Kinds

\* No transaction begins after now.
LEMMA StartsStep ==
    ASSUME TxInv, [Next]_vars, NEW t \in Procs, tx[t].start <= begins
    PROVE  tx'[t].start <= begins'
<1>1. begins \in Nat /\ tx[t].start \in Nat /\ begins' \in {begins, begins + 1}
  BY TxSteps DEF TxInv, Typed, Tx
<1>2. CASE tx'[t] = tx[t]
  BY SMTT(30), <1>1, <1>2
<1>3. CASE tx'[t] = NoTx
  BY SMTT(30), <1>1, <1>3, NoTxGood
<1>4. CASE Reads(t)
  BY <1>1, <1>4 DEF Reads, Keeps
<1>5. CASE Arrived(t)
  BY SMTT(30), <1>1, <1>5 DEF Arrived
<1> QED BY <1>2, <1>3, <1>4, <1>5, TxSteps

\* A job that was committed stays so, with its creation, and once it is over it
\* stays over.
LEMMA JobsStay ==
    ASSUME TxInv, [Next]_vars, NEW j \in Jobs, Exists(j)
    PROVE  /\ SameJob(jobs[j], jobs'[j]) /\ jobs'[j].state # "absent"
           /\ jobs[j].state \in Terminal => jobs'[j].state = jobs[j].state
           /\ jobs[j].attempt \in Nat /\ jobs'[j].attempt \in {jobs[j].attempt, jobs[j].attempt + 1}
<1>1. jobs[j].attempt \in Nat
  BY DEF TxInv, Typed, Row
<1>2. CASE Unmoved(j)
  BY <1>1, <1>2 DEF Unmoved, Exists
<1>3. CASE \E t \in Procs : ReconciledBy(t, j)
  BY <1>1, <1>3 DEF ReconciledBy, Expired, InFlight, Terminal
<1>4. CASE \E t \in Procs : DispatchedBy(t, j) \/ ReportedBy(t, j)
  BY <1>1, <1>4 DEF DispatchedBy, ReportedBy, Terminal
<1> QED BY <1>2, <1>3, <1>4, JobSteps DEF Inserts

\* A job is dispatched when every older one of its agent is over.
LEMMA OlderAreOver ==
    ASSUME TxInv, NEW t \in Procs, Writes(t), NEW j \in Jobs, DispatchedBy(t, j),
           NEW i \in Jobs, Exists(i), jobs[i].agent = jobs[j].agent,
           jobs[i].created_at < jobs[j].created_at
    PROVE  jobs'[i].state \in Terminal
<1>1. At(t, "claim", "claimed") /\ tx[t].job = j
  BY DEF DispatchedBy
<1>2. jobs[j].agent = tx[t].agent
  BY <1>1, ClaimHolds
<1>3. j \in Oldest(t)
  BY <1>1 DEF TxInv, Knows
<1>4. jobs[i].state \in State /\ jobs[i].created_at \in Nat /\ jobs[j].created_at \in Nat
  BY DEF Exists, TxInv, Typed, Row
<1>5. ~(RowsSeen(t)[i].agent = tx[t].agent /\ RowsSeen(t)[i].state = "queued")
  <2>1. ~(jobs[j].created_at <= jobs[i].created_at)
    BY <1>4, NatOrder
  <2> QED BY <1>3, <2>1 DEF Oldest
<1>6. ~ReportedBy(t, i) /\ ~DispatchedBy(t, i)
  BY SMTT(30), <1>1, <1>4 DEF At, ReportedBy, Reporting, DispatchedBy
<1>7. CASE tx[t].expired # i
  <2>1. jobs[i].state # "queued"
    BY <1>2, <1>5, <1>7, SeenRows
  <2>2. jobs[i].state \notin InFlight
    BY <1>1, <1>2, <1>7, ClaimHolds
  <2>3. jobs'[i] = jobs[i]
    BY <1>6, <1>7 DEF Writes, Kept, ReconciledBy
  <2> QED BY <1>4, <2>1, <2>2, <2>3 DEF State, InFlight, Terminal
<1>8. CASE tx[t].expired = i
  <2>1. Expired(i) /\ RowsSeen(t)[i] = Reconciled(i)
    BY <1>8, SeenRows
  <2>2. ~Requeues(i)
    <3>1. Reconciled(i).agent = tx[t].agent
      BY <1>2, <2>1, ReconciledRow DEF TxInv, SameJob
    <3>2. Reconciled(i).state # "queued"
      BY <1>5, <2>1, <3>1
    <3> QED BY <2>1, <3>2, ReconciledRow DEF TxInv, Requeues
  <2>3. ReconciledBy(t, i)
    BY <1>6, <1>8 DEF Writes
  <2> QED BY <2>2, <2>3 DEF ReconciledBy, Terminal
<1> QED BY <1>7, <1>8

\* ClaimNextAgentJob dispatches a job only when every older one of the agent that is
\* committed by then is over, whatever creations, reads and reports overlap with it.
THEOREM AlwaysDispatchesOldest == Spec => DispatchesOldest
<1>1. ASSUME TxInv, [Next]_vars, NEW i \in Jobs, NEW j \in Jobs,
             jobs'[j].attempt # jobs[j].attempt, jobs'[i].state # "absent",
             jobs'[i].agent = jobs'[j].agent, jobs'[i].created_at < jobs'[j].created_at
      PROVE  jobs'[i].state \in Terminal
  <2>1. PICK t \in Procs : Writes(t) /\ DispatchedBy(t, j)
    <3>1. ~Exists(j) => jobs[j].attempt = 0
      BY <1>1 DEF Exists, TxInv, Typed, GoodRow, NoRow
    <3> QED BY <1>1, <3>1, JobSteps DEF Unmoved, Inserts, ReconciledBy, ReportedBy
  <2>2. SameJob(jobs[j], jobs'[j])
    BY <2>1 DEF DispatchedBy
  <2>3. Exists(i) /\ SameJob(jobs[i], jobs'[i])
    <3>1. Kept(i) \/ ReconciledBy(t, i) \/ DispatchedBy(t, i) \/ ReportedBy(t, i)
      BY <2>1 DEF Writes
    <3> QED BY <1>1, <3>1 DEF Kept, SameJob, ReconciledBy, DispatchedBy, ReportedBy, Exists,
                              Expired, InFlight
  <2> QED BY <1>1, <2>1, <2>2, <2>3, OlderAreOver DEF SameJob
<1>2. TxInv /\ [Next]_vars =>
        [\A i, j \in Jobs :
            /\ jobs'[j].attempt # jobs[j].attempt
            /\ jobs'[i].state # "absent"
            /\ jobs'[i].agent = jobs'[j].agent
            /\ jobs'[i].created_at < jobs'[j].created_at
            => jobs'[i].state \in Terminal]_vars
  BY <1>1
<1> QED BY <1>2, TxInvariance, PTL DEF Spec, DispatchesOldest

\* A transaction that takes another lock has begun.
LEMMA MovesOn == ASSUME NEW t \in Procs, LocksMore(t) PROVE tx[t].pc # "idle"
<1>1. CASE LockOperator(t) \/ LockAgentAndCount(t) \/ LockAgent(t)
  BY <1>1 DEF LockOperator, LockAgentAndCount, LockAgent, At
<1>2. CASE ReconcileAgent(t) \/ LockOldest(t)
  BY <1>2 DEF ReconcileAgent, LockOldest, At
<1>3. CASE LockJob(t, "start", "dispatched") \/ LockJob(t, "complete", "running")
  BY <1>3 DEF LockJob, At
<1> QED BY <1>1, <1>2, <1>3 DEF LocksMore, At

\* Every step keeps the order.
LEMMA AnswerStep == TxInv /\ AnswerInv /\ [Next]_vars => AnswerInv'
<1> SUFFICES ASSUME TxInv, AnswerInv, [Next]_vars PROVE AnswerInv'
  OBVIOUS
<1>0. /\ begins \in Nat /\ begins' \in Nat /\ begins <= begins'
      /\ \A t \in Procs : tx[t].start \in Nat /\ tx[t].start <= begins /\ tx[t].after \subseteq Jobs
      /\ \A j \in Jobs : jobs[j].created_at \in Nat /\ jobs[j].created_at <= begins
                         /\ jobs[j].after \subseteq Jobs
  <2>1. begins \in Nat /\ \A t \in Procs : begins' \in {begins, begins + 1}
    BY TxSteps DEF TxInv, Typed
  <2>2. begins' \in {begins, begins + 1}
    <3>1. CASE Procs = {}
      BY <3>1, Kinds DEF Expire, vars
    <3> QED BY <2>1, <3>1
  <2> QED BY SMTT(30), <2>1, <2>2 DEF TxInv, Typed, Tx, Row, AnswerInv
<1>1. ASSUME NEW i \in Jobs, Exists(i)
      PROVE  jobs'[i].state # "absent" /\ jobs'[i].created_at = jobs[i].created_at
  BY <1>1, JobsStay DEF SameJob
<1>2. ASSUME NEW t \in Procs, Creating(tx'[t]), NEW i \in tx'[t].after
      PROVE  jobs'[i].state # "absent" /\ jobs'[i].created_at < tx'[t].start
  <2>1. CASE tx'[t] = tx[t] \/ (LocksMore(t) /\ Reads(t))
    <3>1. /\ tx'[t].after = tx[t].after /\ tx'[t].start = tx[t].start
          /\ tx'[t].op = tx[t].op
      BY <2>1 DEF Reads, Keeps
    <3>2. Creating(tx[t])
      <4>1. tx[t].pc # "idle"
        BY <1>2, <2>1, MovesOn DEF Creating
      <4>2. tx[t].op = "create"
        BY <1>2, <3>1 DEF Creating
      <4>3. GoodTx(tx[t])
        BY DEF TxInv, Typed
      <4> QED BY <4>1, <4>2, <4>3 DEF GoodTx, Resting, Creating, Claiming, Listing, Reading,
                                      Reporting
    <3>3. i \in Jobs /\ Exists(i) /\ jobs[i].created_at < tx[t].start
      BY <1>0, <1>2, <3>1, <3>2 DEF AnswerInv
    <3> QED BY <1>1, <3>1, <3>3
  <2>2. CASE tx'[t] = NoTx
    <3>1. NoTx.pc = "idle"
      BY DEF NoTx
    <3> QED BY <1>2, <2>2, <3>1 DEF Creating
  <2>3. CASE Arrived(t)
    <3>1. tx'[t].after = Committed /\ tx'[t].start = begins + 1
      BY <1>2, <2>3 DEF Arrived, Creating
    <3>2. i \in Jobs /\ Exists(i)
      BY <1>2, <3>1 DEF Committed
    <3>3. jobs[i].created_at < begins + 1
      BY <1>0, <3>2, NatNext
    <3> QED BY <1>1, <3>1, <3>2, <3>3
  <2> QED BY <2>1, <2>2, <2>3, TxSteps
<1>3. ASSUME NEW j \in Jobs
      PROVE  /\ jobs'[j].created_at <= begins'
             /\ \A i \in jobs'[j].after :
                    jobs'[i].state # "absent" /\ jobs'[i].created_at < jobs'[j].created_at
  <2>1. CASE SameJob(jobs[j], jobs'[j])
    <3>1. jobs'[j].created_at = jobs[j].created_at /\ jobs'[j].after = jobs[j].after
      BY <2>1 DEF SameJob
    <3>2. \A i \in jobs[j].after : i \in Jobs /\ Exists(i) /\ jobs[i].created_at < jobs[j].created_at
      BY <1>0 DEF AnswerInv
    <3>3. jobs[j].created_at <= begins'
      BY SMTT(30), <1>0
    <3> QED BY <1>1, <3>1, <3>2, <3>3
  <2>2. ASSUME NEW t \in Procs, Inserts(t, j)
        PROVE  /\ jobs'[j].created_at <= begins'
               /\ \A i \in jobs'[j].after :
                    jobs'[i].state # "absent" /\ jobs'[i].created_at < jobs'[j].created_at
    <3>1. /\ jobs'[j].created_at = tx[t].start /\ jobs'[j].after = tx[t].after
          /\ Creating(tx[t])
      BY <2>2 DEF Inserts, At, TxInv, Typed, GoodTx, Resting, Creating, Claiming, Listing,
                  Reading, Reporting
    <3>2. \A i \in tx[t].after : i \in Jobs /\ Exists(i) /\ jobs[i].created_at < tx[t].start
      BY <1>0, <3>1 DEF AnswerInv
    <3>3. tx[t].start <= begins'
      BY SMTT(30), <1>0
    <3> QED BY <1>1, <3>1, <3>2, <3>3
  <2> QED BY <2>1, <2>2, JobSteps DEF Unmoved, ReconciledBy, DispatchedBy, ReportedBy
<1>4. ASSUME NEW j \in Jobs, jobs'[j].attempt > 0, NEW i \in jobs'[j].after,
             jobs'[i].agent = jobs'[j].agent
      PROVE  jobs'[i].state \in Terminal
  <2>1. \A t \in Procs : ~Inserts(t, j)
    BY <1>4, NatNext DEF Inserts
  <2>2. SameJob(jobs[j], jobs'[j])
    BY <2>1, JobSteps DEF Unmoved, ReconciledBy, DispatchedBy, ReportedBy
  <2>3. i \in Jobs /\ Exists(i) /\ jobs[i].created_at < jobs[j].created_at
    BY <1>0, <1>4, <2>2 DEF AnswerInv, SameJob
  <2>4. jobs[i].agent = jobs[j].agent
    BY <1>4, <2>2, <2>3, JobsStay DEF SameJob
  <2>5. CASE jobs[j].attempt > 0
    <3>1. jobs[i].state \in Terminal
      BY <1>4, <2>2, <2>4, <2>5 DEF AnswerInv, AnsweredFirstServedFirst, SameJob
    <3> QED BY <2>3, <3>1, JobsStay
  <2>6. CASE ~(jobs[j].attempt > 0)
    <3>1. PICK t \in Procs : Writes(t) /\ DispatchedBy(t, j)
      BY <1>4, <2>1, <2>6, JobSteps DEF Unmoved, ReconciledBy, ReportedBy
    <3> QED BY <2>3, <2>4, <3>1, OlderAreOver
  <2> QED BY <2>5, <2>6
<1>5. \A t \in Procs : tx'[t].start <= begins'
  BY <1>0, StartsStep
<1>6. AnsweredFirstServedFirst'
  BY <1>4 DEF AnsweredFirstServedFirst
<1> QED BY <1>2, <1>3, <1>5, <1>6 DEF AnswerInv, Exists

\* A job whose creation was answered before that of another job of the agent was
\* asked for is dispatched first, and is over before the other one is dispatched.
THEOREM AlwaysAnsweredFirstServedFirst == Spec => []AnsweredFirstServedFirst
<1>1. Init => AnswerInv
  <2> SUFFICES ASSUME Init PROVE AnswerInv
    OBVIOUS
  <2>1. \A j \in Jobs : jobs[j].created_at = 0 /\ jobs[j].after = {} /\ jobs[j].attempt = 0
    BY DEF Init, NoRow
  <2>2. \A t \in Procs : tx[t].start = 0 /\ tx[t].op = None /\ tx[t].after = {}
    BY DEF Init, NoTx
  <2> QED BY SMTT(30), <2>1, <2>2 DEF Init, AnswerInv, AnsweredFirstServedFirst
<1>2. AnswerInv => AnsweredFirstServedFirst
  BY DEF AnswerInv
<1> QED BY <1>1, <1>2, AnswerStep, TxInvariance, PTL DEF Spec

-----------------------------------------------------------------------------
(* The order of the listing *)

Before(h, n) == \A m \in DOMAIN h : h[m].occurred_at < n

\* A report that will be accepted began after everything its job has gone through.
ReportLater(t) ==
    /\ Reporting(tx[t]) /\ tx[t].op = "start" =>
        /\ tx[t].attempt <= jobs[tx[t].job].attempt
        /\ tx[t].pc = "locked" => tx[t].attempt = jobs[tx[t].job].attempt
        /\ jobs[tx[t].job].attempt = tx[t].attempt /\ jobs[tx[t].job].state = "dispatched"
            => Before(history[tx[t].job], tx[t].start)
    /\ Reporting(tx[t]) /\ tx[t].op = "complete" =>
        /\ jobs[tx[t].job].state \in {"running"} \cup Terminal
        /\ jobs[tx[t].job].state = "running" => Before(history[tx[t].job], tx[t].start)

Ordered(h) ==
    \A m, n \in DOMAIN h :
        m < n /\ h[n].type \in {"job.started", "job.succeeded"}
            => h[m].occurred_at < h[n].occurred_at

ListingInv ==
    /\ \A t \in Procs : tx[t].start <= begins /\ ReportLater(t)
    /\ \A j \in Jobs : Ordered(history[j]) /\ Before(history[j], begins + 1)

\* What an appended entry does to the order of a history.
LEMMA AppendOrdered ==
    ASSUME NEW h \in Seq(Entry), NEW e \in Entry, Ordered(h),
           e.type \in Executions => Before(h, e.occurred_at)
    PROVE  Ordered(Append(h, e))
<1> DEFINE g == Append(h, e)
<1>1. /\ Len(h) \in Nat /\ DOMAIN h = 1..Len(h) /\ DOMAIN g = 1..(Len(h) + 1)
      /\ g[Len(h) + 1] = e /\ \A m \in 1..Len(h) : g[m] = h[m]
  BY SMTT(30)
<1> HIDE DEF g
<1>2. ASSUME NEW m \in DOMAIN g, NEW n \in DOMAIN g, m < n,
             g[n].type \in {"job.started", "job.succeeded"}
      PROVE  g[m].occurred_at < g[n].occurred_at
  <2>1. m \in 1..Len(h) /\ g[m] = h[m]
    BY SMTT(30), <1>1, <1>2
  <2>2. CASE n = Len(h) + 1
    BY <1>1, <1>2, <2>1, <2>2 DEF Executions, Before
  <2>3. CASE n \in 1..Len(h)
    <3>1. g[n] = h[n]
      BY <1>1, <2>3
    <3> QED BY <1>1, <1>2, <2>1, <2>3, <3>1 DEF Ordered
  <2> QED BY SMTT(30), <1>1, <2>2, <2>3
<1>3. Ordered(g)
  BY <1>2 DEF Ordered
<1> QED BY <1>3 DEF g

LEMMA AppendBefore ==
    ASSUME NEW h \in Seq(Entry), NEW e \in Entry, NEW k, Before(h, k), e.occurred_at < k
    PROVE  Before(Append(h, e), k)
<1> DEFINE g == Append(h, e)
<1>1. /\ Len(h) \in Nat /\ DOMAIN h = 1..Len(h) /\ DOMAIN g = 1..(Len(h) + 1)
      /\ g[Len(h) + 1] = e /\ \A m \in 1..Len(h) : g[m] = h[m]
  BY SMTT(30)
<1> HIDE DEF g
<1>2. Before(g, k)
  BY SMTT(30), <1>1 DEF Before
<1> QED BY <1>2 DEF g

\* Both, for an event of a transaction.
LEMMA AppendEvent ==
    ASSUME Typed, NEW t \in Procs, tx[t].start <= begins, NEW type \in EventType,
           NEW h \in Seq(Entry), Ordered(h), Before(h, begins + 1),
           type \in Executions => Before(h, tx[t].start)
    PROVE  /\ Append(h, Event(t, type)) \in Seq(Entry)
           /\ Ordered(Append(h, Event(t, type)))
           /\ Before(Append(h, Event(t, type)), begins + 1)
<1>1. /\ Event(t, type) \in Entry
      /\ Event(t, type).type = type /\ Event(t, type).occurred_at = tx[t].start
  BY EventEntry
<1>2. tx[t].start < begins + 1
  <2>1. tx[t].start \in Nat /\ begins \in Nat
    BY DEF Typed, Tx
  <2> QED BY <2>1, NatNext
<1> HIDE DEF Event
<1>3. Ordered(Append(h, Event(t, type)))
  BY <1>1, AppendOrdered
<1>4. Before(Append(h, Event(t, type)), begins + 1)
  BY <1>1, <1>2, AppendBefore
<1> QED BY SMTT(30), <1>1, <1>3, <1>4

\* What a step adds to a history.
LEMMA HistoryStep ==
    ASSUME TxInv, ListingInv, [Next]_vars, NEW j \in Jobs
    PROVE  Ordered(history'[j]) /\ Before(history'[j], begins + 1)
<1>0. /\ Typed /\ history[j] \in Seq(Entry) /\ Ordered(history[j])
      /\ Before(history[j], begins + 1) /\ \A t \in Procs : tx[t].start <= begins
  BY DEF TxInv, Typed, ListingInv
<1>1. CASE Unmoved(j)
  BY <1>0, <1>1 DEF Unmoved
<1>2. ASSUME NEW t \in Procs, Inserts(t, j)
      PROVE  Ordered(history'[j]) /\ Before(history'[j], begins + 1)
  <2>1. /\ history'[j] = <<Event(t, "job.created")>>
        /\ Event(t, "job.created").occurred_at = tx[t].start
    BY <1>2 DEF Inserts, Event
  <2>2. tx[t].start < begins + 1
    BY SMTT(30), <1>0 DEF Typed, Tx
  <2> HIDE DEF Event
  <2>3. /\ DOMAIN history'[j] = {1} /\ history'[j][1] = Event(t, "job.created")
    BY SMTT(30), <2>1
  <2>4. Ordered(history'[j])
    BY SMTT(30), <2>3 DEF Ordered
  <2> QED BY <2>1, <2>2, <2>3, <2>4 DEF Before
<1>3. ASSUME NEW t \in Procs, ReconciledBy(t, j)
      PROVE  Ordered(history'[j]) /\ Before(history'[j], begins + 1)
  <2>1. PICK type \in EventType \ Executions : history'[j] = Append(history[j], Event(t, type))
    BY <1>3 DEF ReconciledBy
  <2> QED BY <1>0, <2>1, AppendEvent
<1>4. ASSUME NEW t \in Procs, DispatchedBy(t, j)
      PROVE  Ordered(history'[j]) /\ Before(history'[j], begins + 1)
  <2> DEFINE g == Append(history[j], Event(t, "job.requeued"))
  <2>0. /\ "job.requeued" \in EventType \ Executions /\ "job.dispatched" \in EventType \ Executions
    BY DEF EventType, Executions
  <2>1. g \in Seq(Entry) /\ Ordered(g) /\ Before(g, begins + 1)
    BY <1>0, <2>0, AppendEvent
  <2>2. \/ history'[j] = Append(history[j], Event(t, "job.dispatched"))
        \/ history'[j] = Append(g, Event(t, "job.dispatched"))
    BY <1>4 DEF DispatchedBy
  <2> HIDE DEF g
  <2>3. CASE history'[j] = Append(history[j], Event(t, "job.dispatched"))
    BY <1>0, <2>0, <2>3, AppendEvent
  <2>4. CASE history'[j] = Append(g, Event(t, "job.dispatched"))
    BY <1>0, <2>0, <2>1, <2>4, AppendEvent
  <2> QED BY <2>2, <2>3, <2>4
<1>5. ASSUME NEW t \in Procs, ReportedBy(t, j)
      PROVE  Ordered(history'[j]) /\ Before(history'[j], begins + 1)
  <2>1. PICK type \in EventType : history'[j] = Append(history[j], Event(t, type))
    BY <1>5 DEF ReportedBy, EventType
  <2>2. Before(history[j], tx[t].start)
    BY <1>5 DEF ReportedBy, ListingInv, ReportLater
  <2> QED BY <1>0, <2>1, <2>2, AppendEvent
<1> QED BY <1>1, <1>2, <1>3, <1>4, <1>5, JobSteps

\* What a step of the others does to a report.
LEMMA ReportWaits ==
    ASSUME TxInv, ListingInv, [Next]_vars, NEW t \in Procs, tx'[t] = tx[t]
    PROVE  ReportLater(t)'
<1> SUFFICES ASSUME Reporting(tx[t])
             PROVE  ReportLater(t)'
  BY DEF ReportLater
<1> DEFINE j == tx[t].job
<1>1. j \in Jobs /\ Exists(j) /\ ReportLater(t)
  BY DEF TxInv, Knows, ListingInv, Reporting
<1>2. /\ jobs[j].attempt \in Nat /\ jobs'[j].attempt \in {jobs[j].attempt, jobs[j].attempt + 1}
      /\ tx[t].attempt \in Nat
  BY <1>1, JobsStay DEF TxInv, Typed, Tx
<1> HIDE DEF j
<1>3. \/ Unmoved(j)
      \/ \E u \in Procs : ReconciledBy(u, j) \/ DispatchedBy(u, j) \/ ReportedBy(u, j)
  BY <1>1, JobSteps DEF Inserts
<1>4. ASSUME tx[t].op = "start"
      PROVE  /\ tx[t].attempt <= jobs'[j].attempt
             /\ tx[t].pc = "locked" => tx[t].attempt = jobs'[j].attempt
             /\ jobs'[j].attempt = tx[t].attempt /\ jobs'[j].state = "dispatched"
                    => Before(history'[j], tx[t].start)
  <2>1. /\ tx[t].attempt <= jobs[j].attempt
        /\ tx[t].pc = "locked" => tx[t].attempt = jobs[j].attempt
        /\ jobs[j].attempt = tx[t].attempt /\ jobs[j].state = "dispatched"
                => Before(history[j], tx[t].start)
    BY <1>1, <1>4 DEF ReportLater, j
  <2>2. CASE Unmoved(j)
    BY <2>1, <2>2 DEF Unmoved
  <2>3. CASE \E u \in Procs : ReconciledBy(u, j) \/ ReportedBy(u, j)
    BY <2>1, <2>3 DEF ReconciledBy, ReportedBy
  <2>4. ASSUME NEW u \in Procs, DispatchedBy(u, j)
        PROVE  /\ tx[t].attempt <= jobs'[j].attempt
               /\ tx[t].pc = "locked" => tx[t].attempt = jobs'[j].attempt
               /\ jobs'[j].attempt = tx[t].attempt /\ jobs'[j].state = "dispatched"
                    => Before(history'[j], tx[t].start)
    <3>1. jobs'[j].attempt = jobs[j].attempt + 1
      BY <2>4 DEF DispatchedBy
    <3>2. tx[t].pc # "locked"
      <4>1. SUFFICES ASSUME tx[t].pc = "locked" PROVE FALSE
        OBVIOUS
      <4>2. Holds(tx[t], j)
        BY <4>1 DEF Holds, j
      <4>3. tx[u].op = "claim" /\ tx[u].pc = "claimed" /\ tx[u].job = j /\ GoodTx(tx[u])
        BY <2>4 DEF DispatchedBy, At, TxInv, Typed
      <4>4. Claiming(tx[u])
        BY <4>3 DEF GoodTx, Resting, Creating, Claiming, Listing, Reading, Reporting
      <4>5. Holds(tx[u], j)
        BY <4>3, <4>4 DEF Holds
      <4>6. t = u
        BY <1>1, <4>2, <4>5, OnlyHolder DEF TxInv, Rows
      <4> QED BY <1>4, <4>3, <4>6
    <3>3. tx[t].attempt <= jobs[j].attempt + 1 /\ tx[t].attempt # jobs[j].attempt + 1
      BY <1>2, <2>1, NatNext
    <3> QED BY <3>1, <3>2, <3>3
  <2> QED BY <1>3, <2>2, <2>3, <2>4
<1>5. ASSUME tx[t].op = "complete"
      PROVE  /\ jobs'[j].state \in {"running"} \cup Terminal
             /\ jobs'[j].state = "running" => Before(history'[j], tx[t].start)
  <2>1. /\ jobs[j].state \in {"running"} \cup Terminal
        /\ jobs[j].state = "running" => Before(history[j], tx[t].start)
    BY <1>1, <1>5 DEF ReportLater, j
  <2>2. CASE Unmoved(j)
    BY <2>1, <2>2 DEF Unmoved
  <2>3. CASE \E u \in Procs : ReconciledBy(u, j) \/ DispatchedBy(u, j) \/ ReportedBy(u, j)
    BY <2>1, <2>3 DEF ReconciledBy, Requeues, DispatchedBy, ReportedBy, Terminal
  <2> QED BY <1>3, <2>2, <2>3
<1> QED BY <1>4, <1>5 DEF ReportLater, j

\* A report that begins, or that gets the lock on its job.
LEMMA ReportMoves ==
    ASSUME TxInv, ListingInv, [Next]_vars, NEW t \in Procs,
           (LocksMore(t) /\ Reads(t)) \/ (Goes(t, {}) /\ Arrived(t))
    PROVE  ReportLater(t)'
<1> SUFFICES ASSUME Reporting(tx'[t])
             PROVE  ReportLater(t)'
  BY DEF ReportLater
<1> DEFINE j == tx'[t].job
<1>1. j \in Jobs /\ history' = history /\ jobs' = jobs /\ tx'[t].op \in {"start", "complete"}
  BY DEF Reporting, Reads, Arrived
<1>2. CASE Goes(t, {}) /\ Arrived(t)
  <2>1. /\ tx'[t].pc = "begun" /\ tx'[t].start = begins + 1
        /\ tx'[t].op = "start" => jobs[j].state = "dispatched" /\ tx'[t].attempt = jobs[j].attempt
        /\ tx'[t].op = "complete" => jobs[j].state = "running"
    BY <1>1, <1>2 DEF Arrived
  <2>2. Before(history[j], begins + 1) /\ jobs[j].attempt \in Nat
    BY <1>1 DEF ListingInv, TxInv, Typed, Row
  <2> HIDE DEF j
  <2>3. /\ tx'[t].op = "start" =>
            /\ tx'[t].attempt <= jobs'[j].attempt
            /\ tx'[t].pc = "locked" => tx'[t].attempt = jobs'[j].attempt
            /\ Before(history'[j], tx'[t].start)
        /\ tx'[t].op = "complete" =>
            jobs'[j].state = "running" /\ Before(history'[j], tx'[t].start)
    BY <1>1, <2>1, <2>2, NatNext
  <2> QED BY <2>3 DEF ReportLater, j
<1>3. CASE LocksMore(t) /\ Reads(t)
  <2>1. /\ tx'[t].op = tx[t].op /\ tx'[t].start = tx[t].start /\ tx'[t].attempt = tx[t].attempt
        /\ tx[t].pc # "idle"
    BY <1>3, MovesOn DEF Reads, Keeps
  <2>2. Reporting(tx[t])
    <3>1. GoodTx(tx[t]) /\ tx[t].op \in {"start", "complete"}
      BY <1>1, <2>1 DEF TxInv, Typed
    <3> QED BY <2>1, <3>1 DEF GoodTx, Resting, Creating, Claiming, Listing, Reading, Reporting
  <2>3. LockJob(t, "start", "dispatched") \/ LockJob(t, "complete", "running")
    <3>0. tx[t].op \in {"start", "complete"}
      BY <1>1, <2>1
    <3>1. ~LockOperator(t) /\ ~LockAgentAndCount(t)
      BY <3>0 DEF LockOperator, LockAgentAndCount, At
    <3>2. ~LockAgent(t) /\ ~ReconcileAgent(t) /\ ~LockOldest(t)
      BY <3>0 DEF LockAgent, ReconcileAgent, LockOldest, At
    <3> QED BY <1>3, <3>0, <3>1, <3>2 DEF LocksMore, At
  <2>4. /\ tx'[t].job = tx[t].job
        /\ tx[t].op = "start" => jobs[tx[t].job].attempt = tx[t].attempt
    BY <2>3, LockJobGoes
  <2>5. ReportLater(t)
    BY DEF ListingInv
  <2>6. j = tx[t].job
    BY <2>4
  <2> HIDE DEF j
  <2>7. /\ tx'[t].op = "start" =>
            /\ tx'[t].attempt <= jobs'[j].attempt
            /\ tx'[t].pc = "locked" => tx'[t].attempt = jobs'[j].attempt
            /\ jobs'[j].attempt = tx'[t].attempt /\ jobs'[j].state = "dispatched"
                    => Before(history'[j], tx'[t].start)
        /\ tx'[t].op = "complete" =>
            /\ jobs'[j].state \in {"running"} \cup Terminal
            /\ jobs'[j].state = "running" => Before(history'[j], tx'[t].start)
    BY <1>1, <2>1, <2>2, <2>4, <2>5, <2>6 DEF ReportLater
  <2> QED BY <2>7 DEF ReportLater, j
<1> QED BY <1>2, <1>3

\* Every step keeps the order of the listing.
LEMMA ListingStep == TxInv /\ ListingInv /\ [Next]_vars => ListingInv'
<1> SUFFICES ASSUME TxInv, ListingInv, [Next]_vars PROVE ListingInv'
  OBVIOUS
<1>1. ASSUME NEW t \in Procs PROVE tx'[t].start <= begins' /\ ReportLater(t)'
  <2>1. tx'[t].start <= begins'
    BY StartsStep DEF ListingInv
  <2>2. CASE tx'[t] = NoTx
    <3>1. ~Reporting(tx'[t])
      BY SMTT(30), <2>2 DEF NoTx, Reporting
    <3> QED BY <2>1, <3>1 DEF ReportLater
  <2> QED BY <2>1, <2>2, TxSteps, ReportWaits, ReportMoves
<1>2. ASSUME NEW j \in Jobs
      PROVE  Ordered(history'[j]) /\ Before(history'[j], begins' + 1)
  <2>1. begins \in Nat /\ begins' \in {begins, begins + 1}
    <3>1. CASE Procs = {}
      BY <3>1, Kinds DEF Expire, vars, TxInv, Typed
    <3> QED BY <3>1, TxSteps DEF TxInv, Typed
  <2>2. Ordered(history'[j]) /\ Before(history'[j], begins + 1)
    BY <1>2, HistoryStep
  <2>3. history'[j] \in Seq(Entry)
    BY <1>2, TxInvStep DEF TxInv, Typed
  <2>4. \A m \in DOMAIN history'[j] : history'[j][m].occurred_at \in Nat
    <3>1. \A m \in DOMAIN history'[j] : history'[j][m] \in Entry
      BY <2>3, HistoryEntries
    <3> QED BY <3>1, EntryTime
  <2> QED BY SMTT(30), <2>1, <2>2, <2>4 DEF Before
<1> QED BY <1>1, <1>2 DEF ListingInv

\* ListJobEvents, which orders by occurred_at, lists a start and a success after
\* everything that led to them, though occurred_at is the start of a transaction
\* that may have waited.
THEOREM AlwaysListedInOrder == Spec => []ExecutionListedInOrder
<1>1. Init => ListingInv
  <2> SUFFICES ASSUME Init PROVE ListingInv
    OBVIOUS
  <2>1. \A j \in Jobs : history[j] = <<>>
    BY DEF Init
  <2>2. \A t \in Procs : tx[t].start = 0 /\ tx[t].pc = "idle"
    BY DEF Init, NoTx
  <2>3. begins = 0
    BY DEF Init
  <2> QED BY SMTT(30), <2>1, <2>2, <2>3 DEF ListingInv, ReportLater, Reporting, Ordered, Before
<1>2. ListingInv => ExecutionListedInOrder
  BY DEF ListingInv, Ordered, ExecutionListedInOrder
<1> QED BY <1>1, <1>2, ListingStep, TxInvariance, PTL DEF Spec

-----------------------------------------------------------------------------
(* Creations *)

\* A creation has found no job with its key, and room in the queue.
Creates(t) ==
    /\ At(t, "create", "new") \/ At(t, "create", "counted")
        => KeyOf(tx[t].operator, tx[t].key) = {}
    /\ At(t, "create", "counted")
        => Cardinality(ActiveJobs(tx[t].agent)) < MaxActiveJobsPerAgent

CreationInv ==
    /\ \A t \in Procs : Creates(t)
    /\ \A a \in Agents : Cardinality(ActiveJobs(a)) <= MaxActiveJobsPerAgent
    /\ \A o \in Operators, k \in Keys : \A i, j \in KeyOf(o, k) : i = j

\* What FiniteSets defines.  The library's theorems about finite sets slow down the
\* proofs of all that follows them; they are brought in at the end, and
\* speak of definitions that are equal to these.
FiniteOf(S) == \E seq \in Seq(S) : \A s \in S : \E n \in 1..Len(seq) : seq[n] = s

CountOf(S) ==
    LET CS[T \in SUBSET S] == IF T = {} THEN 0 ELSE 1 + CS[T \ {CHOOSE x : x \in T}]
    IN  CS[S]

LEMMA FiniteIs == \A S : IsFiniteSet(S) <=> FiniteOf(S)
  BY DEF IsFiniteSet, FiniteOf

LEMMA CountIs == \A S : Cardinality(S) = CountOf(S)
  BY DEF Cardinality, CountOf

\* What the counts need of finite sets.
SubsetsCount ==
    \A S : \A T \in SUBSET S : IsFiniteSet(S) =>
        IsFiniteSet(T) /\ Cardinality(T) \in Nat /\ Cardinality(T) <= Cardinality(S)

AddCounts ==
    \A S, x : IsFiniteSet(S) /\ x \notin S => Cardinality(S \cup {x}) = Cardinality(S) + 1

SmallCounts == Cardinality({}) = 0 /\ \A x : Cardinality({x}) = 1

SetsCount == IsFiniteSet(Jobs) /\ SubsetsCount /\ AddCounts /\ SmallCounts

\* How a step that inserts no job changes what a creation has counted.
LEMMA NoInsert ==
    ASSUME TxInv, [Next]_vars, \A t \in Procs, j \in Jobs : ~Inserts(t, j)
    PROVE  /\ \A a \in Agents : ActiveJobs(a)' \subseteq ActiveJobs(a)
           /\ \A o \in Operators, k \in Keys : KeyOf(o, k)' = KeyOf(o, k)
<1>1. ASSUME NEW j \in Jobs
      PROVE  /\ SameJob(jobs[j], jobs'[j])
             /\ jobs'[j].state \in Active => jobs[j].state \in Active
  <2>1. CASE Unmoved(j)
    BY <2>1 DEF Unmoved
  <2>2. CASE \E t \in Procs : ReconciledBy(t, j) \/ DispatchedBy(t, j) \/ ReportedBy(t, j)
    BY <2>2 DEF ReconciledBy, DispatchedBy, ReportedBy, Expired, Active, InFlight
  <2> QED BY <2>1, <2>2, JobSteps
<1> QED BY <1>1 DEF ActiveJobs, KeyOf, SameJob

\* How the insertion of a job does.
LEMMA OneInsert ==
    ASSUME TxInv, NEW t \in Procs, NEW j \in Jobs, Inserts(t, j),
           NEW b, b = tx[t].agent, NEW p, p = tx[t].operator, NEW q, q = tx[t].key
    PROVE  /\ b \in Agents /\ p \in Operators /\ q \in Keys
           /\ j \notin ActiveJobs(b) /\ ActiveJobs(b)' = ActiveJobs(b) \cup {j}
           /\ \A a \in Agents \ {b} : ActiveJobs(a)' = ActiveJobs(a)
           /\ KeyOf(p, q)' = KeyOf(p, q) \cup {j}
           /\ \A o \in Operators, k \in Keys : o # p \/ k # q => KeyOf(o, k)' = KeyOf(o, k)
<1>1. /\ jobs'[j].agent = b /\ jobs'[j].operator = p /\ jobs'[j].key = q
      /\ jobs'[j].state \in Active
      /\ \A i \in Jobs \ {j} : jobs'[i] = jobs[i]
  BY DEF Inserts, Kept, Active
<1>2. jobs[j] = NoRow
  BY DEF Inserts, Exists, TxInv, Typed, GoodRow
<1>3. jobs[j].state \notin Active /\ jobs[j].operator = None
  <2>1. NoRow.state = "absent" /\ NoRow.operator = None
    BY DEF NoRow
  <2>2. "absent" \notin Active
    BY DEF Active, InFlight
  <2> QED
    BY <1>2, <2>1, <2>2
<1>4. b \in Agents /\ p \in Operators /\ q \in Keys
  BY DEF Inserts, At, TxInv, Typed, GoodTx, Resting, Creating, Claiming, Listing, Reading, Reporting
<1>5. /\ j \notin ActiveJobs(b) /\ ActiveJobs(b)' = ActiveJobs(b) \cup {j}
      /\ \A a \in Agents \ {b} : ActiveJobs(a)' = ActiveJobs(a)
  BY <1>1, <1>3 DEF ActiveJobs
<1>6. /\ KeyOf(p, q)' = KeyOf(p, q) \cup {j}
      /\ \A o \in Operators, k \in Keys : o # p \/ k # q => KeyOf(o, k)' = KeyOf(o, k)
  BY <1>1, <1>3, <1>4, TxAssumption DEF KeyOf
<1> QED BY <1>4, <1>5, <1>6

LEMMA ActiveFinite ==
    ASSUME SetsCount, NEW a
    PROVE  IsFiniteSet(ActiveJobs(a)) /\ Cardinality(ActiveJobs(a)) \in Nat
<1>1. ActiveJobs(a) \in SUBSET Jobs
  BY DEF ActiveJobs
<1> QED BY <1>1 DEF SetsCount, SubsetsCount

\* A creation that is over, or has not counted, knows nothing.
LEMMA CreatesOnlyThere ==
    ASSUME NEW t \in Procs, tx'[t].op # "create" \/ tx'[t].pc \notin {"new", "counted"}
    PROVE  Creates(t)'
  BY DEF Creates, At

\* Where a transaction that does not insert is, after the step.
LEMMA CreationGoes ==
    ASSUME TxInv, [Next]_vars, NEW t \in Procs, tx'[t] # tx[t],
           tx'[t].op = "create", tx'[t].pc \in {"new", "counted"}
    PROVE  /\ UNCHANGED jobs /\ Keeps(tx[t], tx'[t])
           /\ \/ tx'[t].pc = "new" /\ KeyOf(tx[t].operator, tx[t].key) = {}
              \/ /\ tx'[t].pc = "counted" /\ At(t, "create", "new")
                 /\ Cardinality(ActiveJobs(tx[t].agent)) < MaxActiveJobsPerAgent
<1>0. tx \in [Procs -> Tx] /\ NoTx.pc = "idle" /\ Typed
  BY DEF TxInv, Typed, NoTx
<1>1. ASSUME NEW u \in Procs, \E rows : Goes(u, rows) PROVE u = t
  BY <1>0, <1>1 DEF Goes
<1>2. ASSUME NEW u \in Procs, Release(u) PROVE FALSE
  BY <1>0, <1>2 DEF Release
<1>3. CASE \E u \in Procs : Arrive(u) \/ BeginClaim(u)
  BY <1>0, <1>1, <1>3, ArriveGoes DEF Arrived
<1>4. CASE \E u \in Procs : LocksMore(u)
  <2>1. PICK u \in Procs : LocksMore(u)
    BY <1>4
  <2>2. u = t /\ Reads(t)
    BY <1>1, <2>1, LocksMoreGoes
  <2>3. UNCHANGED jobs /\ Keeps(tx[t], tx'[t]) /\ tx[t].op = "create"
    BY <2>2 DEF Reads, Keeps
  <2>4. LockOperator(t) \/ LockAgentAndCount(t)
    BY <2>1, <2>2, <2>3 DEF LocksMore, LockAgent, ReconcileAgent, LockOldest, LockJob, At
  <2>5. CASE LockOperator(t)
    BY <2>3, <2>5, LockOperatorGoes
  <2>6. CASE LockAgentAndCount(t)
    BY <2>3, <2>6, LockAgentAndCountGoes
  <2> QED BY <2>4, <2>5, <2>6
<1>5. CASE \E u \in Procs : GivesUp(u)
  BY <1>2, <1>5 DEF GivesUp
<1>6. CASE Tables /\ \E u \in Procs, j \in Jobs : Inserts(u, j)
  BY <1>2, <1>6 DEF Inserts
<1>7. CASE Tables /\ \E u \in Procs : Writes(u)
  BY <1>2, <1>7 DEF Writes
<1>8. CASE \E j \in Jobs : Expire(j)
  BY <1>8 DEF Expire
<1>9. CASE UNCHANGED vars
  BY <1>9 DEF vars
<1> QED BY <1>3, <1>4, <1>5, <1>6, <1>7, <1>8, <1>9, Kinds

\* Every step keeps what creations rely on.
LEMMA CreationStep ==
    ASSUME SetsCount PROVE TxInv /\ CreationInv /\ [Next]_vars => CreationInv'
<1> SUFFICES ASSUME TxInv, CreationInv, [Next]_vars PROVE CreationInv'
  OBVIOUS
<1>0. /\ \A u \in Procs : Creates(u)
      /\ \A a \in Agents : Cardinality(ActiveJobs(a)) <= MaxActiveJobsPerAgent
      /\ \A o \in Operators, k \in Keys : \A i, j \in KeyOf(o, k) : i = j
  BY DEF CreationInv
<1>1. ASSUME NEW u \in Procs, tx'[u] = tx[u], At(u, "create", "new") \/ At(u, "create", "counted")
      PROVE  /\ tx[u].operator \in Operators /\ tx[u].key \in Keys /\ tx[u].agent \in Agents
             /\ tx[u].operator \in Rows /\ Holds(tx[u], tx[u].operator)
             /\ At(u, "create", "counted") => tx[u].agent \in Rows /\ Holds(tx[u], tx[u].agent)
  BY <1>1 DEF At, TxInv, Typed, GoodTx, Resting, Creating, Claiming, Listing, Reading,
              Reporting, Holds, Rows
<1>2. ASSUME \A t \in Procs, j \in Jobs : ~Inserts(t, j) PROVE CreationInv'
  <2>1. /\ \A a \in Agents : ActiveJobs(a)' \subseteq ActiveJobs(a)
        /\ \A o \in Operators, k \in Keys : KeyOf(o, k)' = KeyOf(o, k)
    BY <1>2, NoInsert
  <2>2. \A a \in Agents : /\ Cardinality(ActiveJobs(a)') <= Cardinality(ActiveJobs(a))
                          /\ Cardinality(ActiveJobs(a)') \in Nat
    BY <2>1, ActiveFinite DEF SetsCount, SubsetsCount
  <2>3. \A a \in Agents : Cardinality(ActiveJobs(a)') <= MaxActiveJobsPerAgent
    BY <1>0, <2>2, ActiveFinite, JobAssumption, NatOrder
  <2>4. ASSUME NEW u \in Procs PROVE Creates(u)'
    <3>1. CASE tx'[u].op # "create" \/ tx'[u].pc \notin {"new", "counted"}
      BY <3>1, CreatesOnlyThere
    <3>2. CASE /\ tx'[u] = tx[u] /\ tx[u].op = "create" /\ tx[u].pc \in {"new", "counted"}
      <4>1. At(u, "create", "new") \/ At(u, "create", "counted")
        BY <3>2 DEF At
      <4>2. tx[u].operator \in Operators /\ tx[u].key \in Keys /\ tx[u].agent \in Agents
        BY <1>1, <3>2, <4>1
      <4>3. PICK o \in Operators, k \in Keys, a \in Agents :
              o = tx[u].operator /\ k = tx[u].key /\ a = tx[u].agent
        BY <4>2
      <4>4. KeyOf(o, k)' = {}
        BY <1>0, <2>1, <4>1, <4>3 DEF Creates
      <4>5. At(u, "create", "counted") => Cardinality(ActiveJobs(a)') < MaxActiveJobsPerAgent
        <5>1. At(u, "create", "counted") => Cardinality(ActiveJobs(a)) < MaxActiveJobsPerAgent
          BY <1>0, <4>3 DEF Creates
        <5> QED BY <2>2, <5>1, ActiveFinite, JobAssumption, NatOrder
      <4> QED BY <3>2, <4>3, <4>4, <4>5 DEF Creates, At, KeyOf, ActiveJobs
    <3>3. CASE /\ tx'[u] # tx[u] /\ tx'[u].op = "create" /\ tx'[u].pc \in {"new", "counted"}
      <4>1. /\ UNCHANGED jobs /\ Keeps(tx[u], tx'[u])
            /\ \/ tx'[u].pc = "new" /\ KeyOf(tx[u].operator, tx[u].key) = {}
               \/ /\ tx'[u].pc = "counted" /\ At(u, "create", "new")
                  /\ Cardinality(ActiveJobs(tx[u].agent)) < MaxActiveJobsPerAgent
        BY <3>3, CreationGoes
      <4>2. KeyOf(tx[u].operator, tx[u].key) = {}
        BY <1>0, <4>1 DEF Creates
      <4> QED BY <4>1, <4>2 DEF Creates, At, KeyOf, ActiveJobs, Keeps
    <3> QED BY <3>1, <3>2, <3>3
  <2>5. \A o \in Operators, k \in Keys : \A i, j \in KeyOf(o, k)' : i = j
    BY <1>0, <2>1
  <2> QED BY <2>3, <2>4, <2>5 DEF CreationInv
<1>3. ASSUME NEW t \in Procs, NEW j \in Jobs, Inserts(t, j) PROVE CreationInv'
  <2>0. PICK b, p, q : b = tx[t].agent /\ p = tx[t].operator /\ q = tx[t].key
    OBVIOUS
  <2>1. /\ b \in Agents /\ p \in Operators /\ q \in Keys
        /\ j \notin ActiveJobs(b) /\ ActiveJobs(b)' = ActiveJobs(b) \cup {j}
        /\ \A a \in Agents \ {b} : ActiveJobs(a)' = ActiveJobs(a)
        /\ KeyOf(p, q)' = KeyOf(p, q) \cup {j}
        /\ \A o \in Operators, k \in Keys : o # p \/ k # q => KeyOf(o, k)' = KeyOf(o, k)
    BY SMTT(30), <1>3, <2>0, OneInsert
  <2>2. At(t, "create", "counted") /\ Release(t)
    BY <1>3 DEF Inserts
  <2>3. KeyOf(p, q) = {} /\ Cardinality(ActiveJobs(b)) < MaxActiveJobsPerAgent
    BY <1>0, <2>0, <2>2 DEF Creates
  <2>4. Cardinality(ActiveJobs(b)') = Cardinality(ActiveJobs(b)) + 1
    BY <2>1, ActiveFinite DEF SetsCount, AddCounts
  <2>5. \A a \in Agents : Cardinality(ActiveJobs(a)') <= MaxActiveJobsPerAgent
    <3> SUFFICES ASSUME NEW a \in Agents
                 PROVE  Cardinality(ActiveJobs(a)') <= MaxActiveJobsPerAgent
      OBVIOUS
    <3>1. CASE a = b
      <4>1. Cardinality(ActiveJobs(b)) \in Nat
        BY ActiveFinite
      <4>2. Cardinality(ActiveJobs(b)) + 1 <= MaxActiveJobsPerAgent
        BY <2>3, <4>1, JobAssumption, NatOrder
      <4> QED BY <2>4, <3>1, <4>2
    <3>2. CASE a # b
      BY <1>0, <2>1, <3>2
    <3> QED BY <3>1, <3>2
  <2>6. \A o \in Operators, k \in Keys : \A i, m \in KeyOf(o, k)' : i = m
    BY SMTT(30), <1>0, <2>1, <2>3
  <2>7. tx'[t] = NoTx /\ \A u \in Procs \ {t} : tx'[u] = tx[u]
    BY <2>2, ReleaseKeepsLocks DEF TxInv
  <2>8. ASSUME NEW u \in Procs PROVE Creates(u)'
    <3>1. CASE tx'[u].op # "create" \/ tx'[u].pc \notin {"new", "counted"}
      BY <3>1, CreatesOnlyThere
    <3>2. CASE u = t
      <4>1. NoTx.pc = "idle"
        BY DEF NoTx
      <4> QED BY <2>7, <3>2, <4>1, CreatesOnlyThere
    <3>3. CASE u # t /\ tx[u].op = "create" /\ tx[u].pc \in {"new", "counted"}
      <4>0. tx'[u] = tx[u]
        BY <2>7, <3>3
      <4>1. At(u, "create", "new") \/ At(u, "create", "counted")
        BY <3>3 DEF At
      <4>2. /\ tx[u].operator \in Operators /\ tx[u].key \in Keys /\ tx[u].agent \in Agents
            /\ tx[u].operator \in Rows /\ Holds(tx[u], tx[u].operator)
            /\ At(u, "create", "counted") => tx[u].agent \in Rows /\ Holds(tx[u], tx[u].agent)
        BY <1>1, <4>0, <4>1
      <4>3. Holds(tx[t], tx[t].operator) /\ Holds(tx[t], tx[t].agent)
        BY <2>2 DEF At, TxInv, Typed, GoodTx, Resting, Creating, Claiming, Listing, Reading,
                    Reporting, Holds
      <4>4. tx[u].operator # p /\ (At(u, "create", "counted") => tx[u].agent # b)
        BY <2>0, <3>3, <4>2, <4>3, OnlyHolder DEF TxInv
      <4>5. PICK o \in Operators, k \in Keys, a \in Agents :
              o = tx[u].operator /\ k = tx[u].key /\ a = tx[u].agent
        BY <4>2
      <4>6. KeyOf(o, k)' = {}
        BY <1>0, <2>1, <4>1, <4>4, <4>5 DEF Creates
      <4>7. At(u, "create", "counted") => Cardinality(ActiveJobs(a)') < MaxActiveJobsPerAgent
        BY <1>0, <2>1, <4>4, <4>5 DEF Creates
      <4> QED BY <4>0, <4>5, <4>6, <4>7 DEF Creates, At, KeyOf, ActiveJobs
    <3> QED BY <2>7, <3>1, <3>2, <3>3
  <2> QED BY <2>5, <2>6, <2>8 DEF CreationInv
<1> QED BY <1>2, <1>3

LEMMA CreationInit ==
    ASSUME SetsCount, Init PROVE CreationInv
<1>1. \A j \in Jobs : jobs[j].state = "absent" /\ jobs[j].operator = None
  BY DEF Init, NoRow
<1>2. \A a \in Agents : ActiveJobs(a) = {}
  BY <1>1 DEF ActiveJobs, Active, InFlight
<1>3. \A o \in Operators, k \in Keys : KeyOf(o, k) = {}
  BY <1>1, TxAssumption DEF KeyOf
<1>4. \A t \in Procs : tx[t].pc = "idle"
  BY DEF Init, NoTx
<1>5. \A t \in Procs : Creates(t)
  BY <1>4 DEF Creates, At
<1> QED BY <1>2, <1>3, <1>5, JobAssumption, NatNext DEF CreationInv, SetsCount, SmallCounts

LEMMA CreationInvSerialized ==
    ASSUME SetsCount, CreationInv PROVE CreationsSerialized
<1> SUFFICES ASSUME NEW o \in Operators, NEW k \in Keys
             PROVE  Cardinality(KeyOf(o, k)) <= 1
  BY DEF CreationInv, CreationsSerialized
<1>1. \A i, j \in KeyOf(o, k) : i = j
  BY DEF CreationInv
<1>2. CASE KeyOf(o, k) = {}
  BY SMTT(30), <1>2 DEF SetsCount, SmallCounts
<1>3. CASE KeyOf(o, k) # {}
  <2>1. PICK i : KeyOf(o, k) = {i}
    BY <1>1, <1>3
  <2>2. Cardinality({i}) = 1
    BY DEF SetsCount, SmallCounts
  <2> QED BY SMTT(30), <2>1, <2>2
<1> QED BY <1>2, <1>3

LOCAL INSTANCE FiniteSetTheorems

LEMMA LibraryFiniteIs == \A S : IsFiniteSet(S) <=> FiniteOf(S)
  BY DEF IsFiniteSet, FiniteOf

LEMMA LibraryCountIs == \A S : Cardinality(S) = CountOf(S)
  BY DEF Cardinality, CountOf

LEMMA Counts == SetsCount
<1> USE FiniteIs, CountIs, LibraryFiniteIs, LibraryCountIs
<1>1. FiniteOf(Jobs)
  BY SMTT(30), FS_Interval, TxAssumption DEF Jobs
<1>2. SubsetsCount
  BY FS_Subset, FS_CardinalityType DEF SubsetsCount
<1>3. AddCounts
  BY FS_AddElement DEF AddCounts
<1>4. SmallCounts
  BY FS_EmptySet, FS_Singleton DEF SmallCounts
<1> QED BY <1>1, <1>2, <1>3, <1>4 DEF SetsCount

\* Creations that overlap keep the queue of an agent bounded, and one operator and
\* one key always mean one job.
THEOREM CreationsStaySerialized == Spec => []CreationsSerialized
<1>1. Init => CreationInv
  BY Counts, CreationInit
<1>2. TxInv /\ CreationInv /\ [Next]_vars => CreationInv'
  BY Counts, CreationStep
<1>3. CreationInv => CreationsSerialized
  BY Counts, CreationInvSerialized
<1> QED BY <1>1, <1>2, <1>3, TxInvariance, PTL DEF Spec

=============================================================================
