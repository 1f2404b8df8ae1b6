---------------------------- MODULE JobTxProofs ----------------------------
(***************************************************************************)
(* Proofs about JobTx, for any agents, operators, keys and connections and *)
(* any number of jobs and transactions.                                    *)
(***************************************************************************)
EXTENDS JobTx, TLAPS

\* Zenon first, and its time; a leaf that is not for it names SMT.
USE ZenonT(60), SMTT(30)

Op == {"create", "list", "listall", "get", "claim", "start", "complete"}

Pc == {"idle", "hint", "begun", "new", "replay", "counted", "locked", "reconciled", "claimed"}

Tx ==
    [op : Op \cup {None}, pc : Pc, start : Nat, after : SUBSET Jobs,
     agent : Agents \cup {None}, operator : Operators \cup {None}, key : Keys \cup {None},
     job : Jobs \cup {None}, attempt : Nat, expired : Jobs \cup {None}]

Row ==
    [agent : Agents \cup {None}, operator : Operators \cup {None}, key : Keys \cup {None},
     state : State \cup {"absent"}, attempt : Nat, created_at : Nat, expired : BOOLEAN,
     in_flight_at : Nat, after : SUBSET Jobs]

EventType ==
    {"job.created", "job.requeued", "job.dispatched", "job.started", "job.succeeded",
     "job.failed", "job.unknown"}

Entry == [type : EventType, occurred_at : Nat]

\* Where a transaction can be, and what it knows of itself there.
Creating(x) ==
    /\ x.op = "create" /\ x.pc \in {"begun", "new", "replay", "counted"}
    /\ x.operator \in Operators /\ x.key \in Keys /\ x.agent \in Agents
    /\ x.expired = None

Claiming(x) ==
    /\ x.op = "claim" /\ x.pc \in {"hint", "begun", "locked", "reconciled", "claimed"}
    /\ x.agent \in Agents
    /\ x.pc = "claimed" => x.job \in Jobs
    /\ x.pc \in {"hint", "begun", "locked"} => x.expired = None

Listing(x) ==
    /\ x.op \in {"list", "listall"} /\ x.pc \in {"begun", "reconciled"}
    /\ x.op = "list" => x.agent \in Agents
    /\ x.pc = "begun" => x.expired = None

Reading(x) ==
    /\ x.op = "get" /\ x.pc \in {"begun", "reconciled"}
    /\ x.job \in Jobs
    /\ x.expired # None => x.expired = x.job /\ x.pc = "reconciled"

Reporting(x) ==
    /\ x.op \in {"start", "complete"} /\ x.pc \in {"begun", "locked"}
    /\ x.job \in Jobs
    /\ x.expired # None => x.expired = x.job /\ x.pc = "locked"

Resting(x) == x.pc = "idle" /\ x.expired = None

GoodTx(x) ==
    /\ x \in Tx
    /\ Resting(x) \/ Creating(x) \/ Claiming(x) \/ Listing(x) \/ Reading(x) \/ Reporting(x)

\* The rows that a transaction has locked where it is.
Holds(x, r) ==
    \/ Creating(x) /\ x.pc # "begun" /\ r = x.operator
    \/ Creating(x) /\ x.pc = "counted" /\ r = x.agent
    \/ Claiming(x) /\ x.pc \in {"locked", "reconciled", "claimed"} /\ r = x.agent
    \/ Claiming(x) /\ x.pc = "claimed" /\ r = x.job
    \/ (Claiming(x) \/ Listing(x)) /\ r = x.expired
    \/ (Reading(x) \/ Reporting(x)) /\ x.pc # "begun" /\ r = x.job

\* A row keeps the attempts of its job bounded.
GoodRow(row) ==
    /\ row \in Row
    /\ row.state = "absent" => row = NoRow
    /\ row.state # "absent" => row.agent \in Agents /\ row.operator \in Operators
    /\ row.attempt <= MaxDispatchAttempts
    /\ row.state = "queued" => row.attempt < MaxDispatchAttempts
    /\ row.state \in InFlight => row.attempt > 0

Typed ==
    /\ jobs \in [Jobs -> Row] /\ \A j \in Jobs : GoodRow(jobs[j])
    /\ history \in [Jobs -> Seq(Entry)]
    /\ begins \in Nat
    /\ lock \in [Rows -> Procs \cup {None}]
    /\ tx \in [Procs -> Tx] /\ \A t \in Procs : GoodTx(tx[t])

\* The lock table agrees with where the transactions are.
Locks == \A t \in Procs, r \in Rows : lock[r] = t <=> Holds(tx[t], r)

\* What a transaction has read and relies on when it commits.
Knows(t) ==
    /\ \A j \in Jobs : Holds(tx[t], j) => Exists(j)
    /\ Reading(tx[t]) \/ Reporting(tx[t]) => Exists(tx[t].job)
    /\ tx[t].expired # None =>
        /\ Expired(tx[t].expired)
        /\ tx[t].op \in {"claim", "list"} => jobs[tx[t].expired].agent = tx[t].agent
    /\ At(t, "start", "locked") => jobs[tx[t].job].state = "dispatched"
    /\ At(t, "complete", "locked") => jobs[tx[t].job].state = "running"
    /\ At(t, "claim", "claimed") => tx[t].job \in Oldest(t) /\ ~HasInFlight(t)

\* An agent has one job in flight, as JobLifecycle says.
OneInFlight ==
    \A i, j \in Jobs :
        jobs[i].state \in InFlight /\ jobs[j].state \in InFlight
            /\ jobs[i].agent = jobs[j].agent => i = j

TxInv == Typed /\ Locks /\ OneInFlight /\ \A t \in Procs : Knows(t)

-----------------------------------------------------------------------------
(* Steps *)

\* What a step of a transaction never changes.
Keeps(x, y) ==
    /\ y.op = x.op /\ y.start = x.start /\ y.after = x.after /\ y.attempt = x.attempt
    /\ y.agent = x.agent /\ y.operator = x.operator /\ y.key = x.key

\* What the order of numbers says of beginnings, attempts and counts.
LEMMA NatNext ==
    /\ ~(0 > 0)
    /\ \A n \in Nat : 0 <= n /\ n + 1 \in Nat /\ n <= n /\ n <= n + 1 /\ n < n + 1
    /\ \A m, n \in Nat : m <= n => m <= n + 1 /\ m < n + 1 /\ m # n + 1
  BY SMTT(30)

LEMMA NatOrder ==
    /\ \A m, n \in Nat : /\ m <= n /\ ~(m < n) => m = n
                         /\ m < n => ~(n <= m) /\ m + 1 <= n
    /\ \A k, m, n \in Nat : /\ k <= m /\ m <= n => k <= n
                            /\ k <= m /\ m < n => k < n
  BY SMTT(30)

LEMMA EntryTime == \A e \in Entry : e.occurred_at \in Nat
  BY DEF Entry

\* The transaction that is at rest.
LEMMA NoTxGood == GoodTx(NoTx) /\ NoTx.start = 0 /\ \A r \in Rows : ~Holds(NoTx, r)
<1>1. NoTx \in Tx /\ NoTx.pc = "idle" /\ NoTx.expired = None /\ NoTx.start = 0
  BY DEF NoTx, Tx, Pc
<1> HIDE DEF NoTx
<1>2. GoodTx(NoTx)
  BY <1>1 DEF GoodTx, Resting
<1>3. \A r \in Rows : ~Holds(NoTx, r)
  BY <1>1, TxAssumption DEF Holds, Creating, Claiming, Listing, Reading, Reporting
<1> QED BY <1>1, <1>2, <1>3

\* What a transaction that begins knows: it holds nothing yet.
LEMMA BegunGood ==
    ASSUME NEW x \in Tx, x.expired = None, NEW n \in Nat,
           \/ x.op = "create" /\ x.operator \in Operators /\ x.key \in Keys /\ x.agent \in Agents
           \/ x.op \in {"claim", "list"} /\ x.agent \in Agents
           \/ x.op = "listall"
           \/ x.op \in {"get", "start", "complete"} /\ x.job \in Jobs,
           NEW y, y = [x EXCEPT !.pc = "begun", !.start = n]
    PROVE  /\ GoodTx(y) /\ y.pc = "begun" /\ y.start = n
           /\ y.op = x.op /\ y.after = x.after /\ y.agent = x.agent /\ y.operator = x.operator
           /\ y.key = x.key /\ y.job = x.job /\ y.attempt = x.attempt /\ y.expired = None
           /\ \A r \in Rows : ~Holds(y, r)
<1>1. /\ y \in Tx /\ y.pc = "begun" /\ y.start = n
      /\ y.op = x.op /\ y.after = x.after /\ y.agent = x.agent /\ y.operator = x.operator
      /\ y.key = x.key /\ y.job = x.job /\ y.attempt = x.attempt /\ y.expired = None
  BY DEF Tx, Pc
<1>2. GoodTx(y)
  BY <1>1 DEF GoodTx, Creating, Claiming, Listing, Reading, Reporting
<1>3. \A r \in Rows : ~Holds(y, r)
  BY <1>1, TxAssumption DEF Holds, Creating, Claiming, Listing, Reading, Reporting, Rows, Jobs
<1> QED BY <1>1, <1>2, <1>3

\* A transaction that goes on, that has looked for an expired row, that has chosen
\* a job.
LEMMA MovedPc ==
    ASSUME NEW x \in Tx, NEW l \in Pc, NEW y, y = [x EXCEPT !.pc = l]
    PROVE  y \in Tx /\ y.pc = l /\ y.expired = x.expired /\ y.job = x.job /\ Keeps(x, y)
  BY DEF Tx, Keeps

LEMMA MovedExpired ==
    ASSUME NEW x \in Tx, NEW l \in Pc, NEW e \in Jobs \cup {None}, NEW y,
           y = [x EXCEPT !.pc = l, !.expired = e]
    PROVE  y \in Tx /\ y.pc = l /\ y.expired = e /\ y.job = x.job /\ Keeps(x, y)
  BY DEF Tx, Keeps

LEMMA MovedJob ==
    ASSUME NEW x \in Tx, NEW l \in Pc, NEW i \in Jobs, NEW y,
           y = [x EXCEPT !.pc = l, !.job = i]
    PROVE  y \in Tx /\ y.pc = l /\ y.expired = x.expired /\ y.job = i /\ Keeps(x, y)
  BY DEF Tx, Keeps

-----------------------------------------------------------------------------
(* The lock table *)

\* t goes on and locks rows that are free or its own.
Goes(t, rows) ==
    /\ tx' = [tx EXCEPT ![t] = tx'[t]]
    /\ GoodTx(tx'[t])
    /\ lock' = [r \in Rows |-> IF r \in rows THEN t ELSE lock[r]]
    /\ \A r \in rows : lock[r] \in {None, t}
    /\ \A r \in Rows : Holds(tx'[t], r) <=> Holds(tx[t], r) \/ r \in rows

LEMMA GoesKeepsLocks ==
    ASSUME Typed, Locks, NEW t \in Procs, NEW rows, Goes(t, rows)
    PROVE  /\ Locks'
           /\ lock' \in [Rows -> Procs \cup {None}]
           /\ tx' \in [Procs -> Tx] /\ \A u \in Procs : GoodTx(tx'[u])
<1>1. tx' \in [Procs -> Tx] /\ \A u \in Procs \ {t} : tx'[u] = tx[u]
  BY DEF Goes, Typed, GoodTx
<1>2. \A u \in Procs : GoodTx(tx'[u])
  BY <1>1 DEF Goes, Typed
<1>3. lock' \in [Rows -> Procs \cup {None}]
  BY DEF Goes, Typed
<1>4. ASSUME NEW u \in Procs, NEW r \in Rows PROVE lock'[r] = u <=> Holds(tx'[u], r)
  <2>1. lock[r] = u <=> Holds(tx[u], r)
    BY DEF Locks
  <2>2. CASE u = t
    BY <2>1, <2>2 DEF Goes
  <2>3. CASE u # t
    BY <1>1, <2>1, <2>3, TxAssumption DEF Goes
  <2> QED BY <2>2, <2>3
<1> QED BY <1>1, <1>2, <1>3, <1>4 DEF Locks

LEMMA ReleaseKeepsLocks ==
    ASSUME Typed, Locks, NEW t \in Procs, Release(t)
    PROVE  /\ Locks'
           /\ lock' \in [Rows -> Procs \cup {None}]
           /\ tx' \in [Procs -> Tx] /\ \A u \in Procs : GoodTx(tx'[u])
           /\ tx'[t] = NoTx /\ \A u \in Procs \ {t} : tx'[u] = tx[u]
<1>1. /\ tx' \in [Procs -> Tx]
      /\ tx'[t] = NoTx /\ \A u \in Procs \ {t} : tx'[u] = tx[u]
  BY NoTxGood DEF Release, Typed, GoodTx
<1>2. \A u \in Procs : GoodTx(tx'[u])
  BY <1>1, NoTxGood DEF Typed
<1>3. lock' \in [Rows -> Procs \cup {None}]
  BY DEF Release, Typed
<1>4. ASSUME NEW u \in Procs, NEW r \in Rows PROVE lock'[r] = u <=> Holds(tx'[u], r)
  <2>1. lock[r] = u <=> Holds(tx[u], r)
    BY DEF Locks
  <2>2. CASE u = t
    BY <1>1, <2>2, NoTxGood, TxAssumption DEF Release
  <2>3. CASE u # t
    BY <1>1, <2>1, <2>3, TxAssumption DEF Release
  <2> QED BY <2>2, <2>3
<1> QED BY <1>1, <1>2, <1>3, <1>4 DEF Locks

\* A transaction that has not locked anything yet.
LEMMA FreshHoldsNothing ==
    ASSUME NEW x, x.pc \in {"idle", "hint", "begun"}, GoodTx(x)
    PROVE  x.expired = None /\ \A r \in Rows : ~Holds(x, r)
<1>1. x.expired = None
  BY DEF GoodTx, Resting, Creating, Claiming, Listing, Reading, Reporting
<1> QED BY <1>1, TxAssumption
        DEF Holds, Creating, Claiming, Listing, Reading, Reporting, Rows, Jobs

LEMMA BeginGoes ==
    ASSUME Typed, NEW t \in Procs, tx[t].pc \in {"idle", "hint"}, NEW x \in Tx, x.expired = None,
           \/ x.op = "create" /\ x.operator \in Operators /\ x.key \in Keys /\ x.agent \in Agents
           \/ x.op \in {"claim", "list"} /\ x.agent \in Agents
           \/ x.op = "listall"
           \/ x.op \in {"get", "start", "complete"} /\ x.job \in Jobs,
           Begin(t, x)
    PROVE  /\ Goes(t, {})
           /\ tx'[t].pc = "begun" /\ tx'[t].start = begins + 1 /\ tx'[t].expired = None
           /\ tx'[t].op = x.op /\ tx'[t].after = x.after /\ tx'[t].attempt = x.attempt
           /\ tx'[t].agent = x.agent /\ tx'[t].operator = x.operator /\ tx'[t].key = x.key
           /\ tx'[t].job = x.job
<1> DEFINE y == [x EXCEPT !.pc = "begun", !.start = begins + 1]
<1>1. /\ GoodTx(y) /\ y.pc = "begun" /\ y.start = begins + 1
      /\ y.op = x.op /\ y.after = x.after /\ y.agent = x.agent /\ y.operator = x.operator
      /\ y.key = x.key /\ y.job = x.job /\ y.attempt = x.attempt /\ y.expired = None
      /\ \A r \in Rows : ~Holds(y, r)
  <2>1. begins + 1 \in Nat
    BY SMTT(30) DEF Typed
  <2> QED BY <2>1, BegunGood
<1>2. tx' = [tx EXCEPT ![t] = y] /\ lock' = lock
  BY DEF Begin
<1> HIDE DEF y
<1>3. tx'[t] = y
  BY <1>2 DEF Typed
<1>4. \A r \in Rows : ~Holds(tx[t], r)
  BY SMTT(30), FreshHoldsNothing DEF Typed
<1> QED BY <1>1, <1>2, <1>3, <1>4 DEF Goes, Typed

\* What is known of a transaction that has just begun, or is about to.
Arrived(t) ==
    /\ tx'[t].pc \in {"begun", "hint"}
    /\ tx'[t].pc = "hint" => tx'[t].op = "claim" /\ tx'[t].start = 0 /\ begins' = begins
    /\ tx'[t].pc = "begun" => tx'[t].start = begins + 1 /\ begins' = begins + 1
    /\ tx'[t].op = "create" => tx'[t].after = Committed
    /\ tx'[t].op = "get" => Exists(tx'[t].job)
    /\ tx'[t].op = "start" => /\ jobs[tx'[t].job].state = "dispatched"
                              /\ tx'[t].attempt = jobs[tx'[t].job].attempt
    /\ tx'[t].op = "complete" => jobs[tx'[t].job].state = "running"
    /\ UNCHANGED <<jobs, history>>

LEMMA ArriveGoes ==
    ASSUME Typed, NEW t \in Procs, Arrive(t) \/ BeginClaim(t)
    PROVE  Goes(t, {}) /\ Arrived(t)
<1>0. NoTx \in Tx /\ NoTx.expired = None /\ Committed \in SUBSET Jobs
  BY DEF NoTx, Tx, Pc, Committed
<1>1. ASSUME NEW o \in Operators, NEW k \in Keys, NEW a \in Agents, BeginCreate(t, o, k, a)
      PROVE  Goes(t, {}) /\ Arrived(t)
  <2> DEFINE x == [NoTx EXCEPT !.op = "create", !.operator = o, !.key = k, !.agent = a,
                               !.after = Committed]
  <2>1. /\ x \in Tx /\ x.expired = None /\ x.op = "create" /\ x.after = Committed
        /\ x.operator = o /\ x.key = k /\ x.agent = a
    BY <1>0 DEF Tx, Op
  <2>2. tx[t].pc = "idle" /\ Begin(t, x)
    BY <1>1 DEF BeginCreate
  <2> HIDE DEF x
  <2>3. /\ Goes(t, {}) /\ tx'[t].pc = "begun" /\ tx'[t].start = begins + 1
        /\ tx'[t].op = "create" /\ tx'[t].after = Committed
    BY <2>1, <2>2, BeginGoes
  <2> QED BY <2>2, <2>3 DEF Arrived, Begin
<1>2. ASSUME NEW a \in Agents, BeginListAgent(t, a) PROVE Goes(t, {}) /\ Arrived(t)
  <2> DEFINE x == [NoTx EXCEPT !.op = "list", !.agent = a]
  <2>1. x \in Tx /\ x.expired = None /\ x.op = "list" /\ x.agent = a
    BY <1>0 DEF Tx, Op
  <2>2. tx[t].pc = "idle" /\ Begin(t, x)
    BY <1>2 DEF BeginListAgent
  <2> HIDE DEF x
  <2>3. Goes(t, {}) /\ tx'[t].pc = "begun" /\ tx'[t].start = begins + 1 /\ tx'[t].op = "list"
    BY <2>1, <2>2, BeginGoes
  <2> QED BY <2>2, <2>3 DEF Arrived, Begin
<1>3. ASSUME BeginListAll(t) PROVE Goes(t, {}) /\ Arrived(t)
  <2> DEFINE x == [NoTx EXCEPT !.op = "listall"]
  <2>1. x \in Tx /\ x.expired = None /\ x.op = "listall"
    BY <1>0 DEF Tx, Op
  <2>2. tx[t].pc = "idle" /\ Begin(t, x)
    BY <1>3 DEF BeginListAll
  <2> HIDE DEF x
  <2>3. Goes(t, {}) /\ tx'[t].pc = "begun" /\ tx'[t].start = begins + 1 /\ tx'[t].op = "listall"
    BY <2>1, <2>2, BeginGoes
  <2> QED BY <2>2, <2>3 DEF Arrived, Begin
<1>4. ASSUME NEW j \in Jobs, BeginGet(t, j) PROVE Goes(t, {}) /\ Arrived(t)
  <2> DEFINE x == [NoTx EXCEPT !.op = "get", !.job = j]
  <2>1. x \in Tx /\ x.expired = None /\ x.op = "get" /\ x.job = j
    BY <1>0 DEF Tx, Op
  <2>2. tx[t].pc = "idle" /\ Begin(t, x) /\ Exists(j)
    BY <1>4 DEF BeginGet
  <2> HIDE DEF x
  <2>3. /\ Goes(t, {}) /\ tx'[t].pc = "begun" /\ tx'[t].start = begins + 1 /\ tx'[t].op = "get"
        /\ tx'[t].job = j
    BY <2>1, <2>2, BeginGoes
  <2> QED BY <2>2, <2>3 DEF Arrived, Begin
<1>5. ASSUME NEW j \in Jobs, BeginStart(t, j) \/ BeginComplete(t, j)
      PROVE  Goes(t, {}) /\ Arrived(t)
  <2>1. PICK op \in {"start", "complete"} :
          /\ tx[t].pc = "idle"
          /\ jobs[j].state = IF op = "start" THEN "dispatched" ELSE "running"
          /\ Begin(t, [NoTx EXCEPT !.op = op, !.job = j, !.attempt = jobs[j].attempt])
    BY <1>5 DEF BeginStart, BeginComplete
  <2> DEFINE x == [NoTx EXCEPT !.op = op, !.job = j, !.attempt = jobs[j].attempt]
  <2>2. jobs[j].attempt \in Nat
    BY DEF Typed, Row
  <2>3. x \in Tx /\ x.expired = None /\ x.op = op /\ x.job = j /\ x.attempt = jobs[j].attempt
    BY <1>0, <2>2 DEF Tx, Op
  <2>4. Begin(t, x)
    BY <2>1
  <2> HIDE DEF x
  <2>5. /\ Goes(t, {}) /\ tx'[t].pc = "begun" /\ tx'[t].start = begins + 1 /\ tx'[t].op = op
        /\ tx'[t].job = j /\ tx'[t].attempt = jobs[j].attempt
    BY <2>1, <2>3, <2>4, BeginGoes
  <2> QED BY <2>1, <2>4, <2>5 DEF Arrived, Begin
<1>6. ASSUME NEW a \in Agents, RecordAgentHeartbeat(t, a) PROVE Goes(t, {}) /\ Arrived(t)
  <2> DEFINE x == [NoTx EXCEPT !.op = "claim", !.pc = "hint", !.agent = a]
  <2>1. /\ x \in Tx /\ x.expired = None /\ x.op = "claim" /\ x.pc = "hint" /\ x.agent = a
        /\ x.start = 0
    BY <1>0, NoTxGood DEF Tx, Op, Pc
  <2>2. /\ tx[t].pc = "idle" /\ tx' = [tx EXCEPT ![t] = x]
        /\ UNCHANGED <<jobs, history, begins, lock>>
    BY <1>6 DEF RecordAgentHeartbeat, Move
  <2> HIDE DEF x
  <2>3. tx'[t] = x
    BY <2>2 DEF Typed
  <2>4. GoodTx(x)
    BY <2>1 DEF GoodTx, Claiming
  <2>5. \A r \in Rows : ~Holds(x, r) /\ ~Holds(tx[t], r)
    BY SMTT(30), <2>1, <2>2, <2>4, FreshHoldsNothing DEF Typed
  <2>6. Goes(t, {})
    BY <2>2, <2>3, <2>4, <2>5 DEF Goes, Typed
  <2> QED BY <2>1, <2>2, <2>3, <2>6 DEF Arrived
<1>7. ASSUME BeginClaim(t) PROVE Goes(t, {}) /\ Arrived(t)
  <2>1. /\ tx[t].pc = "hint" /\ tx[t].op = "claim" /\ Begin(t, tx[t])
        /\ tx[t] \in Tx
    BY <1>7 DEF BeginClaim, At, Typed
  <2>2. tx[t].agent \in Agents /\ tx[t].expired = None
    BY <2>1 DEF Typed, GoodTx, Resting, Creating, Claiming, Listing, Reading, Reporting
  <2>3. Goes(t, {}) /\ tx'[t].pc = "begun" /\ tx'[t].start = begins + 1 /\ tx'[t].op = "claim"
    BY <2>1, <2>2, BeginGoes
  <2> QED BY <2>1, <2>3 DEF Arrived, Begin
<1> QED BY <1>1, <1>2, <1>3, <1>4, <1>5, <1>6, <1>7 DEF Arrive

\* A step that takes locks reads rows and writes none.
Reads(t) == Keeps(tx[t], tx'[t]) /\ UNCHANGED <<jobs, history, begins>>

LEMMA LockOperatorGoes ==
    ASSUME TxInv, NEW t \in Procs, LockOperator(t)
    PROVE  /\ Goes(t, {tx[t].operator}) /\ Reads(t) /\ tx'[t].pc \in {"new", "replay"}
           /\ tx'[t].pc = "new" => KeyOf(tx[t].operator, tx[t].key) = {}
<1>1. /\ tx[t] \in Tx /\ Creating(tx[t]) /\ tx[t].pc = "begun" /\ tx \in [Procs -> Tx]
  BY DEF LockOperator, At, TxInv, Typed, GoodTx, Resting, Creating, Claiming, Listing,
         Reading, Reporting
<1>2. PICK l \in {"new", "replay"} :
        /\ tx' = [tx EXCEPT ![t] = [tx[t] EXCEPT !.pc = l]]
        /\ l = "new" => KeyOf(tx[t].operator, tx[t].key) = {}
  BY DEF LockOperator, Move
<1> DEFINE y == [tx[t] EXCEPT !.pc = l]
<1>3. /\ y \in Tx /\ y.pc = l /\ y.expired = tx[t].expired /\ y.job = tx[t].job /\ Keeps(tx[t], y)
  BY SMTT(30), <1>1, MovedPc DEF Pc
<1> HIDE DEF y
<1>4. tx' = [tx EXCEPT ![t] = y] /\ tx'[t] = y
  BY <1>1, <1>2 DEF y
<1>5. Creating(y)
  BY <1>1, <1>3 DEF Creating, Keeps
<1>6. \A r \in Rows : Holds(y, r) <=> Holds(tx[t], r) \/ r \in {tx[t].operator}
  BY <1>1, <1>3, <1>5 DEF Keeps, Holds, Creating, Claiming, Listing, Reading, Reporting
<1>7. Goes(t, {tx[t].operator})
  BY <1>3, <1>4, <1>5, <1>6 DEF Goes, GoodTx, LockOperator, Acquire
<1> QED BY <1>2, <1>3, <1>4, <1>7 DEF Reads, LockOperator, Move

LEMMA LockAgentAndCountGoes ==
    ASSUME TxInv, NEW t \in Procs, LockAgentAndCount(t)
    PROVE  /\ Goes(t, {tx[t].agent}) /\ Reads(t) /\ At(t, "create", "new") /\ tx'[t].pc = "counted"
           /\ Cardinality(ActiveJobs(tx[t].agent)) < MaxActiveJobsPerAgent
<1>1. /\ tx[t] \in Tx /\ Creating(tx[t]) /\ tx[t].pc = "new" /\ tx \in [Procs -> Tx]
  BY DEF LockAgentAndCount, At, TxInv, Typed, GoodTx, Resting, Creating, Claiming, Listing,
         Reading, Reporting
<1> DEFINE y == [tx[t] EXCEPT !.pc = "counted"]
<1>3. /\ y \in Tx /\ y.pc = "counted" /\ y.expired = tx[t].expired /\ y.job = tx[t].job
      /\ Keeps(tx[t], y)
  BY <1>1, MovedPc DEF Pc
<1> HIDE DEF y
<1>4. tx' = [tx EXCEPT ![t] = y] /\ tx'[t] = y
  BY <1>1 DEF y, LockAgentAndCount, Move
<1>5. Creating(y)
  BY <1>1, <1>3 DEF Creating, Keeps
<1>6. \A r \in Rows : Holds(y, r) <=> Holds(tx[t], r) \/ r \in {tx[t].agent}
  BY <1>1, <1>3, <1>5 DEF Keeps, Holds, Creating, Claiming, Listing, Reading, Reporting
<1>7. Goes(t, {tx[t].agent})
  BY <1>3, <1>4, <1>5, <1>6 DEF Goes, GoodTx, LockAgentAndCount, Acquire
<1> QED BY <1>3, <1>4, <1>7 DEF Reads, LockAgentAndCount, Move, At

LEMMA LockAgentGoes ==
    ASSUME TxInv, NEW t \in Procs, LockAgent(t)
    PROVE  /\ Goes(t, {tx[t].agent}) /\ Reads(t)
           /\ Claiming(tx'[t]) /\ tx'[t].pc = "locked"
<1>1. /\ tx[t] \in Tx /\ Claiming(tx[t]) /\ tx[t].pc = "begun" /\ tx \in [Procs -> Tx]
  BY DEF LockAgent, At, TxInv, Typed, GoodTx, Resting, Creating, Claiming, Listing,
         Reading, Reporting
<1> DEFINE y == [tx[t] EXCEPT !.pc = "locked"]
<1>3. /\ y \in Tx /\ y.pc = "locked" /\ y.expired = tx[t].expired /\ y.job = tx[t].job
      /\ Keeps(tx[t], y)
  BY <1>1, MovedPc DEF Pc
<1> HIDE DEF y
<1>4. tx' = [tx EXCEPT ![t] = y] /\ tx'[t] = y
  BY <1>1 DEF y, LockAgent, Move
<1>5. Claiming(y)
  BY <1>1, <1>3 DEF Claiming, Keeps
<1>6. \A r \in Rows : Holds(y, r) <=> Holds(tx[t], r) \/ r \in {tx[t].agent}
  BY <1>1, <1>3, <1>5 DEF Keeps, Holds, Creating, Claiming, Listing, Reading, Reporting
<1>7. Goes(t, {tx[t].agent})
  BY <1>3, <1>4, <1>5, <1>6 DEF Goes, GoodTx, LockAgent, Acquire
<1> QED BY <1>3, <1>4, <1>5, <1>7 DEF Reads, LockAgent, Move

\* The one expired row of the agent, if there is one.
LEMMA LockExpiredGoes ==
    ASSUME TxInv, NEW t \in Procs, At(t, "claim", "locked") \/ At(t, "list", "begun"),
           LockExpired(t)
    PROVE  /\ Goes(t, ExpiredOf(tx[t].agent)) /\ Reads(t)
           /\ Claiming(tx'[t]) \/ Listing(tx'[t])
           /\ tx'[t].pc = "reconciled"
           /\ tx'[t].expired # None => tx'[t].expired \in ExpiredOf(tx[t].agent)
<1>1. /\ tx[t] \in Tx /\ tx \in [Procs -> Tx] /\ tx[t].expired = None
      /\ \/ Claiming(tx[t]) /\ tx[t].pc = "locked"
         \/ Listing(tx[t]) /\ tx[t].pc = "begun" /\ tx[t].op = "list"
  BY DEF At, TxInv, Typed, GoodTx, Resting, Creating, Claiming, Listing, Reading, Reporting
<1>2. PICK x \in ExpiredOf(tx[t].agent) \cup {None} :
        /\ x = None => ExpiredOf(tx[t].agent) = {}
        /\ tx' = [tx EXCEPT ![t] = [tx[t] EXCEPT !.pc = "reconciled", !.expired = x]]
  BY DEF LockExpired, Move
<1> DEFINE y == [tx[t] EXCEPT !.pc = "reconciled", !.expired = x]
<1>3. ExpiredOf(tx[t].agent) = {x} \ {None}
  BY <1>2, TxAssumption DEF ExpiredOf, Expired, TxInv, OneInFlight, Jobs
<1>4. /\ y \in Tx /\ y.pc = "reconciled" /\ y.expired = x /\ y.job = tx[t].job /\ Keeps(tx[t], y)
  <2>1. x \in Jobs \cup {None} /\ "reconciled" \in Pc
    BY DEF ExpiredOf, Pc
  <2>2. y = [tx[t] EXCEPT !.pc = "reconciled", !.expired = x]
    OBVIOUS
  <2> HIDE DEF y
  <2> QED BY <1>1, <2>1, <2>2 DEF Tx, Keeps
<1> HIDE DEF y
<1>5. tx' = [tx EXCEPT ![t] = y] /\ tx'[t] = y
  BY <1>1, <1>2 DEF y
<1>6. Claiming(y) \/ Listing(y)
  BY <1>1, <1>4 DEF Claiming, Listing, Keeps
<1>7. \A r \in Rows : Holds(y, r) <=> Holds(tx[t], r) \/ r \in ExpiredOf(tx[t].agent)
  BY <1>1, <1>3, <1>4, <1>6, TxAssumption
     DEF Keeps, Holds, Creating, Claiming, Listing, Reading, Reporting, Rows, Jobs
<1>8. Goes(t, ExpiredOf(tx[t].agent))
  BY <1>4, <1>5, <1>6, <1>7 DEF Goes, GoodTx, LockExpired, Acquire
<1> QED BY <1>2, <1>4, <1>5, <1>6, <1>8 DEF Reads, LockExpired, Move

\* Without a filter: an expired row that is free, or none.
LEMMA ListJobsGoes ==
    ASSUME TxInv, NEW t \in Procs, At(t, "listall", "begun"), ListJobs(t)
    PROVE  \E x \in Jobs \cup {None} :
            /\ Goes(t, {x} \ {None}) /\ Reads(t)
            /\ Listing(tx'[t]) /\ tx'[t].pc = "reconciled" /\ tx'[t].expired = x
            /\ x # None => Expired(x)
<1>1. /\ tx[t] \in Tx /\ tx \in [Procs -> Tx] /\ tx[t].expired = None
      /\ Listing(tx[t]) /\ tx[t].pc = "begun" /\ tx[t].op = "listall"
  BY DEF At, TxInv, Typed, GoodTx, Resting, Creating, Claiming, Listing, Reading, Reporting
<1>2. PICK x \in {j \in Jobs : Expired(j) /\ lock[j] = None} \cup {None} :
        /\ Acquire(t, {x} \ {None})
        /\ Move(t, [tx[t] EXCEPT !.pc = "reconciled", !.expired = x])
  BY <1>1 DEF ListJobs, At
<1> DEFINE y == [tx[t] EXCEPT !.pc = "reconciled", !.expired = x]
<1>4. /\ y \in Tx /\ y.pc = "reconciled" /\ y.expired = x /\ y.job = tx[t].job /\ Keeps(tx[t], y)
  <2>1. x \in Jobs \cup {None} /\ "reconciled" \in Pc
    BY DEF Pc
  <2>2. y = [tx[t] EXCEPT !.pc = "reconciled", !.expired = x]
    OBVIOUS
  <2> HIDE DEF y
  <2> QED BY <1>1, <2>1, <2>2 DEF Tx, Keeps
<1> HIDE DEF y
<1>5. tx' = [tx EXCEPT ![t] = y] /\ tx'[t] = y
  BY <1>1, <1>2 DEF y, Move
<1>6. Listing(y)
  BY <1>1, <1>4 DEF Listing, Keeps
<1>7. \A r \in Rows : Holds(y, r) <=> Holds(tx[t], r) \/ r \in {x} \ {None}
  BY <1>1, <1>4, <1>6, TxAssumption
     DEF Keeps, Holds, Creating, Claiming, Listing, Reading, Reporting, Rows, Jobs
<1>8. Goes(t, {x} \ {None})
  BY <1>2, <1>4, <1>5, <1>6, <1>7 DEF Goes, GoodTx, Acquire
<1>9. Reads(t)
  BY <1>2, <1>4, <1>5 DEF Reads, Move
<1> QED BY <1>2, <1>4, <1>5, <1>6, <1>8, <1>9

\* A read of one job, and a report, lock its row; a report compares it.
LEMMA LockJobGoes ==
    ASSUME TxInv, NEW t \in Procs,
           \/ At(t, "get", "begun") /\ GetJobByID(t)
           \/ LockJob(t, "start", "dispatched") \/ LockJob(t, "complete", "running")
    PROVE  /\ Goes(t, {tx[t].job}) /\ Reads(t) /\ tx'[t].job = tx[t].job
           /\ \/ Reading(tx'[t]) /\ tx'[t].pc = "reconciled"
              \/ Reporting(tx'[t]) /\ tx'[t].pc = "locked"
           /\ tx'[t].expired # None => tx'[t].expired = tx[t].job /\ Expired(tx[t].job)
           /\ tx[t].op = "start" => jobs[tx[t].job].state = "dispatched"
                                    /\ jobs[tx[t].job].attempt = tx[t].attempt
           /\ tx[t].op = "complete" => jobs[tx[t].job].state = "running"
<1>1. /\ tx[t] \in Tx /\ tx \in [Procs -> Tx] /\ tx[t].expired = None /\ tx[t].job \in Jobs
      /\ Reading(tx[t]) \/ Reporting(tx[t])
      /\ tx[t].pc = "begun"
  BY DEF At, LockJob, TxInv, Typed, GoodTx, Resting, Creating, Claiming, Listing, Reading,
         Reporting
<1>2. PICK l \in {"reconciled", "locked"} :
        /\ l = IF tx[t].op = "get" THEN "reconciled" ELSE "locked"
        /\ Acquire(t, {tx[t].job})
        /\ Move(t, [tx[t] EXCEPT !.pc = l,
                                 !.expired = IF Expired(tx[t].job) THEN tx[t].job ELSE None])
        /\ tx[t].op = "start" => jobs[tx[t].job].state = "dispatched"
                                 /\ jobs[tx[t].job].attempt = tx[t].attempt
        /\ tx[t].op = "complete" => jobs[tx[t].job].state = "running"
  BY <1>1 DEF GetJobByID, LockJob, At
<1> DEFINE e == IF Expired(tx[t].job) THEN tx[t].job ELSE None
           y == [tx[t] EXCEPT !.pc = l, !.expired = e]
<1>3. e \in {tx[t].job, None} /\ (e # None => Expired(tx[t].job))
  OBVIOUS
<1> HIDE DEF e
<1>4. /\ y \in Tx /\ y.pc = l /\ y.expired = e /\ y.job = tx[t].job /\ Keeps(tx[t], y)
  <2>1. e \in Jobs \cup {None} /\ l \in Pc
    BY <1>1, <1>3 DEF Pc
  <2>2. y = [tx[t] EXCEPT !.pc = l, !.expired = e]
    OBVIOUS
  <2> HIDE DEF y
  <2> QED BY <1>1, <2>1, <2>2 DEF Tx, Keeps
<1> HIDE DEF y
<1>5. tx' = [tx EXCEPT ![t] = y] /\ tx'[t] = y
  BY <1>1, <1>2 DEF y, e, Move
<1>6. \/ Reading(y) /\ y.pc = "reconciled"
      \/ Reporting(y) /\ y.pc = "locked"
  <2>1. CASE Reading(tx[t])
    BY <1>1, <1>2, <1>3, <1>4, <2>1 DEF Reading, Keeps
  <2>2. CASE Reporting(tx[t])
    BY <1>1, <1>2, <1>3, <1>4, <2>2 DEF Reporting, Keeps
  <2> QED BY <1>1, <2>1, <2>2
<1>7. \A r \in Rows : Holds(y, r) <=> Holds(tx[t], r) \/ r \in {tx[t].job}
  BY <1>1, <1>4, <1>6
     DEF Keeps, Holds, Creating, Claiming, Listing, Reading, Reporting
<1>8. Goes(t, {tx[t].job})
  BY <1>2, <1>4, <1>5, <1>6, <1>7 DEF Goes, GoodTx, Acquire
<1>9. Reads(t)
  BY <1>2, <1>4, <1>5 DEF Reads, Move
<1> QED BY <1>2, <1>3, <1>4, <1>5, <1>6, <1>8, <1>9

\* The claim of the oldest job.
LEMMA LockOldestGoes ==
    ASSUME TxInv, NEW t \in Procs, LockOldest(t)
    PROVE  /\ Goes(t, {tx'[t].job}) /\ Reads(t)
           /\ Claiming(tx'[t]) /\ tx'[t].pc = "claimed" /\ tx'[t].expired = tx[t].expired
           /\ tx'[t].job \in Oldest(t) /\ ~HasInFlight(t)
<1>1. /\ tx[t] \in Tx /\ tx \in [Procs -> Tx]
      /\ Claiming(tx[t]) /\ tx[t].pc = "reconciled"
  BY DEF LockOldest, At, TxInv, Typed, GoodTx, Resting, Creating, Claiming, Listing, Reading,
         Reporting
<1>2. PICK j \in Oldest(t) : /\ Acquire(t, {j})
                             /\ Move(t, [tx[t] EXCEPT !.pc = "claimed", !.job = j])
  BY DEF LockOldest
<1> DEFINE y == [tx[t] EXCEPT !.pc = "claimed", !.job = j]
<1>3. j \in Jobs /\ "claimed" \in Pc
  BY DEF Oldest, Pc
<1>4. /\ y \in Tx /\ y.pc = "claimed" /\ y.expired = tx[t].expired /\ y.job = j
      /\ Keeps(tx[t], y)
  <2>1. y = [tx[t] EXCEPT !.pc = "claimed", !.job = j]
    OBVIOUS
  <2> HIDE DEF y
  <2> QED BY <1>1, <1>3, <2>1 DEF Tx, Keeps
<1> HIDE DEF y
<1>5. tx' = [tx EXCEPT ![t] = y] /\ tx'[t] = y
  BY <1>1, <1>2 DEF y, Move
<1>6. Claiming(y)
  BY <1>1, <1>3, <1>4 DEF Claiming, Keeps
<1>7. \A r \in Rows : Holds(y, r) <=> Holds(tx[t], r) \/ r \in {j}
  BY <1>1, <1>4, <1>6
     DEF Keeps, Holds, Creating, Claiming, Listing, Reading, Reporting
<1>8. Goes(t, {j})
  BY <1>2, <1>4, <1>5, <1>6, <1>7 DEF Goes, GoodTx, Acquire
<1>9. Reads(t) /\ ~HasInFlight(t)
  BY <1>2, <1>4, <1>5 DEF Reads, Move, LockOldest
<1> QED BY <1>4, <1>5, <1>6, <1>8, <1>9

-----------------------------------------------------------------------------
(* What a commit writes *)

\* The columns that no statement updates.
SameJob(row, new) ==
    /\ new.agent = row.agent /\ new.operator = row.operator /\ new.key = row.key
    /\ new.created_at = row.created_at /\ new.after = row.after

Executions == {"job.started", "job.succeeded"}

Kept(j) == jobs'[j] = jobs[j] /\ history'[j] = history[j]

ReconciledBy(t, j) ==
    /\ tx[t].expired = j /\ Expired(j)
    /\ SameJob(jobs[j], jobs'[j]) /\ jobs'[j].attempt = jobs[j].attempt
    /\ \/ Requeues(j) /\ jobs'[j].state = "queued"
       \/ jobs[j].state = "dispatched" /\ ~Requeues(j) /\ jobs'[j].state = "failed"
       \/ jobs[j].state = "running" /\ jobs'[j].state = "unknown"
    /\ \E type \in EventType \ Executions : history'[j] = Append(history[j], Event(t, type))

DispatchedBy(t, j) ==
    /\ At(t, "claim", "claimed") /\ tx[t].job = j
    /\ SameJob(jobs[j], jobs'[j])
    /\ jobs'[j].attempt = jobs[j].attempt + 1
    /\ jobs'[j].state = "dispatched"
    /\ jobs[j].attempt < MaxDispatchAttempts
    /\ \/ /\ jobs[j].state = "queued"
          /\ history'[j] = Append(history[j], Event(t, "job.dispatched"))
       \/ /\ jobs[j].state = "dispatched" /\ tx[t].expired = j
          /\ history'[j] = Append(Append(history[j], Event(t, "job.requeued")),
                                  Event(t, "job.dispatched"))

ReportedBy(t, j) ==
    /\ Reporting(tx[t]) /\ tx[t].pc = "locked" /\ tx[t].job = j
    /\ SameJob(jobs[j], jobs'[j]) /\ jobs'[j].attempt = jobs[j].attempt
    /\ \/ /\ tx[t].op = "start" /\ jobs[j].state = "dispatched" /\ jobs'[j].state = "running"
          /\ history'[j] = Append(history[j], Event(t, "job.started"))
       \/ /\ tx[t].op = "complete" /\ jobs[j].state = "running"
          /\ jobs'[j].state \in {"succeeded", "failed"}
          /\ \E type \in EventType : history'[j] = Append(history[j], Event(t, type))

Writes(t) ==
    /\ Release(t)
    /\ \A j \in Jobs :
        \/ Kept(j) /\ tx[t].expired # j
        \/ ReconciledBy(t, j) \/ DispatchedBy(t, j) \/ ReportedBy(t, j)

Inserts(t, j) ==
    /\ Release(t) /\ At(t, "create", "counted")
    /\ ~Exists(j)
    /\ jobs'[j].agent = tx[t].agent /\ jobs'[j].operator = tx[t].operator
    /\ jobs'[j].key = tx[t].key /\ jobs'[j].state = "queued" /\ jobs'[j].attempt = 0
    /\ jobs'[j].created_at = tx[t].start /\ jobs'[j].after = tx[t].after
    /\ history'[j] = <<Event(t, "job.created")>>
    /\ \A i \in Jobs \ {j} : Kept(i)

\* The table stays well typed.
Tables ==
    /\ jobs' \in [Jobs -> Row] /\ \A j \in Jobs : GoodRow(jobs'[j])
    /\ history' \in [Jobs -> Seq(Entry)]

LEMMA EventEntry ==
    ASSUME Typed, NEW t \in Procs, NEW type \in EventType
    PROVE  /\ Event(t, type) \in Entry
           /\ Event(t, type).type = type /\ Event(t, type).occurred_at = tx[t].start
  BY DEF Event, Entry, Typed, Tx

\* Reconciliation moves an expired job on, and keeps its attempts bounded.
LEMMA ReconciledRow ==
    ASSUME Typed, NEW j \in Jobs, Expired(j)
    PROVE  /\ GoodRow(Reconciled(j))
           /\ SameJob(jobs[j], Reconciled(j)) /\ Reconciled(j).attempt = jobs[j].attempt
           /\ \/ Requeues(j) /\ Reconciled(j).state = "queued"
              \/ jobs[j].state = "dispatched" /\ ~Requeues(j) /\ Reconciled(j).state = "failed"
              \/ jobs[j].state = "running" /\ Reconciled(j).state = "unknown"
<1>1. jobs[j] \in Row /\ GoodRow(jobs[j]) /\ jobs[j].state \in InFlight
  BY DEF Typed, Expired
<1> DEFINE s == IF Requeues(j) THEN "queued"
                ELSE IF jobs[j].state = "dispatched" THEN "failed" ELSE "unknown"
           r == [jobs[j] EXCEPT !.expired = FALSE, !.in_flight_at = 0, !.state = s]
<1>2. Reconciled(j) = r
  BY DEF Reconciled
<1>3. \/ Requeues(j) /\ s = "queued"
      \/ jobs[j].state = "dispatched" /\ ~Requeues(j) /\ s = "failed"
      \/ jobs[j].state = "running" /\ s = "unknown"
  BY <1>1 DEF InFlight, Requeues
<1> HIDE DEF s
<1>4. s \in State
  BY <1>3 DEF State
<1>5. /\ r \in Row /\ SameJob(jobs[j], r) /\ r.attempt = jobs[j].attempt /\ r.state = s
  BY <1>1, <1>4 DEF Row, SameJob
<1> HIDE DEF r
<1>6. GoodRow(r)
  BY <1>1, <1>3, <1>5 DEF GoodRow, SameJob, InFlight, Requeues
<1> QED BY <1>2, <1>3, <1>5, <1>6

\* The event that goes with it says which way.
LEMMA ReconcileEventType ==
    ASSUME Typed, NEW t \in Procs, NEW j \in Jobs, Expired(j)
    PROVE  /\ \E type \in EventType \ Executions : ReconcileEvent(t, j) = Event(t, type)
           /\ Requeues(j) => ReconcileEvent(t, j) = Event(t, "job.requeued")
<1>1. jobs[j].state \in InFlight
  BY DEF Expired
<1> DEFINE type == IF Requeues(j) THEN "job.requeued"
                   ELSE IF jobs[j].state = "dispatched" THEN "job.failed" ELSE "job.unknown"
<1>2. ReconcileEvent(t, j) = Event(t, type)
  BY DEF ReconcileEvent
<1>3. /\ type \in {"job.requeued", "job.failed", "job.unknown"}
      /\ Requeues(j) => type = "job.requeued"
  OBVIOUS
<1> HIDE DEF type
<1>4. type \in EventType \ Executions
  BY <1>3 DEF Executions, EventType
<1>5. \E x \in EventType \ Executions : ReconcileEvent(t, j) = Event(t, x)
  <2> WITNESS type \in EventType \ Executions
  <2> QED BY <1>2
<1> QED BY <1>2, <1>3, <1>5

\* The rows and the events that a transaction sees, its own writes among them.
LEMMA SeenRows ==
    ASSUME TxInv, NEW t \in Procs
    PROVE  /\ RowsSeen(t) \in [Jobs -> Row] /\ HistorySeen(t) \in [Jobs -> Seq(Entry)]
           /\ \A j \in Jobs :
                /\ GoodRow(RowsSeen(t)[j])
                /\ tx[t].expired # j =>
                    RowsSeen(t)[j] = jobs[j] /\ HistorySeen(t)[j] = history[j]
                /\ tx[t].expired = j =>
                    /\ Expired(j)
                    /\ RowsSeen(t)[j] = Reconciled(j)
                    /\ HistorySeen(t)[j] = Append(history[j], ReconcileEvent(t, j))
<1>1. ASSUME NEW j \in Jobs, tx[t].expired = j
      PROVE  Expired(j) /\ GoodRow(Reconciled(j)) /\ Reconciled(j) \in Row
             /\ ReconcileEvent(t, j) \in Entry
  <2>1. Expired(j)
    BY <1>1, TxAssumption DEF TxInv, Knows, Jobs
  <2>2. GoodRow(Reconciled(j))
    BY <2>1, ReconciledRow DEF TxInv
  <2>3. PICK type \in EventType : ReconcileEvent(t, j) = Event(t, type)
    BY <2>1, ReconcileEventType DEF TxInv
  <2>4. ReconcileEvent(t, j) \in Entry
    BY <2>3, EventEntry DEF TxInv
  <2> QED BY <2>1, <2>2, <2>4 DEF GoodRow
<1>2. \A j \in Jobs : GoodRow(jobs[j]) /\ jobs[j] \in Row /\ history[j] \in Seq(Entry)
  BY DEF TxInv, Typed
<1>3. \A j \in Jobs : tx[t].expired = j => Append(history[j], ReconcileEvent(t, j)) \in Seq(Entry)
  BY SMTT(30), <1>1, <1>2
<1>4. RowsSeen(t) \in [Jobs -> Row] /\ \A j \in Jobs : GoodRow(RowsSeen(t)[j])
  BY <1>1, <1>2 DEF RowsSeen
<1>5. HistorySeen(t) \in [Jobs -> Seq(Entry)]
  BY <1>2, <1>3 DEF HistorySeen
<1> QED BY <1>1, <1>4, <1>5 DEF RowsSeen, HistorySeen

LEMMA ReconcileWrites ==
    ASSUME TxInv, NEW t \in Procs, CommitReconciled(t)
    PROVE  Writes(t) /\ Tables
<1>1. Tables
  BY SeenRows DEF CommitReconciled, Tables
<1>2. ASSUME NEW j \in Jobs PROVE (Kept(j) /\ tx[t].expired # j) \/ ReconciledBy(t, j)
  <2>1. CASE tx[t].expired # j
    BY <2>1, SeenRows DEF CommitReconciled, Kept
  <2>2. CASE tx[t].expired = j
    <3>1. /\ Expired(j) /\ jobs'[j] = Reconciled(j)
          /\ history'[j] = Append(history[j], ReconcileEvent(t, j))
      BY <2>2, SeenRows DEF CommitReconciled
    <3>2. PICK type \in EventType \ Executions : ReconcileEvent(t, j) = Event(t, type)
      BY <3>1, ReconcileEventType DEF TxInv
    <3> QED BY <2>2, <3>1, <3>2, ReconciledRow DEF ReconciledBy, TxInv
  <2> QED BY <2>1, <2>2
<1> QED BY <1>1, <1>2 DEF Writes, CommitReconciled

\* The row that is dispatched was queued, or has just been put back.
LEMMA ClaimWrites ==
    ASSUME TxInv, NEW t \in Procs, ClaimJob(t)
    PROVE  Writes(t) /\ Tables
<1> DEFINE i == tx[t].job
           seen == RowsSeen(t)[i]
           n == seen.attempt + 1
           row == [seen EXCEPT !.state = "dispatched", !.attempt = n, !.in_flight_at = begins]
<1>1. At(t, "claim", "claimed") /\ i \in Oldest(t)
  BY DEF ClaimJob, TxInv, Knows
<1>2. i \in Jobs /\ seen.agent = tx[t].agent /\ seen.state = "queued"
  BY <1>1 DEF Oldest
<1>3. seen \in Row /\ GoodRow(seen) /\ begins \in Nat
  BY <1>2, SeenRows DEF TxInv, Typed
<1>4. seen.attempt < MaxDispatchAttempts /\ seen.attempt \in Nat
  BY <1>2, <1>3 DEF GoodRow, Row
<1>5. jobs' = [RowsSeen(t) EXCEPT ![i] = row]
  <2>1. jobs' = [RowsSeen(t) EXCEPT ![i].state = "dispatched", ![i].attempt = @ + 1,
                                    ![i].in_flight_at = begins]
    BY DEF ClaimJob
  <2>2. RowsSeen(t) \in [Jobs -> Row]
    BY SeenRows
  <2> DEFINE rows == RowsSeen(t)
             one == [rows EXCEPT ![i].state = "dispatched"]
             two == [one EXCEPT ![i].attempt = @ + 1]
             three == [two EXCEPT ![i].in_flight_at = begins]
  <2>3. jobs' = three
    BY <2>1
  <2> HIDE DEF rows
  <2>4. rows \in [Jobs -> Row]
    BY <2>2 DEF rows
  <2>5. one = [rows EXCEPT ![i] = [rows[i] EXCEPT !.state = "dispatched"]]
    OBVIOUS
  <2> HIDE DEF one
  <2>6. two = [rows EXCEPT ![i] = [one[i] EXCEPT !.attempt = @ + 1]]
    BY <1>2, <2>4, <2>5
  <2> HIDE DEF two
  <2>7. three = [rows EXCEPT ![i] = [two[i] EXCEPT !.in_flight_at = begins]]
    BY <1>2, <2>4, <2>6
  <2>8. [two[i] EXCEPT !.in_flight_at = begins] = row
    BY <1>2, <2>4, <2>5, <2>6 DEF rows
  <2> QED BY <2>3, <2>7, <2>8 DEF rows
<1> HIDE DEF seen
<1>. n \in Nat /\ n = seen.attempt + 1
  BY SMTT(30), <1>4
<1> HIDE DEF n
<1>6. /\ row \in Row /\ SameJob(seen, row) /\ row.attempt = seen.attempt + 1
      /\ row.state = "dispatched"
  <2>1. row \in Row
    BY <1>3, <1>4 DEF Row, State
  <2>2. row.attempt = seen.attempt + 1 /\ row.state = "dispatched"
    BY <1>3 DEF Row
  <2>3. SameJob(seen, row)
    BY <1>3 DEF Row, SameJob
  <2> QED BY <2>1, <2>2, <2>3
<1> HIDE DEF row
<1>7. GoodRow(row)
  BY SMTT(30), <1>2, <1>3, <1>4, <1>6, JobAssumption DEF GoodRow, SameJob, InFlight
<1>8. history' = [HistorySeen(t) EXCEPT ![i] = Append(HistorySeen(t)[i], Event(t, "job.dispatched"))]
  BY DEF ClaimJob
<1>9. Event(t, "job.dispatched") \in Entry
  BY EventEntry DEF TxInv, EventType
<1>10. Append(HistorySeen(t)[i], Event(t, "job.dispatched")) \in Seq(Entry)
  BY SMTT(30), <1>2, <1>9, SeenRows
<1>11. Tables
  BY <1>2, <1>5, <1>6, <1>7, <1>8, <1>10, SeenRows DEF Tables
<1>12. ASSUME NEW j \in Jobs, j # i PROVE (Kept(j) /\ tx[t].expired # j) \/ ReconciledBy(t, j)
  <2>0. jobs'[j] = RowsSeen(t)[j] /\ history'[j] = HistorySeen(t)[j]
    BY <1>5, <1>8, <1>12, SeenRows
  <2>1. CASE tx[t].expired # j
    BY <2>0, <2>1, SeenRows DEF Kept
  <2>2. CASE tx[t].expired = j
    <3>1. /\ Expired(j) /\ jobs'[j] = Reconciled(j)
          /\ history'[j] = Append(history[j], ReconcileEvent(t, j))
      BY <2>0, <2>2, SeenRows
    <3>2. PICK type \in EventType \ Executions : ReconcileEvent(t, j) = Event(t, type)
      BY <3>1, ReconcileEventType DEF TxInv
    <3> QED BY <2>2, <3>1, <3>2, ReconciledRow DEF ReconciledBy, TxInv
  <2> QED BY <2>1, <2>2
<1>13. DispatchedBy(t, i)
  <2>0. /\ jobs'[i] = row
        /\ history'[i] = Append(HistorySeen(t)[i], Event(t, "job.dispatched"))
    BY <1>2, <1>5, <1>8, SeenRows
  <2>1. CASE tx[t].expired # i
    <3>1. seen = jobs[i] /\ HistorySeen(t)[i] = history[i]
      BY <1>2, <2>1, SeenRows DEF seen
    <3> QED BY <1>1, <1>2, <1>4, <1>6, <2>0, <3>1 DEF DispatchedBy
  <2>2. CASE tx[t].expired = i
    <3>1. /\ Expired(i) /\ seen = Reconciled(i)
          /\ HistorySeen(t)[i] = Append(history[i], ReconcileEvent(t, i))
      BY <1>2, <2>2, SeenRows DEF seen
    <3>2. /\ Requeues(i) /\ SameJob(jobs[i], seen) /\ seen.attempt = jobs[i].attempt
      BY <1>2, <3>1, ReconciledRow DEF TxInv
    <3>3. ReconcileEvent(t, i) = Event(t, "job.requeued")
      BY <1>2, <3>1, <3>2, ReconcileEventType DEF TxInv
    <3> QED BY <1>1, <1>6, <2>0, <2>2, <3>1, <3>2, <3>3 DEF DispatchedBy, SameJob, Requeues
  <2> QED BY <2>1, <2>2
<1> QED BY <1>11, <1>12, <1>13 DEF Writes, ClaimJob

\* A start and an outcome move the locked row on.
LEMMA AdvanceWrites ==
    ASSUME TxInv, NEW t \in Procs, tx[t].expired = None, NEW to, NEW type \in EventType,
           \/ At(t, "start", "locked") /\ to = "running" /\ type = "job.started"
           \/ At(t, "complete", "locked") /\ to \in {"succeeded", "failed"},
           Advance(t, tx[t].job, to, type)
    PROVE  Writes(t) /\ Tables
<1> DEFINE i == tx[t].job
           n == IF to = "running" THEN begins ELSE 0
           row == [jobs[i] EXCEPT !.state = to, !.expired = FALSE, !.in_flight_at = n]
<1>1. /\ Reporting(tx[t]) /\ tx[t].pc = "locked" /\ i \in Jobs
      /\ \/ tx[t].op = "start" /\ jobs[i].state = "dispatched" /\ to = "running"
            /\ type = "job.started"
         \/ tx[t].op = "complete" /\ jobs[i].state = "running" /\ to \in {"succeeded", "failed"}
  <2>1. GoodTx(tx[t]) /\ Knows(t)
    BY DEF TxInv, Typed
  <2> QED BY <2>1 DEF At, GoodTx, Knows, Resting, Creating, Claiming, Listing, Reading, Reporting
<1>2. /\ jobs \in [Jobs -> Row] /\ jobs[i] \in Row /\ GoodRow(jobs[i]) /\ n \in Nat
      /\ history \in [Jobs -> Seq(Entry)]
  BY <1>1 DEF TxInv, Typed
<1>3. jobs' = [jobs EXCEPT ![i] = row]
  <2> DEFINE one == [jobs EXCEPT ![i].state = to]
             two == [one EXCEPT ![i].expired = FALSE]
             three == [two EXCEPT ![i].in_flight_at = n]
  <2>1. jobs' = three
    BY DEF Advance
  <2>2. one = [jobs EXCEPT ![i] = [jobs[i] EXCEPT !.state = to]]
    OBVIOUS
  <2> HIDE DEF one
  <2>3. two = [jobs EXCEPT ![i] = [one[i] EXCEPT !.expired = FALSE]]
    BY <1>1, <1>2, <2>2
  <2> HIDE DEF two
  <2>4. three = [jobs EXCEPT ![i] = [two[i] EXCEPT !.in_flight_at = n]]
    BY <1>1, <1>2, <2>3
  <2>5. [two[i] EXCEPT !.in_flight_at = n] = row
    BY <1>1, <1>2, <2>2, <2>3
  <2> QED BY <2>1, <2>4, <2>5
<1> HIDE DEF n
<1>4. to \in State
  BY <1>1 DEF State
<1>5. row \in Row
  BY <1>2, <1>4 DEF Row
<1>6. row.state = to /\ row.attempt = jobs[i].attempt /\ SameJob(jobs[i], row)
  BY <1>2 DEF Row, SameJob
<1> HIDE DEF row
<1>7. GoodRow(row)
  BY <1>1, <1>2, <1>5, <1>6 DEF GoodRow, SameJob, InFlight
<1>8. Append(history[i], Event(t, type)) \in Seq(Entry)
  BY SMTT(30), <1>1, <1>2, EventEntry DEF TxInv
<1>9. history' = [history EXCEPT ![i] = Append(history[i], Event(t, type))]
  BY DEF Advance
<1>10. Tables
  <2>1. \A j \in Jobs : GoodRow(jobs[j])
    BY DEF TxInv, Typed
  <2> QED BY <1>1, <1>2, <1>3, <1>5, <1>7, <1>8, <1>9, <2>1 DEF Tables
<1>11. ASSUME NEW j \in Jobs, j # i PROVE Kept(j) /\ tx[t].expired # j
  BY <1>2, <1>3, <1>9, <1>11, TxAssumption DEF Kept, Jobs
<1>12. ReportedBy(t, i)
  <2>1. jobs'[i] = row /\ history'[i] = Append(history[i], Event(t, type))
    BY <1>1, <1>2, <1>3, <1>9
  <2> QED BY <1>1, <1>6, <2>1 DEF ReportedBy
<1> QED BY <1>10, <1>11, <1>12 DEF Writes, Advance

\* A creation adds one row.
LEMMA InsertWrites ==
    ASSUME TxInv, NEW t \in Procs, InsertJob(t)
    PROVE  Tables /\ \E j \in Jobs : Inserts(t, j)
<1>1. /\ At(t, "create", "counted") /\ tx[t] \in Tx
      /\ tx[t].agent \in Agents /\ tx[t].operator \in Operators /\ tx[t].key \in Keys
  <2>1. GoodTx(tx[t])
    BY DEF TxInv, Typed
  <2> QED BY <2>1 DEF InsertJob, At, GoodTx, Resting, Creating, Claiming, Listing, Reading,
                      Reporting
<1> DEFINE row == [NoRow EXCEPT !.agent = tx[t].agent, !.operator = tx[t].operator,
                                !.key = tx[t].key, !.state = "queued",
                                !.created_at = tx[t].start, !.after = tx[t].after]
<1>2. PICK j \in Jobs : /\ ~Exists(j)
                        /\ jobs' = [jobs EXCEPT ![j] = row]
                        /\ history' = [history EXCEPT ![j] = <<Event(t, "job.created")>>]
  BY DEF InsertJob
<1>3. tx[t].start \in Nat /\ tx[t].after \in SUBSET Jobs
  BY <1>1 DEF Tx
<1>4. row \in Row
  BY <1>1, <1>3 DEF NoRow, Row, State
<1>5. /\ row.agent = tx[t].agent /\ row.operator = tx[t].operator /\ row.key = tx[t].key
      /\ row.state = "queued" /\ row.attempt = 0 /\ row.created_at = tx[t].start
      /\ row.after = tx[t].after
  BY DEF NoRow
<1> HIDE DEF row
<1>6. GoodRow(row)
  BY SMTT(30), <1>1, <1>4, <1>5, JobAssumption DEF GoodRow, InFlight
<1>7. <<Event(t, "job.created")>> \in Seq(Entry)
  BY SMTT(30), EventEntry DEF TxInv, EventType
<1>8. /\ jobs \in [Jobs -> Row] /\ history \in [Jobs -> Seq(Entry)]
      /\ \A i \in Jobs : GoodRow(jobs[i])
  BY DEF TxInv, Typed
<1>9. Tables
  BY <1>2, <1>4, <1>6, <1>7, <1>8 DEF Tables
<1>10. Inserts(t, j)
  BY <1>1, <1>2, <1>5, <1>8 DEF Inserts, InsertJob, Kept
<1> QED BY <1>9, <1>10

-----------------------------------------------------------------------------
(* The kinds of steps *)

LocksMore(t) ==
    \/ LockOperator(t) \/ LockAgentAndCount(t) \/ LockAgent(t)
    \/ At(t, "list", "begun") /\ LockExpired(t)
    \/ ReconcileAgent(t)
    \/ At(t, "listall", "begun") /\ ListJobs(t)
    \/ At(t, "get", "begun") /\ GetJobByID(t)
    \/ LockOldest(t)
    \/ LockJob(t, "start", "dispatched") \/ LockJob(t, "complete", "running")

GivesUp(t) == Release(t) /\ UNCHANGED <<jobs, history>>

LEMMA Kinds ==
    ASSUME TxInv, [Next]_vars
    PROVE  \/ \E t \in Procs : Arrive(t) \/ BeginClaim(t)
           \/ \E t \in Procs : LocksMore(t)
           \/ \E t \in Procs : GivesUp(t)
           \/ Tables /\ \E t \in Procs, j \in Jobs : Inserts(t, j)
           \/ Tables /\ \E t \in Procs : Writes(t)
           \/ \E j \in Jobs : Expire(j)
           \/ UNCHANGED vars
<1>1. ASSUME NEW t \in Procs, Proceed(t)
      PROVE  \/ BeginClaim(t) \/ LocksMore(t) \/ GivesUp(t)
             \/ Tables /\ \E j \in Jobs : Inserts(t, j)
             \/ Tables /\ Writes(t)
  <2>1. CASE LockOperator(t) \/ LockAgentAndCount(t) \/ LockAgent(t) \/ ReconcileAgent(t)
             \/ LockOldest(t) \/ BeginClaim(t)
    BY <2>1 DEF LocksMore
  <2>2. CASE ReplayJob(t)
    BY <2>2 DEF ReplayJob, GivesUp
  <2>3. CASE InsertJob(t)
    BY <2>3, InsertWrites
  <2>4. CASE ClaimNothing(t)
    BY <2>4, ReconcileWrites DEF ClaimNothing
  <2>5. CASE ClaimJob(t)
    BY <2>5, ClaimWrites
  <2>6. CASE ListAgentJobs(t)
    BY <2>6, ReconcileWrites DEF ListAgentJobs, LocksMore
  <2>7. CASE ListJobs(t)
    <3>1. CASE At(t, "listall", "reconciled") /\ CommitReconciled(t)
      BY <3>1, ReconcileWrites
    <3> QED BY <2>7, <3>1 DEF ListJobs, LocksMore
  <2>8. CASE GetJobByID(t)
    <3>1. CASE At(t, "get", "reconciled") /\ CommitReconciled(t)
      BY <3>1, ReconcileWrites
    <3> QED BY <2>8, <3>1 DEF GetJobByID, LocksMore
  <2>9. CASE StartAgentJob(t)
    <3>1. CASE At(t, "start", "locked") /\ tx[t].expired = None
             /\ Advance(t, tx[t].job, "running", "job.started")
      BY <3>1, AdvanceWrites DEF EventType
    <3> QED BY <2>9, <3>1 DEF StartAgentJob, LocksMore
  <2>10. CASE CompleteAgentJob(t)
    <3>1. CASE CommitReconciled(t)
      BY <3>1, ReconcileWrites
    <3>2. CASE At(t, "complete", "locked") /\ tx[t].expired = None
             /\ Advance(t, tx[t].job, "succeeded", "job.succeeded")
      BY <3>2, AdvanceWrites DEF EventType
    <3>3. CASE At(t, "complete", "locked") /\ tx[t].expired = None
             /\ Advance(t, tx[t].job, "failed", "job.failed")
      BY <3>3, AdvanceWrites DEF EventType
    <3> QED BY <2>10, <3>1, <3>2, <3>3 DEF CompleteAgentJob, LocksMore
  <2> QED BY <1>1, <2>1, <2>2, <2>3, <2>4, <2>5, <2>6, <2>7, <2>8, <2>9, <2>10 DEF Proceed
<1>2. ASSUME NEW t \in Procs, Rollback(t) PROVE GivesUp(t)
  BY <1>2 DEF Rollback, GivesUp
<1> QED BY <1>1, <1>2 DEF Next, Done

\* What a claim reads does not change while the rows of its agent do not.
LEMMA SameView ==
    ASSUME NEW u \in Procs,
           tx'[u].expired = tx[u].expired, tx'[u].agent = tx[u].agent,
           \A j \in Jobs : \/ jobs'[j] = jobs[j]
                           \/ /\ jobs[j].agent # tx[u].agent /\ jobs'[j].agent # tx[u].agent
                              /\ tx[u].expired # j
    PROVE  /\ Oldest(u)' = Oldest(u)
           /\ HasInFlight(u)' <=> HasInFlight(u)
<1>1. ASSUME NEW j \in Jobs
      PROVE  \/ RowsSeen(u)'[j] = RowsSeen(u)[j] /\ jobs'[j] = jobs[j]
             \/ RowsSeen(u)[j].agent # tx[u].agent /\ RowsSeen(u)'[j].agent # tx[u].agent
  <2>1. CASE jobs'[j] = jobs[j]
    <3>1. Reconciled(j)' = Reconciled(j)
      BY <2>1 DEF Reconciled, Requeues
    <3> QED BY <2>1, <3>1 DEF RowsSeen
  <2>2. CASE /\ jobs[j].agent # tx[u].agent /\ jobs'[j].agent # tx[u].agent
             /\ tx[u].expired # j
    BY <2>2 DEF RowsSeen
  <2> QED BY <2>1, <2>2
<1>2. HasInFlight(u)' <=> HasInFlight(u)
  BY <1>1 DEF HasInFlight
<1>3. Oldest(u)' = Oldest(u)
  BY <1>1 DEF Oldest
<1> QED BY <1>2, <1>3

-----------------------------------------------------------------------------
(* What a transaction knows *)

\* A step that takes locks, of which it is known what it found.
LEMMA ReadsKnows ==
    ASSUME NEW t \in Procs, NEW rows, Knows(t), Goes(t, rows), Reads(t),
           \A j \in rows \cap Jobs : Exists(j),
           Reading(tx'[t]) \/ Reporting(tx'[t]) => Exists(tx'[t].job),
           tx'[t].expired # None =>
               /\ Expired(tx'[t].expired)
               /\ tx[t].op \in {"claim", "list"} => jobs[tx'[t].expired].agent = tx[t].agent,
           tx[t].op = "start" => jobs[tx'[t].job].state = "dispatched",
           tx[t].op = "complete" => jobs[tx'[t].job].state = "running",
           tx'[t].pc = "claimed" =>
               tx'[t].job \in Oldest(t) /\ ~HasInFlight(t) /\ tx'[t].expired = tx[t].expired
    PROVE  Knows(t)'
<1>1. jobs' = jobs /\ tx'[t].op = tx[t].op /\ tx'[t].agent = tx[t].agent
  BY DEF Reads, Keeps
<1>2. \A j \in Jobs : Holds(tx'[t], j) => Exists(j)'
  BY <1>1 DEF Goes, Knows, Exists, Rows
<1>3. Reading(tx'[t]) \/ Reporting(tx'[t]) => jobs'[tx'[t].job].state # "absent"
  BY <1>1 DEF Exists
<1>4. tx'[t].expired # None =>
        /\ jobs'[tx'[t].expired].state \in InFlight /\ jobs'[tx'[t].expired].expired
        /\ tx'[t].op \in {"claim", "list"} => jobs'[tx'[t].expired].agent = tx'[t].agent
  BY <1>1 DEF Expired
<1>5. /\ At(t, "start", "locked")' => jobs'[tx'[t].job].state = "dispatched"
      /\ At(t, "complete", "locked")' => jobs'[tx'[t].job].state = "running"
  BY <1>1 DEF At
<1>6. At(t, "claim", "claimed")' => tx'[t].job \in Oldest(t)' /\ ~HasInFlight(t)'
  BY <1>1, SameView DEF At
<1> QED BY <1>2, <1>3, <1>4, <1>5, <1>6 DEF Knows, Exists, Expired

\* Every step that takes locks.
LEMMA LocksMoreGoes ==
    ASSUME TxInv, NEW t \in Procs, LocksMore(t)
    PROVE  Reads(t) /\ Knows(t)' /\ \E rows : Goes(t, rows)
<1>0. /\ Knows(t) /\ GoodTx(tx[t])
      /\ \A r \in Operators \cup Agents : r \notin Jobs
      /\ \A j \in Jobs : jobs[j].state \in InFlight => Exists(j)
      /\ None \notin Jobs
  BY TxAssumption DEF TxInv, Typed, Jobs, InFlight, Exists
<1>1. CASE LockOperator(t)
  <2>1. /\ Goes(t, {tx[t].operator}) /\ Reads(t) /\ tx'[t].pc \in {"new", "replay"}
        /\ tx[t].op = "create"
    BY <1>1, LockOperatorGoes DEF LockOperator, At
  <2>2. tx[t].operator \in Operators /\ Creating(tx'[t])
    BY <1>0, <2>1 DEF Goes, Reads, Keeps, GoodTx, Resting, Creating, Claiming, Listing, Reading,
                      Reporting
  <2>3. Knows(t)'
    BY <1>0, <2>1, <2>2, ReadsKnows DEF Creating, Reading, Reporting
  <2> QED BY <2>1, <2>3
<1>2. CASE LockAgentAndCount(t)
  <2>1. /\ Goes(t, {tx[t].agent}) /\ Reads(t) /\ tx'[t].pc = "counted" /\ tx[t].op = "create"
    BY <1>2, LockAgentAndCountGoes DEF At
  <2>2. tx[t].agent \in Agents /\ Creating(tx'[t])
    BY <1>0, <2>1 DEF Goes, Reads, Keeps, GoodTx, Resting, Creating, Claiming, Listing, Reading,
                      Reporting
  <2>3. Knows(t)'
    BY <1>0, <2>1, <2>2, ReadsKnows DEF Creating, Reading, Reporting
  <2> QED BY <2>1, <2>3
<1>3. CASE LockAgent(t)
  <2>1. /\ Goes(t, {tx[t].agent}) /\ Reads(t) /\ Claiming(tx'[t]) /\ tx'[t].pc = "locked"
    BY <1>3, LockAgentGoes
  <2>2. tx[t].agent \in Agents /\ tx[t].op = "claim"
    BY <2>1 DEF Claiming, Reads, Keeps
  <2>3. Knows(t)'
    BY <1>0, <2>1, <2>2, ReadsKnows DEF Claiming, Reading, Reporting
  <2> QED BY <2>1, <2>3
<1>4. CASE LockExpired(t) /\ (At(t, "claim", "locked") \/ At(t, "list", "begun"))
  <2>1. /\ Goes(t, ExpiredOf(tx[t].agent)) /\ Reads(t)
        /\ Claiming(tx'[t]) \/ Listing(tx'[t])
        /\ tx'[t].pc = "reconciled"
        /\ tx'[t].expired # None => tx'[t].expired \in ExpiredOf(tx[t].agent)
    BY <1>4, LockExpiredGoes
  <2>2. \A j \in ExpiredOf(tx[t].agent) : j \in Jobs /\ Expired(j) /\ jobs[j].agent = tx[t].agent
                                          /\ Exists(j)
    BY <1>0 DEF ExpiredOf, Expired
  <2>3. tx[t].op \in {"claim", "list"}
    BY <1>4 DEF At
  <2>4. ~(Reading(tx'[t]) \/ Reporting(tx'[t]))
    BY <2>1 DEF Claiming, Listing, Reading, Reporting
  <2>5. Knows(t)'
    BY <1>0, <2>1, <2>2, <2>3, <2>4, ReadsKnows
  <2> QED BY <2>1, <2>5
<1>5. CASE At(t, "listall", "begun") /\ ListJobs(t)
  <2>1. PICK x \in Jobs \cup {None} :
          /\ Goes(t, {x} \ {None}) /\ Reads(t)
          /\ Listing(tx'[t]) /\ tx'[t].pc = "reconciled" /\ tx'[t].expired = x
          /\ x # None => Expired(x)
    BY <1>5, ListJobsGoes
  <2>2. \A j \in ({x} \ {None}) \cap Jobs : Exists(j)
    BY <1>0, <2>1 DEF Expired
  <2>3. tx[t].op = "listall" /\ ~(Reading(tx'[t]) \/ Reporting(tx'[t]))
    BY <1>5, <2>1 DEF At, Listing, Reading, Reporting
  <2>4. Knows(t)'
    BY <1>0, <2>1, <2>2, <2>3, ReadsKnows
  <2> QED BY <2>1, <2>4
<1>6. CASE \/ At(t, "get", "begun") /\ GetJobByID(t)
           \/ LockJob(t, "start", "dispatched") \/ LockJob(t, "complete", "running")
  <2>1. /\ Goes(t, {tx[t].job}) /\ Reads(t) /\ tx'[t].job = tx[t].job
        /\ \/ Reading(tx'[t]) /\ tx'[t].pc = "reconciled"
           \/ Reporting(tx'[t]) /\ tx'[t].pc = "locked"
        /\ tx'[t].expired # None => tx'[t].expired = tx[t].job /\ Expired(tx[t].job)
        /\ tx[t].op = "start" => jobs[tx[t].job].state = "dispatched"
        /\ tx[t].op = "complete" => jobs[tx[t].job].state = "running"
    BY <1>6, LockJobGoes
  <2>2. tx[t].op \in {"get", "start", "complete"}
    BY <2>1 DEF Reads, Keeps, Reading, Reporting
  <2>3. Exists(tx[t].job)
    <3>1. Reading(tx[t]) \/ Reporting(tx[t])
      BY <1>0, <1>6 DEF At, LockJob, GoodTx, Resting, Creating, Claiming, Listing, Reading,
                        Reporting
    <3> QED BY <1>0, <3>1 DEF Knows
  <2>4. Knows(t)'
    BY <1>0, <2>1, <2>2, <2>3, ReadsKnows
  <2> QED BY <2>1, <2>4
<1>7. CASE LockOldest(t)
  <2>1. /\ Goes(t, {tx'[t].job}) /\ Reads(t)
        /\ Claiming(tx'[t]) /\ tx'[t].pc = "claimed" /\ tx'[t].expired = tx[t].expired
        /\ tx'[t].job \in Oldest(t) /\ ~HasInFlight(t)
    BY <1>7, LockOldestGoes
  <2>2. Exists(tx'[t].job)
    <3>1. tx'[t].job \in Jobs /\ RowsSeen(t)[tx'[t].job].state = "queued"
      BY <2>1 DEF Oldest
    <3>2. CASE tx[t].expired # tx'[t].job
      BY <3>1, <3>2, SeenRows DEF Exists
    <3>3. CASE tx[t].expired = tx'[t].job
      BY <1>0, <3>1, <3>3, SeenRows DEF Expired
    <3> QED BY <3>2, <3>3
  <2>3. tx[t].op = "claim" /\ ~(Reading(tx'[t]) \/ Reporting(tx'[t]))
    BY <2>1 DEF Claiming, Reading, Reporting, Reads, Keeps
  <2>4. Knows(t)'
    BY <1>0, <2>1, <2>2, <2>3, ReadsKnows DEF Knows
  <2> QED BY <2>1, <2>4
<1> QED BY <1>1, <1>2, <1>3, <1>4, <1>5, <1>6, <1>7 DEF LocksMore, ReconcileAgent

\* A transaction that has just begun, and one that is over.
LEMMA FreshKnows ==
    ASSUME Typed, NEW t \in Procs, GoodTx(tx'[t]), tx'[t].pc \in {"idle", "hint", "begun"},
           Reading(tx'[t]) \/ Reporting(tx'[t]) => jobs'[tx'[t].job].state # "absent"
    PROVE  Knows(t)'
<1>1. tx'[t].expired = None /\ \A r \in Rows : ~Holds(tx'[t], r)
  BY SMTT(30), FreshHoldsNothing
<1> QED BY <1>1 DEF Knows, Exists, At, Rows

\* What a transaction knows does not change by what another one may do.
LEMMA OtherKnows ==
    ASSUME TxInv, NEW u \in Procs, tx'[u] = tx[u],
           \A j \in Jobs :
               \/ jobs'[j] = jobs[j]
               \/ /\ Exists(j) => jobs'[j].state # "absent"
                  /\ tx[u].expired # j
                  /\ Holds(tx[u], j) => jobs'[j].state = jobs[j].state
                  /\ At(u, "claim", "claimed") =>
                        jobs[j].agent # tx[u].agent /\ jobs'[j].agent # tx[u].agent
    PROVE  Knows(u)'
<1>0. Knows(u) /\ GoodTx(tx[u])
  BY DEF TxInv, Typed
<1>1. \A j \in Jobs : Holds(tx[u], j) => jobs'[j].state # "absent"
  BY <1>0 DEF Knows, Exists
<1>2. Reading(tx[u]) \/ Reporting(tx[u]) => jobs'[tx[u].job].state # "absent"
  BY <1>0 DEF Knows, Exists, Reading, Reporting
<1>3. tx[u].expired # None => jobs'[tx[u].expired] = jobs[tx[u].expired]
  BY <1>0 DEF GoodTx, Tx
<1>4. /\ At(u, "start", "locked") => jobs'[tx[u].job].state = "dispatched"
      /\ At(u, "complete", "locked") => jobs'[tx[u].job].state = "running"
  <2> SUFFICES ASSUME At(u, "start", "locked") \/ At(u, "complete", "locked")
               PROVE  jobs'[tx[u].job].state = jobs[tx[u].job].state
    BY <1>0 DEF Knows
  <2>1. tx[u].job \in Jobs /\ Holds(tx[u], tx[u].job)
    BY <1>0 DEF At, Holds, GoodTx, Resting, Creating, Claiming, Listing, Reading, Reporting
  <2> QED BY <2>1
<1>5. At(u, "claim", "claimed") => tx[u].job \in Oldest(u)' /\ ~HasInFlight(u)'
  <2> SUFFICES ASSUME At(u, "claim", "claimed")
               PROVE  tx[u].job \in Oldest(u)' /\ ~HasInFlight(u)'
    OBVIOUS
  <2>1. Oldest(u)' = Oldest(u) /\ (HasInFlight(u)' <=> HasInFlight(u))
    BY SameView
  <2> QED BY <1>0, <2>1 DEF Knows
<1> QED BY <1>0, <1>1, <1>2, <1>3, <1>4, <1>5 DEF Knows, Exists, Expired, At

\* A transaction holds the rows that it is about to write.
LEMMA HoldsExpired ==
    ASSUME TxInv, NEW t \in Procs, tx[t].expired # None
    PROVE  Holds(tx[t], tx[t].expired) /\ tx[t].expired \in Jobs
  BY DEF TxInv, Typed, GoodTx, Tx, Holds, Resting, Creating, Claiming, Listing, Reading, Reporting

LEMMA OnlyHolder ==
    ASSUME Locks, NEW t \in Procs, NEW u \in Procs, NEW r \in Rows,
           Holds(tx[t], r), Holds(tx[u], r)
    PROVE  t = u
  BY SMTT(30) DEF Locks

\* The job of a claim belongs to its agent, whose row it holds.
LEMMA ClaimHolds ==
    ASSUME TxInv, NEW t \in Procs, At(t, "claim", "claimed")
    PROVE  /\ tx[t].agent \in Agents /\ Holds(tx[t], tx[t].agent)
           /\ tx[t].job \in Jobs /\ Holds(tx[t], tx[t].job)
           /\ jobs[tx[t].job].agent = tx[t].agent
           /\ \A j \in Jobs : jobs[j].state \in InFlight /\ jobs[j].agent = tx[t].agent
                                => tx[t].expired = j
<1>1. Claiming(tx[t]) /\ tx[t].pc = "claimed" /\ Knows(t)
  BY DEF At, TxInv, Typed, GoodTx, Resting, Creating, Claiming, Listing, Reading, Reporting
<1>2. /\ tx[t].agent \in Agents /\ Holds(tx[t], tx[t].agent)
      /\ tx[t].job \in Jobs /\ Holds(tx[t], tx[t].job)
  BY <1>1 DEF Claiming, Holds
<1>3. tx[t].job \in Oldest(t) /\ ~HasInFlight(t)
  BY <1>1 DEF Knows
<1>4. RowsSeen(t)[tx[t].job].agent = tx[t].agent
  BY <1>3 DEF Oldest
<1>5. jobs[tx[t].job].agent = tx[t].agent
  <2>1. CASE tx[t].expired # tx[t].job
    BY <1>2, <1>4, <2>1, SeenRows
  <2>2. CASE tx[t].expired = tx[t].job
    <3>1. Expired(tx[t].job) /\ RowsSeen(t)[tx[t].job] = Reconciled(tx[t].job)
      BY <1>2, <2>2, SeenRows
    <3> QED BY <1>2, <1>4, <3>1, ReconciledRow DEF TxInv, SameJob
  <2> QED BY <2>1, <2>2
<1>6. ASSUME NEW j \in Jobs, jobs[j].state \in InFlight, jobs[j].agent = tx[t].agent
      PROVE  tx[t].expired = j
  BY <1>3, <1>6, SeenRows DEF HasInFlight
<1> QED BY <1>2, <1>5, <1>6

-----------------------------------------------------------------------------
(* The invariant of the locks *)

\* The rows that a commit changes are held by nobody else, nor does it change the
\* rows of an agent whose next job another one has claimed.
LEMMA WritesOwn ==
    ASSUME TxInv, NEW t \in Procs, Writes(t), NEW u \in Procs \ {t}
    PROVE  \A j \in Jobs :
               \/ jobs'[j] = jobs[j]
               \/ /\ Exists(j) => jobs'[j].state # "absent"
                  /\ tx[u].expired # j
                  /\ Holds(tx[u], j) => jobs'[j].state = jobs[j].state
                  /\ At(u, "claim", "claimed") =>
                        jobs[j].agent # tx[u].agent /\ jobs'[j].agent # tx[u].agent
<1> SUFFICES ASSUME NEW j \in Jobs, jobs'[j] # jobs[j]
             PROVE  /\ jobs'[j].state # "absent"
                    /\ tx[u].expired # j /\ ~Holds(tx[u], j)
                    /\ At(u, "claim", "claimed") =>
                        jobs[j].agent # tx[u].agent /\ jobs'[j].agent # tx[u].agent
  OBVIOUS
<1>1. ReconciledBy(t, j) \/ DispatchedBy(t, j) \/ ReportedBy(t, j)
  BY DEF Writes, Kept
<1>2. jobs'[j].state # "absent" /\ jobs'[j].agent = jobs[j].agent
  BY <1>1 DEF ReconciledBy, DispatchedBy, ReportedBy, SameJob
<1>3. Holds(tx[t], j) /\ j \in Rows
  <2>1. CASE ReconciledBy(t, j)
    BY <2>1, HoldsExpired, TxAssumption DEF ReconciledBy, Jobs, Rows
  <2>2. CASE DispatchedBy(t, j)
    BY <2>2, ClaimHolds DEF DispatchedBy, Rows
  <2>3. CASE ReportedBy(t, j)
    BY <2>3 DEF ReportedBy, Holds, Reporting, Rows
  <2> QED BY <1>1, <2>1, <2>2, <2>3
<1>4. ~Holds(tx[u], j)
  BY <1>3, OnlyHolder DEF TxInv
<1>5. tx[u].expired # j
  BY <1>4, HoldsExpired, TxAssumption DEF Jobs
<1>6. ASSUME At(u, "claim", "claimed") PROVE jobs[j].agent # tx[u].agent
  <2>1. CASE DispatchedBy(t, j)
    <3>1. At(t, "claim", "claimed") /\ tx[t].job = j
      BY <2>1 DEF DispatchedBy
    <3>2. /\ tx[t].agent \in Rows /\ Holds(tx[t], tx[t].agent) /\ Holds(tx[u], tx[u].agent)
          /\ jobs[j].agent = tx[t].agent
      BY <1>6, <3>1, ClaimHolds DEF Rows
    <3>3. tx[t].agent # tx[u].agent
      BY <3>2, OnlyHolder DEF TxInv
    <3> QED BY <3>2, <3>3
  <2>2. CASE ReconciledBy(t, j) \/ ReportedBy(t, j)
    <3>1. jobs[j].state \in InFlight
      BY <2>2 DEF ReconciledBy, ReportedBy, Expired, InFlight
    <3> QED BY <1>5, <1>6, <3>1, ClaimHolds
  <2> QED BY <1>1, <2>1, <2>2
<1> QED BY <1>2, <1>4, <1>5, <1>6

LEMMA InsertsOwn ==
    ASSUME TxInv, NEW t \in Procs, NEW i \in Jobs, Inserts(t, i), NEW u \in Procs \ {t}
    PROVE  \A j \in Jobs :
               \/ jobs'[j] = jobs[j]
               \/ /\ Exists(j) => jobs'[j].state # "absent"
                  /\ tx[u].expired # j
                  /\ Holds(tx[u], j) => jobs'[j].state = jobs[j].state
                  /\ At(u, "claim", "claimed") =>
                        jobs[j].agent # tx[u].agent /\ jobs'[j].agent # tx[u].agent
<1>1. ~Exists(i) /\ jobs'[i].agent = tx[t].agent /\ \A j \in Jobs \ {i} : jobs'[j] = jobs[j]
  BY DEF Inserts, Kept
<1>2. ~Holds(tx[u], i)
  BY <1>1 DEF TxInv, Knows
<1>3. tx[u].expired # i
  BY <1>2, HoldsExpired, TxAssumption DEF Jobs
<1>4. jobs[i].agent = None
  BY SMTT(30), <1>1 DEF TxInv, Typed, GoodRow, Exists, NoRow
<1>5. tx[t].agent \in Rows /\ Holds(tx[t], tx[t].agent)
  BY DEF Inserts, At, TxInv, Typed, GoodTx, Holds, Resting, Creating, Claiming, Listing,
         Reading, Reporting, Rows
<1>6. At(u, "claim", "claimed") => /\ jobs[i].agent # tx[u].agent
                                   /\ jobs'[i].agent # tx[u].agent
  BY <1>1, <1>4, <1>5, ClaimHolds, OnlyHolder, TxAssumption DEF TxInv
<1> QED BY <1>1, <1>2, <1>3, <1>6

\* A lease or a deadline that is reached.
LEMMA ExpireOwn ==
    ASSUME TxInv, NEW i \in Jobs, Expire(i)
    PROVE  /\ jobs' \in [Jobs -> Row] /\ \A j \in Jobs : GoodRow(jobs'[j])
           /\ \A j \in Jobs : /\ SameJob(jobs[j], jobs'[j])
                              /\ jobs'[j].state = jobs[j].state /\ jobs'[j].attempt = jobs[j].attempt
           /\ \A u \in Procs, j \in Jobs :
               \/ jobs'[j] = jobs[j]
               \/ /\ Exists(j) => jobs'[j].state # "absent"
                  /\ tx[u].expired # j
                  /\ Holds(tx[u], j) => jobs'[j].state = jobs[j].state
                  /\ At(u, "claim", "claimed") =>
                        jobs[j].agent # tx[u].agent /\ jobs'[j].agent # tx[u].agent
<1> DEFINE row == [jobs[i] EXCEPT !.expired = TRUE]
<1>1. jobs \in [Jobs -> Row] /\ \A j \in Jobs : GoodRow(jobs[j])
  BY DEF TxInv, Typed
<1>2. /\ jobs' = [jobs EXCEPT ![i] = row] /\ jobs[i].state \in InFlight /\ ~jobs[i].expired
  BY <1>1 DEF Expire
<1>3. row \in Row /\ SameJob(jobs[i], row) /\ row.state = jobs[i].state
      /\ row.attempt = jobs[i].attempt
  <2>1. jobs[i] \in Row
    BY <1>1
  <2>2. row \in Row
    BY <2>1 DEF Row
  <2>3. SameJob(jobs[i], row) /\ row.state = jobs[i].state /\ row.attempt = jobs[i].attempt
    BY <2>1 DEF Row, SameJob
  <2> QED BY <2>2, <2>3
<1> HIDE DEF row
<1>4. GoodRow(row)
  <2>1. row.state # "absent" /\ row.state # "queued"
    BY <1>2, <1>3 DEF InFlight
  <2> QED BY <1>1, <1>2, <1>3, <2>1 DEF GoodRow, SameJob
<1>5. jobs'[i] = row /\ \A j \in Jobs \ {i} : jobs'[j] = jobs[j]
  BY <1>1, <1>2
<1>6. \A u \in Procs : tx[u].expired # i
  BY SMTT(30), <1>2, TxAssumption DEF TxInv, Knows, Expired, Jobs
<1>7. \A u \in Procs : At(u, "claim", "claimed") => jobs[i].agent # tx[u].agent
  BY <1>2, <1>6, ClaimHolds
<1>8. jobs' \in [Jobs -> Row] /\ \A j \in Jobs : GoodRow(jobs'[j])
  BY <1>1, <1>2, <1>3, <1>4, <1>5
<1>9. \A j \in Jobs : /\ SameJob(jobs[j], jobs'[j])
                      /\ jobs'[j].state = jobs[j].state /\ jobs'[j].attempt = jobs[j].attempt
  BY <1>3, <1>5 DEF SameJob
<1> QED BY <1>5, <1>6, <1>7, <1>8, <1>9 DEF Exists, SameJob

\* A claim dispatches only where the agent has nothing in flight.
LEMMA WritesOneInFlight ==
    ASSUME TxInv, NEW t \in Procs, Writes(t)
    PROVE  OneInFlight'
<1>1. ASSUME NEW j \in Jobs, jobs'[j].state \in InFlight
      PROVE  /\ jobs'[j].agent = jobs[j].agent
             /\ \/ DispatchedBy(t, j)
                \/ jobs[j].state \in InFlight /\ (At(t, "claim", "claimed") => tx[t].expired # j)
  BY <1>1 DEF Writes, Kept, ReconciledBy, DispatchedBy, ReportedBy, SameJob, InFlight,
              Reporting, At
<1>2. ASSUME NEW i \in Jobs, NEW j \in Jobs, DispatchedBy(t, i),
             jobs[j].state \in InFlight, At(t, "claim", "claimed") => tx[t].expired # j
      PROVE  jobs[i].agent # jobs[j].agent
  BY <1>2, ClaimHolds DEF DispatchedBy
<1> SUFFICES ASSUME NEW i \in Jobs, NEW j \in Jobs,
                    jobs'[i].state \in InFlight, jobs'[j].state \in InFlight,
                    jobs'[i].agent = jobs'[j].agent
             PROVE  i = j
  BY DEF OneInFlight
<1>3. CASE DispatchedBy(t, i) /\ DispatchedBy(t, j)
  BY <1>3 DEF DispatchedBy
<1>4. CASE DispatchedBy(t, i) /\ ~DispatchedBy(t, j)
  BY <1>1, <1>2, <1>4
<1>5. CASE ~DispatchedBy(t, i) /\ DispatchedBy(t, j)
  BY <1>1, <1>2, <1>5
<1>6. CASE ~DispatchedBy(t, i) /\ ~DispatchedBy(t, j)
  BY <1>1, <1>6 DEF TxInv, OneInFlight
<1> QED BY <1>3, <1>4, <1>5, <1>6

LEMMA TxInvInit == Init => TxInv
<1> SUFFICES ASSUME Init PROVE TxInv
  OBVIOUS
<1>1. NoRow \in Row /\ NoRow.state = "absent" /\ NoRow.attempt = 0
  BY DEF NoRow, Row, State
<1>2. GoodRow(NoRow)
  BY SMTT(30), <1>1, JobAssumption DEF GoodRow, InFlight
<1>3. \A j \in Jobs : jobs[j] = NoRow
  BY DEF Init
<1>4. \A t \in Procs : tx[t] = NoTx
  BY DEF Init
<1>5. /\ jobs \in [Jobs -> Row] /\ history \in [Jobs -> Seq(Entry)] /\ begins \in Nat
      /\ lock \in [Rows -> Procs \cup {None}]
  BY SMTT(30), <1>1 DEF Init
<1>6. Typed
  BY <1>2, <1>3, <1>4, <1>5, NoTxGood DEF Typed, Init, GoodTx
<1>7. Locks
  BY <1>4, NoTxGood, TxAssumption DEF Locks, Init
<1>8. OneInFlight
  BY <1>1, <1>3 DEF OneInFlight, InFlight
<1>9. NoTx.expired = None /\ NoTx.pc = "idle"
  BY DEF NoTx
<1>10. ASSUME NEW t \in Procs PROVE Knows(t)
  BY <1>4, <1>9, NoTxGood DEF Knows, Reading, Reporting, At, Rows
<1> QED BY <1>6, <1>7, <1>8, <1>10 DEF TxInv

\* Every step keeps the invariant.
LEMMA TxInvStep == TxInv /\ [Next]_vars => TxInv'
<1> SUFFICES ASSUME TxInv, [Next]_vars PROVE TxInv'
  OBVIOUS
<1>0. Typed /\ Locks /\ OneInFlight /\ \A t \in Procs : Knows(t)
  BY DEF TxInv
<1>1. ASSUME UNCHANGED <<jobs, history>>, NEW t \in Procs, NEW rows, Goes(t, rows), Knows(t)',
             begins' \in Nat
      PROVE  TxInv'
  <2>1. /\ Locks' /\ lock' \in [Rows -> Procs \cup {None}]
        /\ tx' \in [Procs -> Tx] /\ \A u \in Procs : GoodTx(tx'[u])
    BY <1>0, <1>1, GoesKeepsLocks
  <2>2. Typed'
    BY <1>0, <1>1, <2>1 DEF Typed
  <2>3. OneInFlight'
    BY <1>0, <1>1 DEF OneInFlight
  <2>4. \A u \in Procs \ {t} : tx'[u] = tx[u]
    BY <1>0, <1>1 DEF Goes, Typed
  <2>5. \A u \in Procs : Knows(u)'
    BY <1>1, <2>4, OtherKnows
  <2> QED BY <2>1, <2>2, <2>3, <2>5 DEF TxInv
<1>2. ASSUME NEW t \in Procs, Release(t), Tables, OneInFlight',
             \A u \in Procs \ {t} : tx'[u] = tx[u] => Knows(u)'
      PROVE  TxInv'
  <2>1. /\ Locks' /\ lock' \in [Rows -> Procs \cup {None}]
        /\ tx' \in [Procs -> Tx] /\ \A u \in Procs : GoodTx(tx'[u])
        /\ tx'[t] = NoTx /\ \A u \in Procs \ {t} : tx'[u] = tx[u]
    BY <1>0, <1>2, ReleaseKeepsLocks
  <2>2. begins' \in Nat
    BY <1>0, <1>2 DEF Release, Typed
  <2>3. Typed'
    BY <1>2, <2>1, <2>2 DEF Typed, Tables
  <2>4. NoTx.pc = "idle"
    BY DEF NoTx
  <2>5. Knows(t)'
    BY <1>0, <2>1, <2>4, NoTxGood, FreshKnows DEF Reading, Reporting
  <2> QED BY <1>2, <2>1, <2>3, <2>5 DEF TxInv
<1>3. CASE \E t \in Procs : Arrive(t) \/ BeginClaim(t)
  <2>1. PICK t \in Procs : Arrive(t) \/ BeginClaim(t)
    BY <1>3
  <2>2. Goes(t, {}) /\ Arrived(t)
    BY <1>0, <2>1, ArriveGoes
  <2>3. GoodTx(tx'[t]) /\ tx'[t].pc \in {"hint", "begun"} /\ UNCHANGED <<jobs, history>>
    BY <2>2 DEF Goes, Arrived
  <2>4. begins' \in Nat
    BY <1>0, <2>2, NatNext DEF Arrived, Typed
  <2>5. Reading(tx'[t]) \/ Reporting(tx'[t]) => jobs'[tx'[t].job].state # "absent"
    <3>1. CASE tx'[t].op \in {"start", "complete"}
      BY <2>2, <2>3, <3>1 DEF Arrived
    <3>2. CASE tx'[t].op = "get"
      BY <2>2, <2>3, <3>2 DEF Arrived, Exists
    <3> QED BY <3>1, <3>2 DEF Reading, Reporting
  <2>6. Knows(t)'
    BY <1>0, <2>3, <2>5, FreshKnows
  <2> QED BY <1>1, <2>2, <2>3, <2>4, <2>6
<1>4. CASE \E t \in Procs : LocksMore(t)
  <2>1. PICK t \in Procs : LocksMore(t)
    BY <1>4
  <2>2. Reads(t) /\ Knows(t)' /\ \E rows : Goes(t, rows)
    BY <2>1, LocksMoreGoes
  <2>3. UNCHANGED <<jobs, history>> /\ begins' \in Nat
    BY <1>0, <2>2 DEF Reads, Typed
  <2> QED BY <1>1, <2>2, <2>3
<1>5. CASE \E t \in Procs : GivesUp(t)
  <2>1. PICK t \in Procs : GivesUp(t)
    BY <1>5
  <2>2. Tables /\ OneInFlight'
    BY <1>0, <2>1 DEF Tables, OneInFlight, GivesUp, Typed
  <2>3. \A u \in Procs \ {t} : tx'[u] = tx[u] => Knows(u)'
    BY <2>1, OtherKnows DEF GivesUp
  <2> QED BY <1>2, <2>1, <2>2, <2>3 DEF GivesUp
<1>6. CASE Tables /\ \E t \in Procs, j \in Jobs : Inserts(t, j)
  <2>1. PICK t \in Procs, j \in Jobs : Inserts(t, j)
    BY <1>6
  <2>2. OneInFlight'
    <3>1. jobs'[j].state \notin InFlight /\ \A i \in Jobs \ {j} : jobs'[i] = jobs[i]
      BY <2>1 DEF Inserts, Kept, InFlight
    <3> QED BY <1>0, <3>1 DEF OneInFlight
  <2>3. \A u \in Procs \ {t} : tx'[u] = tx[u] => Knows(u)'
    BY <2>1, OtherKnows, InsertsOwn
  <2> QED BY <1>2, <1>6, <2>1, <2>2, <2>3 DEF Inserts
<1>7. CASE Tables /\ \E t \in Procs : Writes(t)
  <2>1. PICK t \in Procs : Writes(t)
    BY <1>7
  <2>2. OneInFlight'
    BY <2>1, WritesOneInFlight
  <2>3. \A u \in Procs \ {t} : tx'[u] = tx[u] => Knows(u)'
    BY <2>1, OtherKnows, WritesOwn
  <2> QED BY <1>2, <1>7, <2>1, <2>2, <2>3 DEF Writes
<1>8. CASE \E j \in Jobs : Expire(j)
  <2>1. PICK i \in Jobs : Expire(i)
    BY <1>8
  <2>2. UNCHANGED <<history, begins, lock, tx>>
    BY <2>1 DEF Expire
  <2>3. Typed'
    BY <1>0, <2>1, <2>2, ExpireOwn DEF Typed
  <2>4. Locks'
    BY <1>0, <2>2 DEF Locks
  <2>5. OneInFlight'
    BY <1>0, <2>1, ExpireOwn DEF OneInFlight, SameJob
  <2>6. \A u \in Procs : Knows(u)'
    BY <2>1, <2>2, OtherKnows, ExpireOwn
  <2> QED BY <2>3, <2>4, <2>5, <2>6 DEF TxInv
<1>9. CASE UNCHANGED vars
  <2>1. \A u \in Procs : Knows(u)'
    BY <1>9, OtherKnows DEF vars
  <2>2. Typed' /\ Locks' /\ OneInFlight'
    BY <1>0, <1>9 DEF vars, Typed, Locks, OneInFlight
  <2> QED BY <2>1, <2>2 DEF TxInv
<1> QED BY <1>3, <1>4, <1>5, <1>6, <1>7, <1>8, <1>9, Kinds

\* In every state of the store, the lock table agrees with where the transactions
\* are, and what they have read under their locks still holds.
THEOREM TxInvariance == Spec => []TxInv
  BY TxInvInit, TxInvStep, PTL DEF Spec

=============================================================================
