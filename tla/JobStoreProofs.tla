--------------------------- MODULE JobStoreProofs ---------------------------
(***************************************************************************)
(* Proofs about JobStore, for any number of agents, operators, keys and    *)
(* jobs, and any limits.                                                   *)
(*                                                                         *)
(* Most of the invariant speaks of the job rows alone, and a claim first   *)
(* reconciles rows and then dispatches one of the rows that result.  So    *)
(* the invariant is stated of a table of rows (GoodTable), each kind of    *)
(* write is shown to keep a table good, and a claim composes two of them.  *)
(***************************************************************************)
EXTENDS JobStore, TLAPS

\* Zenon first, and its time; a leaf that is not for it names SMT.
USE ZenonT(60), SMTT(30)

\* One row: absent, or readable and usable as RowsUsable says.
GoodRow(row) ==
    /\ row \in Row
    /\ row.state # "absent" =>
        /\ row.agent \in Agents
        /\ ValidateStateFailureCode(row.state, row.failure_code)
        /\ row.finished_at # NullTime <=> row.state \in Terminal
        /\ row.dispatch_expires_at # NullTime <=> row.state = "dispatched"
        /\ row.execution_deadline_at # NullTime <=> row.state = "running"
        /\ row.state = "queued" => row.attempt < MaxDispatchAttempts
        /\ row.state # "queued" => row.attempt > 0

\* The rows together: each one good, and one in flight per agent.
GoodTable(rows) ==
    /\ rows = [j \in Jobs |-> rows[j]]
    /\ \A j \in Jobs : GoodRow(rows[j])
    /\ \A i, j \in Jobs :
        /\ rows[i].state \in InFlight
        /\ rows[j].state \in InFlight
        /\ rows[i].agent = rows[j].agent
        => i = j


-----------------------------------------------------------------------------
(* Rows *)

\* Every column may be given any value of its type.
LEMMA RowUpdates ==
    ASSUME NEW row \in Row
    PROVE  /\ \A v \in Agents : [row EXCEPT !.agent = v] \in Row
           /\ \A v \in Operators : [row EXCEPT !.operator = v] \in Row
           /\ \A v \in Keys : [row EXCEPT !.key = v] \in Row
           /\ \A v \in State : [row EXCEPT !.state = v] \in Row
           /\ \A v \in 0..MaxDispatchAttempts : [row EXCEPT !.attempt = v] \in Row
           /\ \A v \in FailureCode \cup {NoFailure} : [row EXCEPT !.failure_code = v] \in Row
           /\ \A v \in NullTime..DispatchLease : [row EXCEPT !.dispatch_expires_at = v] \in Row
           /\ \A v \in NullTime..ExecutionResultDeadline :
                [row EXCEPT !.execution_deadline_at = v] \in Row
           /\ \A v \in {NullTime, 0} : [row EXCEPT !.finished_at = v] \in Row
  BY DEF Row

\* Times a row may hold.
LEMMA Times ==
    /\ NullTime \in NullTime..DispatchLease
    /\ NullTime \in NullTime..ExecutionResultDeadline
    /\ DispatchLease \in NullTime..DispatchLease
    /\ ExecutionResultDeadline \in NullTime..ExecutionResultDeadline
    /\ DispatchLease > 0
    /\ ExecutionResultDeadline > 0
  BY SMTT(30), JobAssumption DEF NullTime

\* An expired row that is reconciled keeps its agent and its attempt, and is
\* either queued again with an attempt left or finished.
LEMMA ReconciledRowGood ==
    ASSUME NEW row, GoodRow(row), Expired(row)
    PROVE  /\ GoodRow(ReconciledRow(row))
           /\ ReconciledRow(row).agent = row.agent
           /\ ReconciledRow(row).attempt = row.attempt
           /\ ReconciledRow(row).state \in {"queued"} \cup Terminal
<1> USE DEF Expired, DispatchExpired, ExecutionExpired
<1>0. row \in Row /\ row.attempt \in Nat
  BY SMTT(30) DEF GoodRow, Row
<1>1. CASE row.state = "running"
  <2>1. TimedOut(row) \in Row
    BY <1>0, RowUpdates, Times DEF TimedOut, State, FailureCode
  <2>2. /\ TimedOut(row).agent = row.agent
        /\ TimedOut(row).state = "unknown"
        /\ TimedOut(row).attempt = row.attempt
        /\ TimedOut(row).failure_code = "execution_timeout"
        /\ TimedOut(row).dispatch_expires_at = row.dispatch_expires_at
        /\ TimedOut(row).execution_deadline_at = NullTime
        /\ TimedOut(row).finished_at = 0
    BY <1>0 DEF Row, TimedOut
  <2> QED
    BY <1>0, <1>1, <2>1, <2>2
    DEF GoodRow, ReconciledRow, ValidateStateFailureCode, Terminal, NullTime
<1>2. CASE row.state = "dispatched" /\ row.attempt < MaxDispatchAttempts
  <2>1. Requeued(row) \in Row
    BY <1>0, RowUpdates, Times DEF Requeued, State
  <2>2. /\ Requeued(row).agent = row.agent
        /\ Requeued(row).state = "queued"
        /\ Requeued(row).attempt = row.attempt
        /\ Requeued(row).failure_code = row.failure_code
        /\ Requeued(row).dispatch_expires_at = NullTime
        /\ Requeued(row).execution_deadline_at = row.execution_deadline_at
        /\ Requeued(row).finished_at = row.finished_at
    BY <1>0 DEF Row, Requeued
  <2> QED
    BY <1>0, <1>2, <2>1, <2>2
    DEF GoodRow, ReconciledRow, ValidateStateFailureCode, Terminal, NullTime, Active, InFlight
<1>3. CASE row.state = "dispatched" /\ ~(row.attempt < MaxDispatchAttempts)
  <2>1. Exhausted(row) \in Row
    BY <1>0, RowUpdates, Times DEF Exhausted, State, FailureCode
  <2>2. /\ Exhausted(row).agent = row.agent
        /\ Exhausted(row).state = "failed"
        /\ Exhausted(row).attempt = row.attempt
        /\ Exhausted(row).failure_code = "dispatch_exhausted"
        /\ Exhausted(row).dispatch_expires_at = NullTime
        /\ Exhausted(row).execution_deadline_at = row.execution_deadline_at
        /\ Exhausted(row).finished_at = 0
    BY <1>0 DEF Row, Exhausted
  <2> QED
    BY <1>0, <1>3, <2>1, <2>2
    DEF GoodRow, ReconciledRow, ValidateStateFailureCode, Terminal, NullTime
<1> QED BY <1>1, <1>2, <1>3

\* A queued row with an attempt left may be dispatched.
LEMMA DispatchedRowGood ==
    ASSUME NEW row, GoodRow(row), row.state = "queued", row.attempt < MaxDispatchAttempts
    PROVE  /\ GoodRow(DispatchedRow(row))
           /\ DispatchedRow(row).agent = row.agent
           /\ DispatchedRow(row).state = "dispatched"
           /\ DispatchedRow(row).attempt = row.attempt + 1
<1>0. row \in Row /\ row.attempt + 1 \in 0..MaxDispatchAttempts /\ row.attempt + 1 > 0
  BY SMTT(30), JobAssumption DEF GoodRow, Row
<1>1. DispatchedRow(row) \in Row
  BY <1>0, RowUpdates, Times DEF DispatchedRow, State
<1>2. /\ DispatchedRow(row).agent = row.agent
      /\ DispatchedRow(row).state = "dispatched"
      /\ DispatchedRow(row).attempt = row.attempt + 1
      /\ DispatchedRow(row).failure_code = row.failure_code
      /\ DispatchedRow(row).dispatch_expires_at = DispatchLease
      /\ DispatchedRow(row).execution_deadline_at = row.execution_deadline_at
      /\ DispatchedRow(row).finished_at = row.finished_at
  BY <1>0 DEF Row, DispatchedRow
<1> QED
  BY SMTT(30), <1>0, <1>1, <1>2, Times
  DEF GoodRow, ValidateStateFailureCode, Terminal, NullTime, Active, InFlight

\* A dispatched row may be started.
LEMMA RunningRowGood ==
    ASSUME NEW row, GoodRow(row), row.state = "dispatched"
    PROVE  /\ GoodRow(RunningRow(row))
           /\ RunningRow(row).agent = row.agent
           /\ RunningRow(row).state = "running"
           /\ RunningRow(row).attempt = row.attempt
<1>0. row \in Row
  BY DEF GoodRow
<1>1. RunningRow(row) \in Row
  BY <1>0, RowUpdates, Times DEF RunningRow, State
<1>2. /\ RunningRow(row).agent = row.agent
      /\ RunningRow(row).state = "running"
      /\ RunningRow(row).attempt = row.attempt
      /\ RunningRow(row).failure_code = row.failure_code
      /\ RunningRow(row).dispatch_expires_at = NullTime
      /\ RunningRow(row).execution_deadline_at = ExecutionResultDeadline
      /\ RunningRow(row).finished_at = row.finished_at
  BY <1>0 DEF Row, RunningRow
<1> QED
  BY SMTT(30), <1>0, <1>1, <1>2, Times
  DEF GoodRow, ValidateStateFailureCode, Terminal, NullTime, Active, InFlight

\* A running row may be finished with an outcome.
LEMMA FinishedRowGood ==
    ASSUME NEW row, GoodRow(row), row.state = "running", NEW outcome \in Outcome
    PROVE  /\ GoodRow(FinishedRow(row, outcome))
           /\ FinishedRow(row, outcome).agent = row.agent
           /\ FinishedRow(row, outcome).state = outcome
           /\ FinishedRow(row, outcome).attempt = row.attempt
<1> DEFINE new == FinishedRow(row, outcome)
<1>0. row \in Row /\ outcome \in State /\ OutcomeCode(outcome) \in FailureCode \cup {NoFailure}
  BY DEF GoodRow, Outcome, State, OutcomeCode, FailureCode
<1>1. new \in Row
  BY <1>0, RowUpdates, Times DEF FinishedRow
<1>2. /\ new.agent = row.agent
      /\ new.state = outcome
      /\ new.attempt = row.attempt
      /\ new.failure_code = OutcomeCode(outcome)
      /\ new.dispatch_expires_at = row.dispatch_expires_at
      /\ new.execution_deadline_at = NullTime
      /\ new.finished_at = 0
  BY <1>0 DEF Row, FinishedRow
<1> HIDE DEF new
<1>3. GoodRow(new)
  BY SMTT(30), <1>0, <1>1, <1>2
  DEF GoodRow, ValidateStateFailureCode, Terminal, NullTime, Outcome, OutcomeCode
<1> QED BY <1>2, <1>3 DEF new

\* No row.
LEMMA NoRowGood == GoodRow(NoRow) /\ NoRow.state = "absent" /\ NoRow.attempt = 0
  BY SMTT(30), JobAssumption, Times
  DEF GoodRow, NoRow, Row, State, FailureCode, NoFailure, NullTime

\* The row CreateJob inserts.
LEMMA QueuedRowGood ==
    ASSUME NEW o \in Operators, NEW k \in Keys, NEW a \in Agents
    PROVE  /\ GoodRow(QueuedRow(o, k, a))
           /\ QueuedRow(o, k, a).agent = a
           /\ QueuedRow(o, k, a).state = "queued"
           /\ QueuedRow(o, k, a).attempt = 0
<1> DEFINE new == QueuedRow(o, k, a)
<1>1. new \in Row
  BY NoRowGood, RowUpdates DEF QueuedRow, GoodRow, State
<1>2. /\ new.agent = a
      /\ new.state = "queued"
      /\ new.attempt = 0
      /\ new.failure_code = NoFailure
      /\ new.dispatch_expires_at = NullTime
      /\ new.execution_deadline_at = NullTime
      /\ new.finished_at = NullTime
  BY DEF QueuedRow, NoRow
<1> HIDE DEF new
<1>3. GoodRow(new)
  BY SMTT(30), <1>1, <1>2, JobAssumption
  DEF GoodRow, ValidateStateFailureCode, Terminal, Active, InFlight
<1> QED BY <1>2, <1>3 DEF new

\* Time changes nothing but the time that is left, and never makes it NULL.
LEMMA ElapsedRowGood ==
    ASSUME NEW row, GoodRow(row)
    PROVE  /\ GoodRow(ElapsedRow(row))
           /\ ElapsedRow(row).agent = row.agent
           /\ ElapsedRow(row).state = row.state
           /\ ElapsedRow(row).attempt = row.attempt
<1> DEFINE new == ElapsedRow(row)
           d == Elapse(row.dispatch_expires_at)
           e == Elapse(row.execution_deadline_at)
<1>0. row \in Row
  BY DEF GoodRow
<1>1. /\ d \in NullTime..DispatchLease
      /\ e \in NullTime..ExecutionResultDeadline
      /\ d = NullTime <=> row.dispatch_expires_at = NullTime
      /\ e = NullTime <=> row.execution_deadline_at = NullTime
  BY SMTT(30), <1>0, JobAssumption DEF Row, Elapse, NullTime
<1>2. /\ new.agent = row.agent
      /\ new.state = row.state
      /\ new.attempt = row.attempt
      /\ new.failure_code = row.failure_code
      /\ new.dispatch_expires_at = d
      /\ new.execution_deadline_at = e
      /\ new.finished_at = row.finished_at
  BY <1>0 DEF Row, ElapsedRow
<1>3. new \in Row
  BY <1>0, <1>1, RowUpdates DEF ElapsedRow
<1> HIDE DEF new, d, e
<1>4. GoodRow(new)
  BY <1>0, <1>1, <1>2, <1>3 DEF GoodRow
<1> QED BY <1>2, <1>4 DEF new

-----------------------------------------------------------------------------
(* Tables *)

\* The empty table.
LEMMA EmptyTableGood == GoodTable([j \in Jobs |-> NoRow])
  BY NoRowGood DEF GoodTable, InFlight

\* CreateJob appends a queued row.
LEMMA CreateGood ==
    ASSUME GoodTable(jobs), NEW o \in Operators, NEW k \in Keys, NEW a \in Agents,
           NEW n \in Jobs, ~Exists(n)
    PROVE  GoodTable([jobs EXCEPT ![n] = QueuedRow(o, k, a)])
<1> DEFINE row == QueuedRow(o, k, a)
           rows == [jobs EXCEPT ![n] = row]
<1>1. GoodRow(row) /\ row.agent = a /\ row.state = "queued" /\ row.attempt = 0
  BY QueuedRowGood
<1> HIDE DEF row
<1>2. /\ rows = [j \in Jobs |-> rows[j]]
      /\ \A j \in Jobs : rows[j] = IF j = n THEN row ELSE jobs[j]
  BY DEF GoodTable
<1> HIDE DEF rows
<1> QED
  <2>1. \A j \in Jobs : GoodRow(rows[j])
    BY <1>1, <1>2 DEF GoodTable
  <2>2. \A i, j \in Jobs :
            rows[i].state \in InFlight /\ rows[j].state \in InFlight
            /\ rows[i].agent = rows[j].agent => i = j
    BY <1>1, <1>2 DEF GoodTable, InFlight
  <2> QED BY <1>2, <2>1, <2>2 DEF GoodTable, rows, row

\* Reconciliation of expired rows, whichever they are.
LEMMA ReconcileGood ==
    ASSUME GoodTable(jobs), NEW S \in SUBSET ExpiredJobs
    PROVE  GoodTable(ReconciledJobs(S))
<1> DEFINE rows == ReconciledJobs(S)
<1>1. /\ rows = [j \in Jobs |-> rows[j]]
      /\ \A j \in Jobs : rows[j] = IF j \in S THEN ReconciledRow(jobs[j]) ELSE jobs[j]
  BY DEF ReconciledJobs
<1>2. \A j \in Jobs : j \in S =>
        /\ jobs[j].state \in InFlight
        /\ GoodRow(rows[j])
        /\ rows[j].agent = jobs[j].agent
        /\ rows[j].attempt = jobs[j].attempt
        /\ rows[j].state \in {"queued"} \cup Terminal
  <2> SUFFICES ASSUME NEW j \in Jobs, j \in S
               PROVE  /\ jobs[j].state \in InFlight
                      /\ GoodRow(rows[j])
                      /\ rows[j].agent = jobs[j].agent
                      /\ rows[j].attempt = jobs[j].attempt
                      /\ rows[j].state \in {"queued"} \cup Terminal
    OBVIOUS
  <2>1. Expired(jobs[j]) /\ GoodRow(jobs[j])
    BY DEF GoodTable, ExpiredJobs
  <2>2. rows[j] = ReconciledRow(jobs[j])
    BY <1>1
  <2>3. jobs[j].state \in InFlight
    BY <2>1 DEF Expired, DispatchExpired, ExecutionExpired, InFlight
  <2> HIDE DEF rows
  <2> QED BY <2>1, <2>2, <2>3, ReconciledRowGood
<1> HIDE DEF rows
<1>3. \A j \in Jobs : GoodRow(rows[j])
  BY <1>1, <1>2 DEF GoodTable
<1>4. \A i, j \in Jobs :
        rows[i].state \in InFlight /\ rows[j].state \in InFlight
        /\ rows[i].agent = rows[j].agent => i = j
  BY <1>1, <1>2 DEF GoodTable, InFlight, Terminal
<1> QED BY <1>1, <1>3, <1>4 DEF GoodTable, rows

\* The dispatch of the oldest queued row of an agent that has no job in flight.
LEMMA DispatchGood ==
    ASSUME NEW old, GoodTable(old), NEW a \in Agents, NEW n \in Jobs,
           ~HasInFlight(old, a), OldestQueued(old, a, n),
           old[n].attempt < MaxDispatchAttempts
    PROVE  GoodTable([old EXCEPT ![n] = DispatchedRow(old[n])])
<1> DEFINE row == DispatchedRow(old[n])
           rows == [old EXCEPT ![n] = row]
<1>0. old[n].agent = a /\ old[n].state = "queued"
  BY DEF OldestQueued, QueuedOf
<1>1. GoodRow(row) /\ row.agent = a /\ row.state = "dispatched"
  BY <1>0, DispatchedRowGood DEF GoodTable
<1> HIDE DEF row
<1>2. /\ rows = [j \in Jobs |-> rows[j]]
      /\ \A j \in Jobs : rows[j] = IF j = n THEN row ELSE old[j]
  BY DEF GoodTable
<1>3. \A j \in Jobs : old[j].agent = a => old[j].state \notin InFlight
  BY DEF HasInFlight
<1> HIDE DEF rows
<1>4. \A j \in Jobs : GoodRow(rows[j])
  BY <1>1, <1>2 DEF GoodTable
<1>5. \A i, j \in Jobs :
        rows[i].state \in InFlight /\ rows[j].state \in InFlight
        /\ rows[i].agent = rows[j].agent => i = j
  BY <1>1, <1>2, <1>3 DEF GoodTable
<1> QED BY <1>2, <1>4, <1>5 DEF GoodTable, rows, row

\* A start or a completion: a row in flight moves on and is not queued again.
LEMMA AdvanceGood ==
    ASSUME GoodTable(jobs), NEW n \in Jobs, NEW row, GoodRow(row),
           jobs[n].state \in InFlight, row.state \in InFlight \cup Terminal,
           row.agent = jobs[n].agent, row.attempt = jobs[n].attempt
    PROVE  GoodTable([jobs EXCEPT ![n] = row])
<1> DEFINE rows == [jobs EXCEPT ![n] = row]
<1>1. /\ rows = [j \in Jobs |-> rows[j]]
      /\ \A j \in Jobs : rows[j] = IF j = n THEN row ELSE jobs[j]
  BY DEF GoodTable
<1> HIDE DEF rows
<1>2. \A j \in Jobs : GoodRow(rows[j])
  BY <1>1 DEF GoodTable
<1>3. \A i, j \in Jobs :
        rows[i].state \in InFlight /\ rows[j].state \in InFlight
        /\ rows[i].agent = rows[j].agent => i = j
  BY <1>1 DEF GoodTable
<1> QED BY <1>1, <1>2, <1>3 DEF GoodTable, rows

\* Time passes for all rows.
LEMMA ElapseGood ==
    ASSUME GoodTable(jobs)
    PROVE  GoodTable([j \in Jobs |-> ElapsedRow(jobs[j])])
<1> DEFINE rows == [j \in Jobs |-> ElapsedRow(jobs[j])]
<1>1. \A j \in Jobs : /\ GoodRow(rows[j])
                      /\ rows[j].agent = jobs[j].agent
                      /\ rows[j].state = jobs[j].state
                      /\ rows[j].attempt = jobs[j].attempt
  BY ElapsedRowGood DEF GoodTable
<1>2. rows = [j \in Jobs |-> rows[j]]
  OBVIOUS
<1> HIDE DEF rows
<1> QED BY <1>1, <1>2 DEF GoodTable, rows

-----------------------------------------------------------------------------
(* Histories *)

Starts(history) == {n \in DOMAIN history : history[n].type = "job.started"}

Begun == {"running"} \cup Terminal

\* A history holds a start at most once, and only when the row has gone past
\* the states in which it could still be given back to the queue.
GoodHistory(row, history) ==
    /\ history \in Seq(EventRow)
    /\ \A m, n \in Starts(history) : m = n
    /\ Starts(history) # {} => row.state \in Begun

\* An event that is not a start, when the row does not go back from Begun.
LEMMA OtherEvent ==
    ASSUME NEW row, NEW history, GoodHistory(row, history), NEW new,
           NEW e \in EventRow, e.type # "job.started",
           row.state \in Begun => new.state \in Begun
    PROVE  GoodHistory(new, Append(history, e))
<1>1. Append(history, e) \in Seq(EventRow) /\ history \in Seq(EventRow)
  BY SMTT(30) DEF GoodHistory
<1>2. Starts(Append(history, e)) = Starts(history)
  BY SMTT(30), <1>1 DEF Starts
<1> QED BY <1>1, <1>2 DEF GoodHistory

\* The start of a row that was not begun.
LEMMA StartEvent ==
    ASSUME NEW row, NEW history, GoodHistory(row, history), NEW new,
           NEW e \in EventRow, row.state \notin Begun, new.state \in Begun
    PROVE  GoodHistory(new, Append(history, e))
<1>1. Append(history, e) \in Seq(EventRow) /\ history \in Seq(EventRow)
  BY SMTT(30) DEF GoodHistory
<1>2. Starts(history) = {}
  BY DEF GoodHistory
<1>3. Starts(Append(history, e)) \subseteq {Len(history) + 1}
  BY SMTT(30), <1>1, <1>2 DEF Starts
<1> QED BY <1>1, <1>3 DEF GoodHistory

\* No event, and the row does not go back.
LEMMA NoEvent ==
    ASSUME NEW row, NEW history, GoodHistory(row, history), NEW new,
           row.state \in Begun => new.state \in Begun
    PROVE  GoodHistory(new, history)
  BY DEF GoodHistory

\* The events of the store are rows of job_events, and only StartAgentJob
\* writes a start.
LEMMA EventRows ==
    /\ Event("job.created", 0, NoFailure) \in EventRow
    /\ \A n \in 0..MaxDispatchAttempts :
        /\ Event("job.dispatched", n, NoFailure) \in EventRow
        /\ Event("job.started", n, NoFailure) \in EventRow
        /\ \A outcome \in Outcome :
            Event(OutcomeEvent(outcome), n, OutcomeCode(outcome)) \in EventRow
    /\ \A row \in Row : ReconcileEvent(row) \in EventRow
  BY SMTT(30), JobAssumption
  DEF Event, EventRow, EventType, FailureCode, Outcome, OutcomeEvent, OutcomeCode,
      ReconcileEvent, Row

LEMMA OtherEventTypes ==
    /\ Event("job.created", 0, NoFailure).type # "job.started"
    /\ \A n \in 0..MaxDispatchAttempts :
        /\ Event("job.dispatched", n, NoFailure).type # "job.started"
        /\ \A outcome \in Outcome :
            Event(OutcomeEvent(outcome), n, OutcomeCode(outcome)).type # "job.started"
    /\ \A row \in Row : ReconcileEvent(row).type # "job.started"
  BY DEF Event, OutcomeEvent, ReconcileEvent

GoodHistories(rows, evts) ==
    /\ evts = [j \in Jobs |-> evts[j]]
    /\ \A j \in Jobs : GoodHistory(rows[j], evts[j])

\* One row is written together with its event.
LEMMA WriteHistory ==
    ASSUME NEW rows, GoodTable(rows), NEW evts, GoodHistories(rows, evts),
           NEW n \in Jobs, NEW row, NEW e, GoodHistory(row, Append(evts[n], e))
    PROVE  GoodHistories([rows EXCEPT ![n] = row], [evts EXCEPT ![n] = Append(@, e)])
<1> DEFINE new == [evts EXCEPT ![n] = Append(@, e)]
<1>1. /\ new = [j \in Jobs |-> new[j]]
      /\ \A j \in Jobs : new[j] = IF j = n THEN Append(evts[n], e) ELSE evts[j]
  BY DEF GoodHistories
<1>2. \A j \in Jobs : [rows EXCEPT ![n] = row][j] = IF j = n THEN row ELSE rows[j]
  BY DEF GoodTable
<1> HIDE DEF new
<1> QED BY <1>1, <1>2 DEF GoodHistories, new

\* Reconciliation writes no start, and does not touch a row that was begun
\* except to finish it.
LEMMA ReconcileHistories ==
    ASSUME GoodTable(jobs), GoodHistories(jobs, events), NEW S \in SUBSET ExpiredJobs
    PROVE  GoodHistories(ReconciledJobs(S), ReconciledEvents(S))
<1> DEFINE rows == ReconciledJobs(S)
           evts == ReconciledEvents(S)
<1>1. evts = [j \in Jobs |-> evts[j]]
  BY DEF ReconciledEvents
<1>2. ASSUME NEW j \in Jobs PROVE GoodHistory(rows[j], evts[j])
  <2>1. GoodRow(jobs[j]) /\ GoodHistory(jobs[j], events[j])
    BY DEF GoodTable, GoodHistories
  <2>2. CASE j \notin S
    BY <2>1, <2>2 DEF ReconciledJobs, ReconciledEvents
  <2>3. CASE j \in S
    <3>1. rows[j] = ReconciledRow(jobs[j]) /\ evts[j] = Append(events[j], ReconcileEvent(jobs[j]))
      BY <2>3 DEF ReconciledJobs, ReconciledEvents
    <3>2. Expired(jobs[j])
      BY <2>3 DEF ExpiredJobs
    <3>3. ReconcileEvent(jobs[j]) \in EventRow
      BY <2>1, EventRows DEF GoodRow
    <3>4. ReconcileEvent(jobs[j]).type # "job.started"
      BY <2>1, OtherEventTypes DEF GoodRow
    <3>5. jobs[j].state \in Begun => ReconciledRow(jobs[j]).state \in Begun
      <4>1. jobs[j].state \in Begun => ReconciledRow(jobs[j]) = TimedOut(jobs[j])
        BY <3>2 DEF Begun, Terminal, Expired, DispatchExpired, ExecutionExpired, ReconciledRow
      <4>2. TimedOut(jobs[j]).state = "unknown"
        BY <2>1 DEF TimedOut, GoodRow, Row
      <4> QED BY <4>1, <4>2 DEF Begun, Terminal
    <3> QED BY <2>1, <3>1, <3>3, <3>4, <3>5, OtherEvent
  <2> QED BY <2>2, <2>3
<1> QED BY <1>1, <1>2 DEF GoodHistories

-----------------------------------------------------------------------------
(* The inductive invariant *)

\* Good rows, good histories, and audit rows for jobs only.
Inv ==
    /\ GoodTable(jobs)
    /\ GoodHistories(jobs, events)
    /\ audit \in SUBSET Jobs

LEMMA InvInit == Init => Inv
<1> SUFFICES ASSUME Init PROVE Inv
  OBVIOUS
<1>1. GoodTable(jobs)
  BY EmptyTableGood DEF Init
<1>2. GoodHistories(jobs, events)
  <2>1. \A j \in Jobs : GoodHistory(jobs[j], <<>>)
    BY SMTT(30) DEF GoodHistory, Starts
  <2> QED BY <2>1 DEF Init, GoodHistories
<1> QED BY <1>1, <1>2 DEF Inv, Init

\* Whatever rows a transaction reconciles, the invariant is kept.
LEMMA InvReconcile ==
    ASSUME Inv, NEW S \in SUBSET ExpiredJobs, Reconcile(S)
    PROVE  Inv'
<1>1. GoodTable(jobs')
  BY ReconcileGood DEF Inv, Reconcile
<1>2. GoodHistories(jobs', events')
  BY ReconcileHistories DEF Inv, Reconcile
<1>3. audit' \in SUBSET Jobs
  BY DEF Inv, Reconcile
<1> QED BY <1>1, <1>2, <1>3 DEF Inv, GoodTable, GoodHistories, GoodHistory

LEMMA InvCreate ==
    ASSUME Inv, NEW o \in Operators, NEW k \in Keys, NEW a \in Agents, CreateJob(o, k, a)
    PROVE  Inv'
<1>1. PICK j \in Jobs :
        /\ ~Exists(j)
        /\ jobs' = [jobs EXCEPT ![j] = QueuedRow(o, k, a)]
        /\ events' = [events EXCEPT ![j] = Append(@, Event("job.created", 0, NoFailure))]
        /\ audit' = audit \cup {j}
  BY DEF CreateJob
<1>2. GoodTable(jobs')
  BY <1>1, CreateGood DEF Inv
<1>3. GoodHistory(QueuedRow(o, k, a), Append(events[j], Event("job.created", 0, NoFailure)))
  <2>1. GoodHistory(jobs[j], events[j])
    BY DEF Inv, GoodHistories
  <2>2. jobs[j].state \notin Begun
    BY <1>1 DEF Exists, Begun, Terminal
  <2>3. /\ Event("job.created", 0, NoFailure) \in EventRow
        /\ Event("job.created", 0, NoFailure).type # "job.started"
    BY EventRows, OtherEventTypes
  <2> QED BY <2>1, <2>2, <2>3, OtherEvent
<1>4. GoodHistories(jobs', events')
  BY <1>1, <1>3, WriteHistory DEF Inv
<1>5. audit' \in SUBSET Jobs
  BY <1>1 DEF Inv
<1> QED BY <1>2, <1>4, <1>5 DEF Inv, GoodTable, GoodHistories, GoodHistory

LEMMA InvClaim ==
    ASSUME Inv, NEW a \in Agents, ClaimNextAgentJob(a)
    PROVE  Inv'
<1>0. ExpiredJobsOf(a) \in SUBSET ExpiredJobs
  BY DEF ExpiredJobsOf
<1>1. CASE ClaimNothing(a)
  BY <1>0, <1>1, InvReconcile DEF ClaimNothing
<1>2. CASE \E j \in Jobs : ClaimJob(a, j)
  <2> DEFINE rows == ReconciledJobs(ExpiredJobsOf(a))
             evts == ReconciledEvents(ExpiredJobsOf(a))
  <2>1. PICK j \in Jobs :
          /\ ~HasInFlight(rows, a)
          /\ OldestQueued(rows, a, j)
          /\ rows[j].attempt < MaxDispatchAttempts
          /\ jobs' = [rows EXCEPT ![j] = DispatchedRow(rows[j])]
          /\ events' = [evts EXCEPT ![j] =
                          Append(@, Event("job.dispatched", rows[j].attempt + 1, NoFailure))]
          /\ audit' = audit
    BY <1>2 DEF ClaimJob
  <2>2. GoodTable(rows) /\ GoodHistories(rows, evts)
    BY <1>0, ReconcileGood, ReconcileHistories DEF Inv
  <2> HIDE DEF rows, evts
  <2>3. GoodTable(jobs')
    BY <2>1, <2>2, DispatchGood
  <2> DEFINE e == Event("job.dispatched", rows[j].attempt + 1, NoFailure)
  <2>4. GoodHistory(DispatchedRow(rows[j]), Append(evts[j], e))
    <3>1. GoodHistory(rows[j], evts[j]) /\ GoodRow(rows[j])
      BY <2>2 DEF GoodHistories, GoodTable
    <3>2. rows[j].state \notin Begun
      BY <2>1 DEF OldestQueued, QueuedOf, Begun, Terminal
    <3>3. rows[j].attempt + 1 \in 0..MaxDispatchAttempts
      BY SMTT(30), <2>1, <3>1, JobAssumption DEF GoodRow, Row
    <3>4. e \in EventRow /\ e.type # "job.started"
      BY <3>3, EventRows, OtherEventTypes
    <3> HIDE DEF e
    <3> QED BY <3>1, <3>2, <3>4, OtherEvent
  <2> HIDE DEF e
  <2>5. GoodHistories(jobs', events')
    BY <2>1, <2>2, <2>4, WriteHistory DEF e
  <2> QED BY <2>1, <2>3, <2>5 DEF Inv, GoodTable, GoodHistories, GoodHistory
<1> QED BY <1>1, <1>2 DEF ClaimNextAgentJob

LEMMA InvStart ==
    ASSUME Inv, NEW a \in Agents, NEW j \in Jobs, NEW n \in 1..MaxDispatchAttempts,
           StartAgentJob(a, j, n)
    PROVE  Inv'
<1> DEFINE e == Event("job.started", n, NoFailure)
<1>1. /\ jobs[j].state = "dispatched"
      /\ jobs' = [jobs EXCEPT ![j] = RunningRow(jobs[j])]
      /\ events' = [events EXCEPT ![j] = Append(@, e)]
      /\ audit' = audit
  BY DEF StartAgentJob, MayStart
<1>2. GoodRow(jobs[j]) /\ GoodHistory(jobs[j], events[j])
  BY DEF Inv, GoodTable, GoodHistories
<1>3. /\ GoodRow(RunningRow(jobs[j]))
      /\ RunningRow(jobs[j]).agent = jobs[j].agent
      /\ RunningRow(jobs[j]).attempt = jobs[j].attempt
      /\ RunningRow(jobs[j]).state = "running"
  BY <1>1, <1>2, RunningRowGood
<1>4. GoodTable(jobs')
  BY <1>1, <1>3, AdvanceGood DEF Inv, InFlight
<1>5. e \in EventRow
  BY SMTT(30), JobAssumption, EventRows
<1> HIDE DEF e
<1>6. GoodHistory(RunningRow(jobs[j]), Append(events[j], e))
  BY <1>1, <1>2, <1>3, <1>5, StartEvent DEF Begun, Terminal
<1>7. GoodHistories(jobs', events')
  BY <1>1, <1>6, WriteHistory DEF Inv
<1> QED BY <1>1, <1>4, <1>7 DEF Inv, GoodTable, GoodHistories, GoodHistory

LEMMA InvComplete ==
    ASSUME Inv, NEW a \in Agents, NEW j \in Jobs, NEW n \in 1..MaxDispatchAttempts,
           NEW outcome \in Outcome, CompleteAgentJob(a, j, n, outcome)
    PROVE  Inv'
<1> DEFINE e == Event(OutcomeEvent(outcome), n, OutcomeCode(outcome))
           row == FinishedRow(jobs[j], outcome)
<1>1. /\ jobs[j].state = "running"
      /\ jobs' = [jobs EXCEPT ![j] = row]
      /\ events' = [events EXCEPT ![j] = Append(@, e)]
      /\ audit' = audit
  BY DEF CompleteAgentJob, MayComplete
<1>2. GoodRow(jobs[j]) /\ GoodHistory(jobs[j], events[j])
  BY DEF Inv, GoodTable, GoodHistories
<1>3. /\ GoodRow(row)
      /\ row.agent = jobs[j].agent
      /\ row.attempt = jobs[j].attempt
      /\ row.state = outcome
  BY <1>1, <1>2, FinishedRowGood
<1>5. e \in EventRow /\ e.type # "job.started"
  BY SMTT(30), JobAssumption, EventRows, OtherEventTypes
<1> HIDE DEF e, row
<1>4. GoodTable(jobs')
  BY <1>1, <1>3, AdvanceGood DEF Inv, InFlight, Outcome, Terminal
<1>6. GoodHistory(row, Append(events[j], e))
  BY <1>2, <1>3, <1>5, OtherEvent DEF Begun, Terminal, Outcome
<1>7. GoodHistories(jobs', events')
  BY <1>1, <1>6, WriteHistory DEF Inv
<1> QED BY <1>1, <1>4, <1>7 DEF Inv, GoodTable, GoodHistories, GoodHistory

LEMMA InvTick ==
    ASSUME Inv, Tick
    PROVE  Inv'
<1>1. GoodTable(jobs')
  BY ElapseGood DEF Inv, Tick
<1>2. \A j \in Jobs : jobs'[j].state = jobs[j].state
  BY ElapsedRowGood DEF Inv, Tick, GoodTable
<1>3. GoodHistories(jobs', events')
  BY <1>2 DEF Inv, Tick, GoodHistories, GoodHistory
<1> QED BY <1>1, <1>3 DEF Inv, Tick, GoodTable, GoodHistories, GoodHistory

\* Every transaction and every tick of the clock keeps the invariant.
LEMMA InvNext == Inv /\ [Next]_vars => Inv'
<1> SUFFICES ASSUME Inv, [Next]_vars PROVE Inv'
  OBVIOUS
<1>1. CASE \E o \in Operators, k \in Keys, a \in Agents : CreateJob(o, k, a)
  BY <1>1, InvCreate
<1>2. CASE \E a \in Agents : ClaimNextAgentJob(a)
  BY <1>2, InvClaim
<1>3. CASE \E a \in Agents, j \in Jobs, n \in 1..MaxDispatchAttempts : StartAgentJob(a, j, n)
  BY <1>3, InvStart
<1>4. CASE \E a \in Agents, j \in Jobs, n \in 1..MaxDispatchAttempts, outcome \in Outcome :
            CompleteAgentJob(a, j, n, outcome)
  BY <1>4, InvComplete
<1>5. CASE \E a \in Agents, j \in Jobs, n \in 1..MaxDispatchAttempts : CompleteTooLate(a, j, n)
  <2>1. PICK j \in Jobs : \E a \in Agents, n \in 1..MaxDispatchAttempts : CompleteTooLate(a, j, n)
    BY <1>5
  <2>2. {j} \in SUBSET ExpiredJobs /\ Reconcile({j})
    BY <2>1 DEF CompleteTooLate, MayComplete, ExpiredJobs, Expired, ExecutionExpired
  <2> QED BY <2>2, InvReconcile
<1>6. CASE \E j \in Jobs : GetJobByID(j)
  BY <1>6, InvReconcile DEF GetJobByID
<1>7. CASE \E a \in Agents : ListAgentJobs(a)
  BY <1>7, InvReconcile DEF ListAgentJobs, ExpiredJobsOf
<1>8. CASE ListJobs
  BY <1>8, InvReconcile DEF ListJobs
<1>9. CASE Tick
  BY <1>9, InvTick
<1>10. CASE UNCHANGED vars
  BY <1>10 DEF vars, Inv, GoodTable, GoodHistories, GoodHistory
<1> QED
  BY <1>1, <1>2, <1>3, <1>4, <1>5, <1>6, <1>7, <1>8, <1>9, <1>10 DEF Next

LEMMA Invariance == Spec => []Inv
  BY InvInit, InvNext, PTL DEF Spec

-----------------------------------------------------------------------------
(* The theorems *)

\* The tables always hold the columns and values that the migrations allow.
THEOREM Typed == Spec => []TypeOK
<1>1. Inv => TypeOK
  BY DEF Inv, TypeOK, GoodTable, GoodRow, GoodHistories, GoodHistory
<1> QED BY <1>1, Invariance, PTL

\* No transaction of jobs.go leaves a row that a constraint refuses or that a
\* later start, completion or claim can only fail on.
THEOREM RowsStayUsable == Spec => []RowsUsable
<1>1. Inv => RowsUsable
  BY DEF Inv, RowsUsable, Exists, GoodTable, GoodRow
<1> QED BY <1>1, Invariance, PTL

\* ClaimNextAgentJob never gives an agent a second job in flight.
THEOREM OneInFlight == Spec => []OneInFlightPerAgent
<1>1. Inv => OneInFlightPerAgent
  BY DEF Inv, OneInFlightPerAgent, GoodTable
<1> QED BY <1>1, Invariance, PTL

\* StartAgentJob grants at most one start of a job, over all its attempts.
THEOREM OneStart == Spec => []StartedAtMostOnce
<1>1. Inv => StartedAtMostOnce
  BY DEF Inv, StartedAtMostOnce, EventsOf, GoodHistories, GoodHistory, Starts
<1> QED BY <1>1, Invariance, PTL

\* No transaction writes the row or the history of a finished job.
LEMMA FinalStep ==
    ASSUME Inv, [Next]_vars, NEW j \in Jobs, jobs[j].state \in Terminal
    PROVE  jobs'[j] = jobs[j] /\ events'[j] = events[j]
<1>0. /\ jobs = [i \in Jobs |-> jobs[i]]
      /\ events = [i \in Jobs |-> events[i]]
      /\ j \notin ExpiredJobs
      /\ GoodRow(jobs[j])
  BY DEF Inv, GoodTable, GoodHistories, ExpiredJobs, Expired, DispatchExpired,
         ExecutionExpired, Terminal
<1>1. ASSUME NEW S \in SUBSET ExpiredJobs
      PROVE  ReconciledJobs(S)[j] = jobs[j] /\ ReconciledEvents(S)[j] = events[j]
  BY <1>0 DEF ReconciledJobs, ReconciledEvents
<1>2. ASSUME NEW S \in SUBSET ExpiredJobs, Reconcile(S)
      PROVE  jobs'[j] = jobs[j] /\ events'[j] = events[j]
  BY <1>1, <1>2 DEF Reconcile
<1>3. CASE \E o \in Operators, k \in Keys, a \in Agents : CreateJob(o, k, a)
  <2>1. PICK o \in Operators, k \in Keys, a \in Agents, i \in Jobs :
          /\ ~Exists(i)
          /\ jobs' = [jobs EXCEPT ![i] = QueuedRow(o, k, a)]
          /\ events' = [events EXCEPT ![i] = Append(@, Event("job.created", 0, NoFailure))]
    BY <1>3 DEF CreateJob
  <2>2. i # j
    BY <2>1 DEF Exists, Terminal
  <2> QED BY <1>0, <2>1, <2>2
<1>4. CASE \E a \in Agents : ClaimNextAgentJob(a)
  <2>1. PICK a \in Agents : ClaimNextAgentJob(a)
    BY <1>4
  <2>2. ExpiredJobsOf(a) \in SUBSET ExpiredJobs
    BY DEF ExpiredJobsOf
  <2>3. CASE ClaimNothing(a)
    BY <1>2, <2>2, <2>3 DEF ClaimNothing
  <2>4. CASE \E i \in Jobs : ClaimJob(a, i)
    <3> DEFINE rows == ReconciledJobs(ExpiredJobsOf(a))
               evts == ReconciledEvents(ExpiredJobsOf(a))
    <3>1. PICK i \in Jobs :
            /\ rows[i].state = "queued"
            /\ jobs' = [rows EXCEPT ![i] = DispatchedRow(rows[i])]
            /\ events' = [evts EXCEPT ![i] =
                            Append(@, Event("job.dispatched", rows[i].attempt + 1, NoFailure))]
      BY <2>4 DEF ClaimJob, OldestQueued, QueuedOf
    <3>2. rows[j] = jobs[j] /\ evts[j] = events[j]
      BY <1>1, <2>2
    <3>3. rows = [m \in Jobs |-> rows[m]] /\ evts = [m \in Jobs |-> evts[m]]
      BY DEF ReconciledJobs, ReconciledEvents
    <3> HIDE DEF rows, evts
    <3>4. i # j
      BY <3>1, <3>2 DEF Terminal
    <3> QED BY <3>1, <3>2, <3>3, <3>4
  <2> QED BY <2>1, <2>3, <2>4 DEF ClaimNextAgentJob
<1>5. CASE \E a \in Agents, i \in Jobs, n \in 1..MaxDispatchAttempts : StartAgentJob(a, i, n)
  BY <1>0, <1>5 DEF StartAgentJob, MayStart, Terminal
<1>6. CASE \E a \in Agents, i \in Jobs, n \in 1..MaxDispatchAttempts, outcome \in Outcome :
            CompleteAgentJob(a, i, n, outcome)
  BY <1>0, <1>6 DEF CompleteAgentJob, MayComplete, Terminal
<1>7. CASE \E a \in Agents, i \in Jobs, n \in 1..MaxDispatchAttempts : CompleteTooLate(a, i, n)
  <2>1. PICK i \in Jobs : \E a \in Agents, n \in 1..MaxDispatchAttempts : CompleteTooLate(a, i, n)
    BY <1>7
  <2>2. {i} \in SUBSET ExpiredJobs /\ Reconcile({i})
    BY <2>1 DEF CompleteTooLate, MayComplete, ExpiredJobs, Expired, ExecutionExpired
  <2> QED BY <1>2, <2>2
<1>8. CASE \E i \in Jobs : GetJobByID(i)
  BY <1>2, <1>8 DEF GetJobByID
<1>9. CASE \E a \in Agents : ListAgentJobs(a)
  BY <1>2, <1>9 DEF ListAgentJobs, ExpiredJobsOf
<1>10. CASE ListJobs
  BY <1>2, <1>10 DEF ListJobs
<1>11. CASE Tick
  <2>1. jobs[j].dispatch_expires_at = NullTime /\ jobs[j].execution_deadline_at = NullTime
    BY <1>0 DEF GoodRow, Terminal
  <2>2. ElapsedRow(jobs[j]) = jobs[j]
    <3>1. Elapse(NullTime) = NullTime
      BY SMTT(30) DEF Elapse, NullTime
    <3>2. ASSUME NEW row \in Row, row.dispatch_expires_at = NullTime,
                 row.execution_deadline_at = NullTime
          PROVE  /\ [row EXCEPT !.dispatch_expires_at = NullTime] = row
                 /\ [row EXCEPT !.execution_deadline_at = NullTime] = row
      BY <3>2 DEF Row
    <3> QED BY <1>0, <2>1, <3>1, <3>2 DEF GoodRow, ElapsedRow
  <2> QED BY <1>11, <2>2 DEF Tick
<1>12. CASE UNCHANGED vars
  BY <1>12 DEF vars
<1> QED
  BY <1>3, <1>4, <1>5, <1>6, <1>7, <1>8, <1>9, <1>10, <1>11, <1>12 DEF Next

\* A finished job stays as it is: a late start or completion, a claim, a read and
\* the passing of time change neither its row nor its history.
THEOREM FinishedIsFinal == Spec => TerminalIsFinal
<1>1. Inv /\ [Next]_vars =>
        [\A j \in Jobs : jobs[j].state \in Terminal =>
            jobs'[j] = jobs[j] /\ events'[j] = events[j]]_vars
  BY FinalStep
<1> QED BY <1>1, Invariance, PTL DEF Spec, TerminalIsFinal

-----------------------------------------------------------------------------
(* The lifecycle *)

\* What JobLifecycle allows to happen to one job, said of its row.
Follows(row, new) ==
    \/ new.state = row.state /\ new.attempt = row.attempt /\ new.agent = row.agent
    \/ /\ row.state = "absent" /\ new.state = "queued"
       /\ new.attempt = 0
       /\ new.agent \in Agents
    \/ /\ ValidateTransition(row.state, new.state)
       /\ new.attempt = IF new.state = "dispatched" THEN row.attempt + 1 ELSE row.attempt
       /\ new.state = "queued" => row.attempt < MaxDispatchAttempts
       /\ row.state = "dispatched" /\ new.state = "failed" => row.attempt = MaxDispatchAttempts
       /\ new.agent = row.agent
    \/ /\ row.state = "dispatched" /\ new.state = "dispatched"
       /\ new.attempt = row.attempt + 1
       /\ new.agent = row.agent

\* The reconciliation of jobs.go makes transitions of the lifecycle, and only
\* puts a dispatched job back in the queue.
LEMMA ReconciledFollows ==
    ASSUME NEW row, GoodRow(row), Expired(row)
    PROVE  /\ Follows(row, ReconciledRow(row))
           /\ ReconciledRow(row).state = "queued" => row.state = "dispatched"
<1>1. /\ ReconciledRow(row).agent = row.agent
      /\ ReconciledRow(row).attempt = row.attempt
  BY ReconciledRowGood
<1>2. row \in Row /\ row.attempt \in 0..MaxDispatchAttempts
  BY DEF GoodRow, Row
<1>3. CASE row.state = "running"
  <2>1. ReconciledRow(row).state = "unknown"
    BY <1>2, <1>3 DEF ReconciledRow, TimedOut, Row
  <2> QED BY <1>1, <1>3, <2>1 DEF Follows, ValidateTransition
<1>4. CASE row.state = "dispatched" /\ row.attempt < MaxDispatchAttempts
  <2>1. ReconciledRow(row).state = "queued"
    BY <1>2, <1>4 DEF ReconciledRow, Requeued, Row
  <2> QED BY <1>1, <1>4, <2>1 DEF Follows, ValidateTransition
<1>5. CASE row.state = "dispatched" /\ ~(row.attempt < MaxDispatchAttempts)
  <2>1. ReconciledRow(row).state = "failed"
    BY <1>2, <1>5 DEF ReconciledRow, Exhausted, Row
  <2>2. row.attempt = MaxDispatchAttempts
    BY SMTT(30), <1>2, <1>5, JobAssumption
  <2> QED BY <1>1, <1>5, <2>1, <2>2 DEF Follows, ValidateTransition
<1> QED BY <1>3, <1>4, <1>5 DEF Expired, DispatchExpired, ExecutionExpired

\* A claim dispatches a job that was queued, or one that it has just put back.
LEMMA ClaimFollows ==
    ASSUME Inv, NEW a \in Agents, NEW i \in Jobs, ClaimJob(a, i), NEW j \in Jobs
    PROVE  Follows(jobs[j], jobs'[j])
<1> DEFINE rows == ReconciledJobs(ExpiredJobsOf(a))
<1>1. /\ rows[i].state = "queued"
      /\ rows[i].attempt < MaxDispatchAttempts
      /\ jobs' = [rows EXCEPT ![i] = DispatchedRow(rows[i])]
  BY DEF ClaimJob, OldestQueued, QueuedOf
<1>2. /\ rows = [m \in Jobs |-> rows[m]]
      /\ \A m \in Jobs : \/ rows[m] = jobs[m]
                         \/ rows[m] = ReconciledRow(jobs[m]) /\ Expired(jobs[m])
  BY DEF ReconciledJobs, ExpiredJobsOf, ExpiredJobs
<1>3. \A m \in Jobs : GoodRow(rows[m]) /\ GoodRow(jobs[m])
  BY ReconcileGood DEF Inv, GoodTable, ExpiredJobsOf
<1> HIDE DEF rows
<1>4. CASE i # j
  <2>1. jobs'[j] = rows[j]
    BY <1>1, <1>2, <1>4
  <2>2. CASE rows[j] = jobs[j]
    BY <2>1, <2>2 DEF Follows
  <2>3. CASE rows[j] = ReconciledRow(jobs[j]) /\ Expired(jobs[j])
    BY <1>3, <2>1, <2>3, ReconciledFollows
  <2> QED BY <1>2, <2>2, <2>3
<1>5. CASE i = j
  <2>1. jobs'[j] = DispatchedRow(rows[j])
    BY <1>1, <1>2, <1>5
  <2>2. /\ jobs'[j].agent = rows[j].agent
        /\ jobs'[j].state = "dispatched"
        /\ jobs'[j].attempt = rows[j].attempt + 1
    BY SMTT(30), <1>1, <1>3, <1>5, <2>1, DispatchedRowGood
  <2>3. CASE rows[j] = jobs[j]
    BY <1>1, <1>5, <2>2, <2>3 DEF Follows, ValidateTransition
  <2>4. CASE rows[j] = ReconciledRow(jobs[j]) /\ Expired(jobs[j])
    <3>1. /\ jobs[j].state = "dispatched"
          /\ rows[j].agent = jobs[j].agent
          /\ rows[j].attempt = jobs[j].attempt
      BY <1>1, <1>3, <1>5, <2>4, ReconciledFollows, ReconciledRowGood
    <3> QED BY <2>2, <3>1 DEF Follows
  <2> QED BY <1>2, <2>3, <2>4
<1> QED BY <1>4, <1>5

\* Every step of the store does to each job what the lifecycle allows.
LEMMA StepFollows ==
    ASSUME Inv, [Next]_vars, NEW j \in Jobs
    PROVE  Follows(jobs[j], jobs'[j])
<1>0. /\ jobs = [i \in Jobs |-> jobs[i]]
      /\ \A i \in Jobs : GoodRow(jobs[i])
  BY DEF Inv, GoodTable
<1>1. Follows(jobs[j], jobs[j])
  BY DEF Follows
<1>2. ASSUME NEW S \in SUBSET ExpiredJobs, Reconcile(S)
      PROVE  Follows(jobs[j], jobs'[j])
  <2>1. jobs'[j] = IF j \in S THEN ReconciledRow(jobs[j]) ELSE jobs[j]
    BY <1>2 DEF Reconcile, ReconciledJobs
  <2>2. CASE j \in S
    BY <1>0, <2>1, <2>2, ReconciledFollows DEF ExpiredJobs
  <2> QED BY <1>1, <2>1, <2>2
<1>3. CASE \E o \in Operators, k \in Keys, a \in Agents : CreateJob(o, k, a)
  <2>1. PICK o \in Operators, k \in Keys, a \in Agents, i \in Jobs :
          /\ ~Exists(i)
          /\ jobs' = [jobs EXCEPT ![i] = QueuedRow(o, k, a)]
    BY <1>3 DEF CreateJob
  <2>2. CASE i # j
    BY <1>0, <1>1, <2>1, <2>2
  <2>3. CASE i = j
    <3>1. jobs'[j] = QueuedRow(o, k, a) /\ jobs[j].state = "absent"
      BY <1>0, <2>1, <2>3 DEF Exists
    <3> QED BY SMTT(30), <3>1, QueuedRowGood DEF Follows
  <2> QED BY <2>2, <2>3
<1>4. CASE \E a \in Agents : ClaimNextAgentJob(a)
  <2>1. PICK a \in Agents : ClaimNextAgentJob(a)
    BY <1>4
  <2>2. ExpiredJobsOf(a) \in SUBSET ExpiredJobs
    BY DEF ExpiredJobsOf
  <2>3. CASE ClaimNothing(a)
    BY <1>2, <2>2, <2>3 DEF ClaimNothing
  <2>4. CASE \E i \in Jobs : ClaimJob(a, i)
    BY <2>4, ClaimFollows
  <2> QED BY <2>1, <2>3, <2>4 DEF ClaimNextAgentJob
<1>5. CASE \E a \in Agents, i \in Jobs, n \in 1..MaxDispatchAttempts : StartAgentJob(a, i, n)
  <2>1. PICK i \in Jobs : /\ jobs[i].state = "dispatched"
                          /\ jobs' = [jobs EXCEPT ![i] = RunningRow(@)]
    BY <1>5 DEF StartAgentJob, MayStart
  <2>2. CASE i # j
    BY <1>0, <1>1, <2>1, <2>2
  <2>3. CASE i = j
    <3>1. jobs'[j] = RunningRow(jobs[j])
      BY <1>0, <2>1, <2>3
    <3> QED BY <1>0, <2>1, <2>3, <3>1, RunningRowGood DEF Follows, ValidateTransition
  <2> QED BY <2>2, <2>3
<1>6. CASE \E a \in Agents, i \in Jobs, n \in 1..MaxDispatchAttempts, outcome \in Outcome :
            CompleteAgentJob(a, i, n, outcome)
  <2>1. PICK i \in Jobs, outcome \in Outcome :
          /\ jobs[i].state = "running"
          /\ jobs' = [jobs EXCEPT ![i] = FinishedRow(@, outcome)]
    BY <1>6 DEF CompleteAgentJob, MayComplete
  <2>2. CASE i # j
    BY <1>0, <1>1, <2>1, <2>2
  <2>3. CASE i = j
    <3>1. jobs'[j] = FinishedRow(jobs[j], outcome)
      BY <1>0, <2>1, <2>3
    <3>2. /\ jobs'[j].agent = jobs[j].agent
          /\ jobs'[j].state = outcome
          /\ jobs'[j].attempt = jobs[j].attempt
      BY <1>0, <2>1, <2>3, <3>1, FinishedRowGood
    <3> QED BY <2>1, <2>3, <3>2 DEF Follows, ValidateTransition, Outcome
  <2> QED BY <2>2, <2>3
<1>7. CASE \E a \in Agents, i \in Jobs, n \in 1..MaxDispatchAttempts : CompleteTooLate(a, i, n)
  <2>1. PICK i \in Jobs : \E a \in Agents, n \in 1..MaxDispatchAttempts : CompleteTooLate(a, i, n)
    BY <1>7
  <2>2. {i} \in SUBSET ExpiredJobs /\ Reconcile({i})
    BY <2>1 DEF CompleteTooLate, MayComplete, ExpiredJobs, Expired, ExecutionExpired
  <2> QED BY <1>2, <2>2
<1>8. CASE \E i \in Jobs : GetJobByID(i)
  BY <1>2, <1>8 DEF GetJobByID
<1>9. CASE \E a \in Agents : ListAgentJobs(a)
  BY <1>2, <1>9 DEF ListAgentJobs, ExpiredJobsOf
<1>10. CASE ListJobs
  BY <1>2, <1>10 DEF ListJobs
<1>11. CASE Tick
  <2>1. jobs'[j] = ElapsedRow(jobs[j])
    BY <1>11 DEF Tick
  <2> QED BY <1>0, <2>1, ElapsedRowGood DEF Follows
<1>12. CASE UNCHANGED vars
  BY <1>1, <1>12 DEF vars
<1> QED
  BY <1>3, <1>4, <1>5, <1>6, <1>7, <1>8, <1>9, <1>10, <1>11, <1>12 DEF Next

\* The SQL of jobs.go implements the lifecycle of internal/job, whose validator it
\* never calls: for any number of jobs and agents and any limits, every commit moves
\* jobs along ValidateTransition only, within their attempts and with one job in
\* flight per agent.
THEOREM FollowsLifecycle == Spec => ImplementsLifecycle
<1>1. Init => Lifecycle!Init
  BY SMTT(30) DEF Init, NoRow, Lifecycle!Init
<1>2. ASSUME Inv, Inv', [Next]_vars
      PROVE  Lifecycle!Next
  <2>1. \A j \in Jobs : \/ Lifecycle!Keep(j) \/ Lifecycle!Submit(j)
                        \/ Lifecycle!Transition(j) \/ Lifecycle!Redispatch(j)
    <3> SUFFICES ASSUME NEW j \in Jobs
                 PROVE  \/ Lifecycle!Keep(j) \/ Lifecycle!Submit(j)
                        \/ Lifecycle!Transition(j) \/ Lifecycle!Redispatch(j)
      OBVIOUS
    <3>1. Follows(jobs[j], jobs'[j])
      BY <1>2, StepFollows
    <3> QED BY <3>1 DEF Follows, Lifecycle!Keep, Lifecycle!Submit, Lifecycle!Transition,
                        Lifecycle!Redispatch, ValidateTransition, Lifecycle!ValidateTransition
  <2>2. Lifecycle!OneInFlight'
    BY <1>2 DEF Inv, GoodTable, Lifecycle!OneInFlight, InFlight, Lifecycle!InFlight
  <2>3. Lifecycle!Bounded'
    BY SMTT(30), <1>2, JobAssumption DEF Inv, GoodTable, GoodRow, Row, Lifecycle!Bounded
  <2> QED BY <2>1, <2>2, <2>3 DEF Lifecycle!Next
<1> QED BY <1>1, <1>2, Invariance, PTL DEF Spec, ImplementsLifecycle, Lifecycle!Spec

-----------------------------------------------------------------------------
(* The history tells the row *)

\* What FiniteSets defines.  The library's theorems about finite sets slow down the
\* proofs of all that follows them; they are brought in at the end of JobDispatchProofs, and
\* speak of definitions that are equal to these.
FiniteOf(S) == \E seq \in Seq(S) : \A s \in S : \E n \in 1..Len(seq) : seq[n] = s

CountOf(S) ==
    LET CS[T \in SUBSET S] == IF T = {} THEN 0 ELSE 1 + CS[T \ {CHOOSE x : x \in T}]
    IN  CS[S]

LEMMA FiniteIs == \A S : IsFiniteSet(S) <=> FiniteOf(S)
  BY DEF IsFiniteSet, FiniteOf

LEMMA CountIs == \A S : Cardinality(S) = CountOf(S)
  BY DEF Cardinality, CountOf

\* What the count of the dispatches needs of finite sets.
AddCounts ==
    \A S, x : IsFiniteSet(S) /\ x \notin S =>
        IsFiniteSet(S \cup {x}) /\ Cardinality(S \cup {x}) = Cardinality(S) + 1

EmptyCounts == IsFiniteSet({}) /\ Cardinality({}) = 0

Dispatches(history) == {n \in DOMAIN history : history[n].type = "job.dispatched"}

RowEvent(row) == Event(StateEvent(row), row.attempt, row.failure_code)

\* HistoryTellsRow for one row.  A row that does not exist yet has had no dispatch.
Tells(row, history) ==
    /\ history \in Seq(EventRow)
    /\ row.state = "absent" => row.attempt = 0
    /\ row.state # "absent" => history # <<>> /\ history[Len(history)] = RowEvent(row)
    /\ IsFiniteSet(Dispatches(history)) /\ Cardinality(Dispatches(history)) = row.attempt

\* A row and its event are written together, and a dispatch counts as an attempt.
LEMMA AppendTells ==
    ASSUME AddCounts, NEW row, NEW history, Tells(row, history), NEW new, NEW e \in EventRow,
           e = RowEvent(new), new.state # "absent",
           new.attempt = IF e.type = "job.dispatched" THEN row.attempt + 1 ELSE row.attempt
    PROVE  Tells(new, Append(history, e))
<1> DEFINE h == Append(history, e)
<1>1. /\ history \in Seq(EventRow) /\ Len(history) \in Nat /\ h \in Seq(EventRow)
      /\ DOMAIN history = 1..Len(history) /\ DOMAIN h = 1..(Len(history) + 1)
      /\ Len(h) = Len(history) + 1 /\ h # <<>>
      /\ h[Len(h)] = e /\ \A n \in 1..Len(history) : h[n] = history[n]
  BY SMTT(30) DEF Tells
<1> HIDE DEF h
<1>3. IsFiniteSet(Dispatches(h)) /\ Cardinality(Dispatches(h)) = new.attempt
  <2>1. CASE e.type = "job.dispatched"
    <3>1. Dispatches(h) = Dispatches(history) \cup {Len(history) + 1}
      BY SMTT(30), <1>1, <2>1 DEF Dispatches
    <3>2. Len(history) + 1 \notin Dispatches(history)
      BY SMTT(30), <1>1 DEF Dispatches
    <3> QED BY <2>1, <3>1, <3>2 DEF Tells, AddCounts
  <2>2. CASE e.type # "job.dispatched"
    <3>1. Dispatches(h) = Dispatches(history)
      BY SMTT(30), <1>1, <2>2 DEF Dispatches
    <3> QED BY <2>2, <3>1 DEF Tells
  <2> QED BY <2>1, <2>2
<1>4. Tells(new, h)
  BY <1>1, <1>3 DEF Tells
<1> QED BY <1>4 DEF h

\* The event of each state.
LEMMA StateEvents ==
    ASSUME NEW row
    PROVE  /\ row.state = "queued" /\ row.attempt = 0 => StateEvent(row) = "job.created"
           /\ row.state = "queued" /\ row.attempt # 0 => StateEvent(row) = "job.requeued"
           /\ row.state = "dispatched" => StateEvent(row) = "job.dispatched"
           /\ row.state = "running" => StateEvent(row) = "job.started"
           /\ row.state = "succeeded" => StateEvent(row) = "job.succeeded"
           /\ row.state = "failed" => StateEvent(row) = "job.failed"
           /\ row.state = "unknown" => StateEvent(row) = "job.unknown"
<1>1. CASE row.state = "queued" /\ row.attempt = 0
  BY <1>1 DEF StateEvent
<1>2. CASE row.state = "queued" /\ row.attempt # 0
  BY <1>2 DEF StateEvent
<1>3. CASE row.state = "dispatched"
  BY <1>3 DEF StateEvent
<1>4. CASE row.state = "running"
  BY <1>4 DEF StateEvent
<1>5. CASE row.state = "succeeded"
  BY <1>5 DEF StateEvent
<1>6. CASE row.state = "failed"
  BY <1>6 DEF StateEvent
<1>7. CASE row.state = "unknown"
  BY <1>7 DEF StateEvent
<1> QED BY <1>1, <1>2, <1>3, <1>4, <1>5, <1>6, <1>7

LEMMA TypeOfEvent == ASSUME NEW type, NEW n, NEW fc PROVE Event(type, n, fc).type = type
  BY DEF Event

\* Reconciliation writes the event of the row that it leaves.
LEMMA ReconcileTells ==
    ASSUME AddCounts, NEW row, GoodRow(row), Expired(row), NEW history, Tells(row, history)
    PROVE  Tells(ReconciledRow(row), Append(history, ReconcileEvent(row)))
<1> DEFINE new == ReconciledRow(row)
           e == ReconcileEvent(row)
<1>1. /\ GoodRow(new) /\ new.attempt = row.attempt /\ e \in EventRow
      /\ row \in Row /\ row.attempt > 0 /\ row.attempt # 0
  <2>1. row \in Row /\ row.attempt > 0 /\ row.attempt # 0
    BY SMTT(30), JobAssumption DEF GoodRow, Row, Expired, DispatchExpired, ExecutionExpired
  <2>2. GoodRow(new) /\ new.attempt = row.attempt
    BY ReconciledRowGood
  <2>3. e \in EventRow
    BY <2>1, EventRows
  <2> QED BY <2>1, <2>2, <2>3
<1>2. e = RowEvent(new) /\ e.type # "job.dispatched" /\ new.state # "absent"
  <2>1. CASE row.state = "running"
    <3>1. new.state = "unknown" /\ new.failure_code = "execution_timeout"
      BY <1>1, <2>1 DEF ReconciledRow, TimedOut, Row
    <3>2. e = Event("job.unknown", row.attempt, "execution_timeout")
      BY <2>1 DEF ReconcileEvent
    <3> HIDE DEF new, e
    <3> QED BY SMTT(30), <1>1, <3>1, <3>2, StateEvents, TypeOfEvent DEF RowEvent
  <2>2. CASE row.state = "dispatched" /\ row.attempt < MaxDispatchAttempts
    <3>1. new.state = "queued" /\ new.failure_code = row.failure_code
      BY <1>1, <2>2 DEF ReconciledRow, Requeued, Row
    <3>2. row.failure_code = NoFailure
      BY <2>2 DEF GoodRow, ValidateStateFailureCode
    <3>3. e = Event("job.requeued", row.attempt, NoFailure)
      BY <2>2 DEF ReconcileEvent
    <3> HIDE DEF new, e
    <3> QED BY SMTT(30), <1>1, <3>1, <3>2, <3>3, StateEvents, TypeOfEvent DEF RowEvent
  <2>3. CASE row.state = "dispatched" /\ ~(row.attempt < MaxDispatchAttempts)
    <3>1. new.state = "failed" /\ new.failure_code = "dispatch_exhausted"
      BY <1>1, <2>3 DEF ReconciledRow, Exhausted, Row
    <3>2. e = Event("job.failed", row.attempt, "dispatch_exhausted")
      BY <2>3 DEF ReconcileEvent
    <3> HIDE DEF new, e
    <3> QED BY SMTT(30), <1>1, <3>1, <3>2, StateEvents, TypeOfEvent DEF RowEvent
  <2> QED BY <2>1, <2>2, <2>3 DEF Expired, DispatchExpired, ExecutionExpired
<1> HIDE DEF new, e
<1>3. Tells(new, Append(history, e))
  BY <1>1, <1>2, AppendTells
<1> QED BY <1>3 DEF new, e

TellsAll(rows, evts) == \A j \in Jobs : Tells(rows[j], evts[j])

LEMMA ReconcileTellsAll ==
    ASSUME AddCounts, Inv, TellsAll(jobs, events), NEW S \in SUBSET ExpiredJobs
    PROVE  TellsAll(ReconciledJobs(S), ReconciledEvents(S))
<1> SUFFICES ASSUME NEW j \in Jobs
             PROVE  Tells(ReconciledJobs(S)[j], ReconciledEvents(S)[j])
  BY DEF TellsAll
<1>1. GoodRow(jobs[j]) /\ Tells(jobs[j], events[j])
  BY DEF Inv, GoodTable, TellsAll
<1>2. CASE j \in S
  <2>1. Expired(jobs[j])
    BY <1>2 DEF ExpiredJobs
  <2>2. /\ ReconciledJobs(S)[j] = ReconciledRow(jobs[j])
        /\ ReconciledEvents(S)[j] = Append(events[j], ReconcileEvent(jobs[j]))
    BY <1>2 DEF ReconciledJobs, ReconciledEvents
  <2> QED BY <1>1, <2>1, <2>2, ReconcileTells
<1>3. CASE j \notin S
  BY <1>1, <1>3 DEF ReconciledJobs, ReconciledEvents
<1> QED BY <1>2, <1>3

\* One row is written together with its event.
LEMMA WriteTells ==
    ASSUME NEW rows, GoodTable(rows), NEW evts, GoodHistories(rows, evts),
           TellsAll(rows, evts), NEW n \in Jobs, NEW row, NEW e,
           Tells(row, Append(evts[n], e)),
           jobs' = [rows EXCEPT ![n] = row], events' = [evts EXCEPT ![n] = Append(@, e)]
    PROVE  TellsAll(jobs', events')
<1>1. \A j \in Jobs : events'[j] = IF j = n THEN Append(evts[n], e) ELSE evts[j]
  BY DEF GoodHistories
<1>2. \A j \in Jobs : jobs'[j] = IF j = n THEN row ELSE rows[j]
  BY DEF GoodTable
<1> QED BY <1>1, <1>2 DEF TellsAll

LEMMA CreateTells ==
    ASSUME AddCounts, Inv, TellsAll(jobs, events), NEW o \in Operators, NEW k \in Keys, NEW a \in Agents,
           CreateJob(o, k, a)
    PROVE  TellsAll(jobs', events')
<1> DEFINE e == Event("job.created", 0, NoFailure)
           row == QueuedRow(o, k, a)
<1>1. PICK n \in Jobs :
        /\ ~Exists(n) /\ jobs' = [jobs EXCEPT ![n] = row]
        /\ events' = [events EXCEPT ![n] = Append(@, e)]
  BY DEF CreateJob
<1>2. /\ row.state = "queued" /\ row.attempt = 0 /\ row.failure_code = NoFailure
      /\ e \in EventRow /\ e.type = "job.created"
  <2>1. GoodRow(row) /\ row.state = "queued" /\ row.attempt = 0
    BY QueuedRowGood
  <2> HIDE DEF row
  <2>2. row.failure_code = NoFailure
    BY <2>1 DEF GoodRow, ValidateStateFailureCode
  <2> QED BY <2>1, <2>2, EventRows, TypeOfEvent
<1>3. e = RowEvent(row)
  BY <1>2, StateEvents DEF RowEvent
<1> HIDE DEF e, row
<1>4. Tells(jobs[n], events[n]) /\ jobs[n].attempt = 0
  <2>1. Tells(jobs[n], events[n])
    BY DEF TellsAll
  <2> QED BY <1>1, <2>1 DEF Exists, Tells
<1>5. Tells(row, Append(events[n], e))
  BY <1>2, <1>3, <1>4, AppendTells
<1> QED BY <1>1, <1>5, WriteTells DEF Inv

LEMMA ClaimTells ==
    ASSUME AddCounts, Inv, TellsAll(jobs, events), NEW a \in Agents, NEW n \in Jobs, ClaimJob(a, n)
    PROVE  TellsAll(jobs', events')
<1> DEFINE rows == ReconciledJobs(ExpiredJobsOf(a))
           evts == ReconciledEvents(ExpiredJobsOf(a))
           row == DispatchedRow(rows[n])
           e == Event("job.dispatched", rows[n].attempt + 1, NoFailure)
<1>0. ExpiredJobsOf(a) \in SUBSET ExpiredJobs
  BY DEF ExpiredJobsOf
<1>1. /\ rows[n].state = "queued" /\ rows[n].attempt < MaxDispatchAttempts
      /\ jobs' = [rows EXCEPT ![n] = row] /\ events' = [evts EXCEPT ![n] = Append(@, e)]
  BY DEF ClaimJob, OldestQueued, QueuedOf
<1>2. GoodTable(rows) /\ GoodHistories(rows, evts) /\ TellsAll(rows, evts)
  BY <1>0, ReconcileGood, ReconcileHistories, ReconcileTellsAll DEF Inv
<1> HIDE DEF rows, evts
<1>3. GoodRow(rows[n]) /\ Tells(rows[n], evts[n]) /\ rows[n].attempt + 1 \in 0..MaxDispatchAttempts
  BY SMTT(30), <1>1, <1>2, JobAssumption DEF GoodTable, TellsAll, GoodRow, Row
<1>4. /\ row.state = "dispatched" /\ row.attempt = rows[n].attempt + 1
      /\ row.failure_code = NoFailure
  <2>1. GoodRow(row) /\ row.state = "dispatched" /\ row.attempt = rows[n].attempt + 1
    BY <1>1, <1>3, DispatchedRowGood
  <2> HIDE DEF row
  <2> QED BY <2>1 DEF GoodRow, ValidateStateFailureCode
<1>5. e \in EventRow /\ e.type = "job.dispatched" /\ e = RowEvent(row)
  <2>1. e \in EventRow
    BY <1>3, EventRows
  <2>2. e.type = "job.dispatched"
    BY TypeOfEvent
  <2> HIDE DEF row
  <2>3. StateEvent(row) = "job.dispatched"
    BY <1>4, StateEvents
  <2> QED BY <1>4, <2>1, <2>2, <2>3 DEF RowEvent
<1> HIDE DEF e, row
<1>6. Tells(row, Append(evts[n], e))
  BY <1>3, <1>4, <1>5, AppendTells
<1> QED BY <1>1, <1>2, <1>6, WriteTells

LEMMA StartTells ==
    ASSUME AddCounts, Inv, TellsAll(jobs, events), NEW a \in Agents, NEW j \in Jobs,
           NEW n \in 1..MaxDispatchAttempts, StartAgentJob(a, j, n)
    PROVE  TellsAll(jobs', events')
<1> DEFINE e == Event("job.started", n, NoFailure)
           row == RunningRow(jobs[j])
<1>1. /\ jobs[j].state = "dispatched" /\ jobs[j].attempt = n
      /\ jobs' = [jobs EXCEPT ![j] = row] /\ events' = [events EXCEPT ![j] = Append(@, e)]
  BY DEF StartAgentJob, MayStart
<1>2. GoodRow(jobs[j]) /\ Tells(jobs[j], events[j])
  BY DEF Inv, GoodTable, TellsAll
<1>3. row.state = "running" /\ row.attempt = n /\ row.failure_code = NoFailure
  <2>1. GoodRow(row) /\ row.state = "running" /\ row.attempt = n
    BY <1>1, <1>2, RunningRowGood
  <2> HIDE DEF row
  <2> QED BY <2>1 DEF GoodRow, ValidateStateFailureCode
<1>4. e \in EventRow /\ e.type = "job.started" /\ e = RowEvent(row)
  BY SMTT(30), <1>3, JobAssumption, EventRows, TypeOfEvent, StateEvents DEF RowEvent
<1> HIDE DEF e, row
<1>5. Tells(row, Append(events[j], e))
  BY <1>1, <1>2, <1>3, <1>4, AppendTells
<1> QED BY <1>1, <1>5, WriteTells DEF Inv

LEMMA CompleteTells ==
    ASSUME AddCounts, Inv, TellsAll(jobs, events), NEW a \in Agents, NEW j \in Jobs,
           NEW n \in 1..MaxDispatchAttempts, NEW outcome \in Outcome,
           CompleteAgentJob(a, j, n, outcome)
    PROVE  TellsAll(jobs', events')
<1> DEFINE e == Event(OutcomeEvent(outcome), n, OutcomeCode(outcome))
           row == FinishedRow(jobs[j], outcome)
<1>1. /\ jobs[j].state = "running" /\ jobs[j].attempt = n
      /\ jobs' = [jobs EXCEPT ![j] = row] /\ events' = [events EXCEPT ![j] = Append(@, e)]
  BY DEF CompleteAgentJob, MayComplete
<1>2. GoodRow(jobs[j]) /\ Tells(jobs[j], events[j])
  BY DEF Inv, GoodTable, TellsAll
<1>3. row.state = outcome /\ row.attempt = n /\ row.failure_code = OutcomeCode(outcome)
  <2>1. row.state = outcome /\ row.attempt = n
    BY <1>1, <1>2, FinishedRowGood
  <2>2. row.failure_code = OutcomeCode(outcome)
    BY <1>2 DEF FinishedRow, GoodRow, Row
  <2> QED BY <2>1, <2>2
<1>4. e \in EventRow /\ e.type = OutcomeEvent(outcome)
  BY SMTT(30), JobAssumption, EventRows, TypeOfEvent
<1> HIDE DEF row
<1>5. /\ StateEvent(row) = OutcomeEvent(outcome) /\ OutcomeEvent(outcome) # "job.dispatched"
      /\ row.state # "absent"
  BY <1>3, StateEvents DEF Outcome, OutcomeEvent
<1>6. e = RowEvent(row)
  BY <1>3, <1>5 DEF RowEvent
<1> HIDE DEF e
<1>7. Tells(row, Append(events[j], e))
  BY <1>1, <1>2, <1>3, <1>4, <1>5, <1>6, AppendTells
<1> QED BY <1>1, <1>7, WriteTells DEF Inv

LEMMA TickTells ==
    ASSUME Inv, TellsAll(jobs, events), Tick
    PROVE  TellsAll(jobs', events')
<1> SUFFICES ASSUME NEW j \in Jobs PROVE Tells(jobs'[j], events'[j])
  BY DEF TellsAll
<1>1. GoodRow(jobs[j]) /\ Tells(jobs[j], events[j]) /\ events' = events
  BY DEF Inv, GoodTable, TellsAll, Tick
<1>2. /\ jobs'[j].state = jobs[j].state /\ jobs'[j].attempt = jobs[j].attempt
      /\ jobs'[j].failure_code = jobs[j].failure_code
  <2>1. jobs'[j] = ElapsedRow(jobs[j])
    BY DEF Tick
  <2>2. ElapsedRow(jobs[j]).failure_code = jobs[j].failure_code
    BY <1>1 DEF ElapsedRow, GoodRow, Row
  <2> QED BY <1>1, <2>1, <2>2, ElapsedRowGood
<1>3. StateEvent(jobs'[j]) = StateEvent(jobs[j])
  BY <1>2 DEF StateEvent
<1> QED BY <1>1, <1>2, <1>3 DEF Tells, RowEvent

\* Only CreateJob makes a row.
LEMMA AbsentStays ==
    ASSUME Inv, [Next]_vars, NEW j \in Jobs, jobs[j].state = "absent",
           ~\E o \in Operators, k \in Keys, a \in Agents : CreateJob(o, k, a)
    PROVE  jobs'[j].state = "absent"
<1>0. jobs = [i \in Jobs |-> jobs[i]] /\ \A i \in Jobs : GoodRow(jobs[i])
  BY DEF Inv, GoodTable
<1>1. j \notin ExpiredJobs
  BY DEF ExpiredJobs, Expired, DispatchExpired, ExecutionExpired
<1>2. ASSUME NEW S \in SUBSET ExpiredJobs PROVE ReconciledJobs(S)[j] = jobs[j]
  BY <1>1 DEF ReconciledJobs
<1>3. ASSUME NEW S \in SUBSET ExpiredJobs, Reconcile(S) PROVE jobs'[j] = jobs[j]
  BY <1>2, <1>3 DEF Reconcile
<1>4. ASSUME NEW a \in Agents, NEW n \in Jobs, ClaimJob(a, n) PROVE jobs'[j] = jobs[j]
  <2> DEFINE rows == ReconciledJobs(ExpiredJobsOf(a))
  <2>1. /\ rows[n].state = "queued" /\ jobs' = [rows EXCEPT ![n] = DispatchedRow(rows[n])]
        /\ rows = [i \in Jobs |-> rows[i]]
    BY <1>4 DEF ClaimJob, OldestQueued, QueuedOf, ReconciledJobs
  <2>2. rows[j] = jobs[j]
    BY <1>2 DEF ExpiredJobsOf
  <2> HIDE DEF rows
  <2> QED BY <2>1, <2>2
<1>5. CASE \E a \in Agents : ClaimNextAgentJob(a)
  BY <1>3, <1>4, <1>5 DEF ClaimNextAgentJob, ClaimNothing, ExpiredJobsOf
<1>6. CASE \E a \in Agents, i \in Jobs, n \in 1..MaxDispatchAttempts : StartAgentJob(a, i, n)
  <2>1. PICK i \in Jobs : jobs[i].state = "dispatched" /\ \E row : jobs' = [jobs EXCEPT ![i] = row]
    BY <1>6 DEF StartAgentJob, MayStart
  <2> QED BY <1>0, <2>1
<1>7. CASE \E a \in Agents, i \in Jobs, n \in 1..MaxDispatchAttempts, outcome \in Outcome :
            CompleteAgentJob(a, i, n, outcome)
  <2>1. PICK i \in Jobs : jobs[i].state = "running" /\ \E row : jobs' = [jobs EXCEPT ![i] = row]
    BY <1>7 DEF CompleteAgentJob, MayComplete
  <2> QED BY <1>0, <2>1
<1>8. CASE \E a \in Agents, i \in Jobs, n \in 1..MaxDispatchAttempts : CompleteTooLate(a, i, n)
  <2>1. PICK i \in Jobs : \E a \in Agents, n \in 1..MaxDispatchAttempts : CompleteTooLate(a, i, n)
    BY <1>8
  <2>2. {i} \in SUBSET ExpiredJobs /\ Reconcile({i})
    BY <2>1 DEF CompleteTooLate, MayComplete, ExpiredJobs, Expired, ExecutionExpired
  <2> QED BY <1>3, <2>2
<1>9. CASE ListJobs \/ (\E i \in Jobs : GetJobByID(i)) \/ (\E a \in Agents : ListAgentJobs(a))
  BY <1>3, <1>9 DEF ListJobs, GetJobByID, ListAgentJobs, ExpiredJobsOf
<1>10. CASE Tick
  BY <1>0, <1>10, ElapsedRowGood DEF Tick
<1>11. CASE UNCHANGED vars
  BY <1>11 DEF vars
<1> QED BY <1>5, <1>6, <1>7, <1>8, <1>9, <1>10, <1>11 DEF Next

TellInv ==
    /\ TellsAll(jobs, events)
    /\ \A j \in Jobs : Exists(j) => j \in audit

LEMMA TellInit ==
    ASSUME EmptyCounts, Init PROVE TellInv
<1>1. \A j \in Jobs : jobs[j].state = "absent" /\ jobs[j].attempt = 0 /\ events[j] = <<>>
  BY NoRowGood DEF Init
<1>2. <<>> \in Seq(EventRow) /\ Dispatches(<<>>) = {}
  BY SMTT(30) DEF Dispatches
<1> QED BY <1>1, <1>2 DEF TellInv, TellsAll, Tells, Exists, EmptyCounts

LEMMA TellNext ==
    ASSUME AddCounts PROVE Inv /\ TellInv /\ [Next]_vars => TellInv'
<1> SUFFICES ASSUME Inv, TellInv, [Next]_vars PROVE TellInv'
  OBVIOUS
<1>0. TellsAll(jobs, events)
  BY DEF TellInv
<1>1. ASSUME NEW S \in SUBSET ExpiredJobs, Reconcile(S) PROVE TellsAll(jobs', events')
  BY <1>0, <1>1, ReconcileTellsAll DEF Reconcile
<1>2. TellsAll(jobs', events')
  <2>1. CASE \E a \in Agents : ClaimNextAgentJob(a)
    BY <1>0, <1>1, <2>1, ClaimTells DEF ClaimNextAgentJob, ClaimNothing, ExpiredJobsOf
  <2>2. CASE \E a \in Agents, j \in Jobs, n \in 1..MaxDispatchAttempts : CompleteTooLate(a, j, n)
    <3>1. PICK j \in Jobs : \E a \in Agents, n \in 1..MaxDispatchAttempts : CompleteTooLate(a, j, n)
      BY <2>2
    <3>2. {j} \in SUBSET ExpiredJobs /\ Reconcile({j})
      BY <3>1 DEF CompleteTooLate, MayComplete, ExpiredJobs, Expired, ExecutionExpired
    <3> QED BY <1>1, <3>2
  <2>3. CASE \E j \in Jobs : GetJobByID(j)
    BY <1>1, <2>3 DEF GetJobByID
  <2>4. CASE \E a \in Agents : ListAgentJobs(a)
    BY <1>1, <2>4 DEF ListAgentJobs, ExpiredJobsOf
  <2>5. CASE ListJobs
    BY <1>1, <2>5 DEF ListJobs
  <2>6. CASE UNCHANGED vars
    BY <1>0, <2>6 DEF vars
  <2> QED BY <1>0, <2>1, <2>2, <2>3, <2>4, <2>5, <2>6, CreateTells, StartTells, CompleteTells,
             TickTells DEF Next
<1>3. ASSUME NEW j \in Jobs, jobs'[j].state # "absent" PROVE j \in audit'
  <2>1. audit \subseteq audit'
    BY DEF Next, vars, CreateJob, ClaimNextAgentJob, ClaimNothing, ClaimJob, StartAgentJob,
           CompleteAgentJob, CompleteTooLate, GetJobByID, ListAgentJobs, ListJobs, Reconcile, Tick
  <2>2. CASE Exists(j)
    BY <2>1, <2>2 DEF TellInv
  <2>3. CASE ~Exists(j)
    <3>1. ASSUME NEW o \in Operators, NEW k \in Keys, NEW a \in Agents, CreateJob(o, k, a)
          PROVE  j \in audit'
      BY <1>3, <2>3, <3>1 DEF CreateJob, Exists, Inv, GoodTable
    <3>2. CASE \E o \in Operators, k \in Keys, a \in Agents : CreateJob(o, k, a)
      BY <3>1, <3>2
    <3> QED BY <1>3, <2>3, <3>2, AbsentStays DEF Exists
  <2> QED BY <2>2, <2>3
<1> QED BY <1>2, <1>3 DEF TellInv, Exists

LEMMA TellInvTells == TellInv => HistoryTellsRow
<1> SUFFICES ASSUME TellInv, NEW j \in Jobs, Exists(j)
             PROVE  /\ events[j] # <<>> /\ events[j][Len(events[j])] = RowEvent(jobs[j])
                    /\ Cardinality(Dispatches(events[j])) = jobs[j].attempt
                    /\ j \in audit
  BY DEF HistoryTellsRow, RowEvent, Dispatches, EventsOf
<1>1. Tells(jobs[j], events[j]) /\ j \in audit
  BY DEF TellInv, TellsAll
<1> QED BY <1>1 DEF Tells, Exists

=============================================================================
