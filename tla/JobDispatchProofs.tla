------------------------- MODULE JobDispatchProofs --------------------------
(***************************************************************************)
(* Proofs about JobDispatch: the protocol uses the store only through its  *)
(* operations, so that all that is proved of JobStore holds of it; no job  *)
(* is executed twice; and the row of a job tells its execution.            *)
(*                                                                         *)
(* The argument for the second: a start is granted to the agent of the job *)
(* while the job is dispatched, and then the job has never been executed;  *)
(* once started it never goes back, so that no other start is granted; and *)
(* the one agent that was told of the grant executes and forgets it.       *)
(***************************************************************************)
EXTENDS JobDispatch, JobStoreProofs

\* Zenon first, and its time; a leaf that is not for it names SMT.
USE ZenonT(60), SMTT(30)

-----------------------------------------------------------------------------
(* The store as the protocol sees it *)

\* A job that was started keeps its agent and never goes back to the queue.
LEMMA BegunStays ==
    ASSUME Inv, [Next]_vars, NEW j \in Jobs, jobs[j].state \in Begun
    PROVE  jobs'[j].state \in Begun /\ jobs'[j].agent = jobs[j].agent
<1>0. /\ jobs = [i \in Jobs |-> jobs[i]]
      /\ GoodRow(jobs[j])
      /\ jobs[j].state \notin {"absent", "queued", "dispatched"}
  BY DEF Inv, GoodTable, Begun, Terminal
<1>1. ASSUME NEW S \in SUBSET ExpiredJobs
      PROVE  /\ ReconciledJobs(S)[j].state \in Begun
             /\ ReconciledJobs(S)[j].agent = jobs[j].agent
  <2>1. CASE j \notin S
    BY <2>1 DEF ReconciledJobs
  <2>2. CASE j \in S
    <3>1. Expired(jobs[j]) /\ jobs[j].state = "running"
      BY <1>0, <2>2 DEF ExpiredJobs, Expired, DispatchExpired, ExecutionExpired
    <3>2. ReconciledJobs(S)[j] = ReconciledRow(jobs[j])
      BY <2>2 DEF ReconciledJobs
    <3>3. ReconciledRow(jobs[j]).agent = jobs[j].agent
      BY <1>0, <3>1, ReconciledRowGood
    <3>4. ReconciledRow(jobs[j]).state = "unknown"
      BY <1>0, <3>1 DEF ReconciledRow, TimedOut, GoodRow, Row
    <3> QED BY <3>2, <3>3, <3>4 DEF Begun, Terminal
  <2> QED BY <2>1, <2>2
<1>2. ASSUME NEW S \in SUBSET ExpiredJobs, Reconcile(S)
      PROVE  jobs'[j].state \in Begun /\ jobs'[j].agent = jobs[j].agent
  BY <1>1, <1>2 DEF Reconcile
<1>3. CASE \E o \in Operators, k \in Keys, a \in Agents : CreateJob(o, k, a)
  <2>1. PICK o \in Operators, k \in Keys, a \in Agents, i \in Jobs :
          ~Exists(i) /\ jobs' = [jobs EXCEPT ![i] = QueuedRow(o, k, a)]
    BY <1>3 DEF CreateJob
  <2>2. i # j
    BY <1>0, <2>1 DEF Exists
  <2> QED BY <1>0, <2>1, <2>2
<1>4. CASE \E a \in Agents : ClaimNextAgentJob(a)
  <2>1. PICK a \in Agents : ClaimNextAgentJob(a)
    BY <1>4
  <2>2. ExpiredJobsOf(a) \in SUBSET ExpiredJobs
    BY DEF ExpiredJobsOf
  <2>3. CASE ClaimNothing(a)
    BY <1>2, <2>2, <2>3 DEF ClaimNothing
  <2>4. CASE \E i \in Jobs : ClaimJob(a, i)
    <3> DEFINE rows == ReconciledJobs(ExpiredJobsOf(a))
    <3>1. PICK i \in Jobs :
            rows[i].state = "queued" /\ jobs' = [rows EXCEPT ![i] = DispatchedRow(rows[i])]
      BY <2>4 DEF ClaimJob, OldestQueued, QueuedOf
    <3>2. rows[j].state \in Begun /\ rows[j].agent = jobs[j].agent
      BY <1>1, <2>2
    <3>3. rows = [m \in Jobs |-> rows[m]]
      BY DEF ReconciledJobs
    <3> HIDE DEF rows
    <3>4. i # j
      BY <3>1, <3>2 DEF Begun, Terminal
    <3> QED BY <3>1, <3>2, <3>3, <3>4
  <2> QED BY <2>1, <2>3, <2>4 DEF ClaimNextAgentJob
<1>5. CASE \E a \in Agents, i \in Jobs, n \in 1..MaxDispatchAttempts : StartAgentJob(a, i, n)
  BY <1>0, <1>5 DEF StartAgentJob, MayStart
<1>6. CASE \E a \in Agents, i \in Jobs, n \in 1..MaxDispatchAttempts, outcome \in Outcome :
            CompleteAgentJob(a, i, n, outcome)
  <2>1. PICK i \in Jobs, outcome \in Outcome :
          /\ jobs[i].state = "running"
          /\ jobs' = [jobs EXCEPT ![i] = FinishedRow(jobs[i], outcome)]
    BY <1>6 DEF CompleteAgentJob, MayComplete
  <2>2. GoodRow(jobs[i])
    BY DEF Inv, GoodTable
  <2>3. /\ FinishedRow(jobs[i], outcome).agent = jobs[i].agent
        /\ FinishedRow(jobs[i], outcome).state \in Begun
    BY <2>1, <2>2, FinishedRowGood DEF Begun, Terminal, Outcome
  <2> QED BY <1>0, <2>1, <2>3
<1>7. CASE \E a \in Agents, i \in Jobs, n \in 1..MaxDispatchAttempts : CompleteTooLate(a, i, n)
  <2>1. PICK i \in Jobs : \E a \in Agents, n \in 1..MaxDispatchAttempts : CompleteTooLate(a, i, n)
    BY <1>7
  <2>2. {i} \in SUBSET ExpiredJobs /\ Reconcile({i})
    BY <2>1 DEF CompleteTooLate, MayComplete, ExpiredJobs, Expired, ExecutionExpired
  <2> QED BY <1>2, <2>2
<1>8. CASE \E i \in Jobs : GetJobByID(i)
  BY <1>2, <1>8 DEF GetJobByID
<1>9. CASE \E a \in Agents : ListAgentJobs(a)
  BY <1>2, <1>9 DEF ListAgentJobs, ExpiredJobsOf
<1>10. CASE ListJobs
  BY <1>2, <1>10 DEF ListJobs
<1>11. CASE Tick
  BY <1>0, <1>11, ElapsedRowGood DEF Tick
<1>12. CASE UNCHANGED vars
  BY <1>12 DEF vars
<1> QED
  BY <1>3, <1>4, <1>5, <1>6, <1>7, <1>8, <1>9, <1>10, <1>11, <1>12 DEF Next

-----------------------------------------------------------------------------
(* Requests *)

Attempts == 1..MaxDispatchAttempts

Place == {"idle", "heartbeat", "retry", "start", "execute", "complete", "down", "stopped"}

AssignmentRow == [job : Jobs, attempt : 1..MaxDispatchAttempts]

ReportRow == [job : Jobs, attempt : 1..MaxDispatchAttempts, outcome : Outcome]

Answers == [status : {"done", "conflict"}, assignment : AssignmentRow \cup {None}]

Requests ==
    [type : {"heartbeat", "start", "complete"}, agent : Agents, job : Jobs \cup {None},
     attempt : Attempts \cup {None}, outcome : Outcome \cup {None},
     phase : {"sent", "claiming", "replied"}, reply : Answers \cup {None}]

\* A request names what its handler reads, and has an answer once handled.
GoodRequest(r) ==
    /\ r \in Requests
    /\ r.type \in {"start", "complete"} => r.job \in Jobs /\ r.attempt \in Attempts
    /\ r.type = "complete" => r.outcome \in Outcome
    /\ r.phase = "replied" => r.reply \in Answers

\* The requests the agent sends.
LEMMA SentRequests ==
    ASSUME NEW a \in Agents
    PROVE  /\ GoodRequest(HeartbeatRequest(a)) /\ HeartbeatRequest(a).agent = a
           /\ HeartbeatRequest(a).type = "heartbeat"
           /\ HeartbeatRequest(a).phase = "sent"
           /\ \A asg \in AssignmentRow :
                /\ GoodRequest(JobStartRequest(a, asg)) /\ JobStartRequest(a, asg).agent = a
                /\ JobStartRequest(a, asg).type = "start"
                /\ JobStartRequest(a, asg).job = asg.job
                /\ JobStartRequest(a, asg).phase = "sent"
           /\ \A rep \in ReportRow :
                /\ GoodRequest(JobCompleteRequest(a, rep))
                /\ JobCompleteRequest(a, rep).agent = a
                /\ JobCompleteRequest(a, rep).type = "complete"
                /\ JobCompleteRequest(a, rep).phase = "sent"
  BY DEF GoodRequest, Requests, HeartbeatRequest, JobStartRequest, JobCompleteRequest,
         Request, AssignmentRow, ReportRow, Attempts

\* The answers of the controller.
LEMMA GoodAnswers ==
    /\ Done \in Answers
    /\ Conflict \in Answers
    /\ Done # Conflict
    /\ \A j \in Jobs, n \in Attempts : Assign(j, n) \in Answers
  BY DEF Answers, Done, Conflict, Assign, Assignment, Answer, AssignmentRow, Attempts

\* The handlers change the phase and the answer of a request, and nothing else.
LEMMA HandledGood ==
    ASSUME NEW r, GoodRequest(r), NEW s \in Handled(r)
    PROVE  /\ GoodRequest(s)
           /\ s.type = r.type
           /\ s.agent = r.agent
           /\ s.job = r.job
           /\ s.attempt = r.attempt
           /\ s.outcome = r.outcome
<1>0. r \in Requests
  BY DEF GoodRequest
<1>1. \/ s = [r EXCEPT !.phase = "claiming"]
      \/ \E answer \in Answers : s = Replied(r, answer)
  BY SMTT(30), GoodAnswers DEF Handled, Attempts
<1>2. ASSUME NEW q \in Requests
      PROVE  /\ \A v \in {"sent", "claiming", "replied"} : [q EXCEPT !.phase = v] \in Requests
             /\ \A v \in Answers : [q EXCEPT !.reply = v] \in Requests
  BY DEF Requests
<1>3. CASE s = [r EXCEPT !.phase = "claiming"]
  <2>1. s \in Requests
    BY <1>0, <1>2, <1>3
  <2>2. /\ s.type = r.type /\ s.agent = r.agent /\ s.job = r.job
        /\ s.attempt = r.attempt /\ s.outcome = r.outcome
        /\ s.phase = "claiming" /\ s.reply = r.reply
    BY <1>0, <1>3 DEF Requests
  <2> QED BY <2>1, <2>2 DEF GoodRequest
<1>4. CASE \E answer \in Answers : s = Replied(r, answer)
  <2>0. PICK answer \in Answers : s = Replied(r, answer)
    BY <1>4
  <2>1. s \in Requests
    BY <1>0, <1>2, <2>0 DEF Replied
  <2>2. /\ s.type = r.type /\ s.agent = r.agent /\ s.job = r.job
        /\ s.attempt = r.attempt /\ s.outcome = r.outcome
        /\ s.phase = "replied" /\ s.reply = answer
    BY <1>0, <2>0 DEF Requests, Replied
  <2> QED BY <2>1, <2>2 DEF GoodRequest
<1> QED BY <1>1, <1>3, <1>4

\* A handler is an operation of the store, or changes nothing in it.
LEMMA HandleIsStoreStep ==
    ASSUME NEW r, GoodRequest(r), NEW s, Handle(r, s)
    PROVE  [Next]_vars
<1>0. r.agent \in Agents
  BY DEF GoodRequest, Requests
<1>1. CASE HandleHeartbeat(r, s)
  BY <1>1 DEF HandleHeartbeat
<1>2. CASE HandleClaim(r, s)
  BY <1>0, <1>2 DEF HandleClaim, ClaimNextAgentJob, Next
<1>3. CASE HandleStart(r, s)
  BY <1>0, <1>3 DEF HandleStart, GoodRequest, Attempts, Next
<1>4. CASE HandleComplete(r, s)
  BY <1>0, <1>4 DEF HandleComplete, GoodRequest, Attempts, Next
<1> QED BY <1>1, <1>2, <1>3, <1>4 DEF Handle

\* A start is granted only by StartAgentJob.
LEMMA GrantIsStart ==
    ASSUME NEW r, GoodRequest(r), r.type = "start", NEW s, Handle(r, s),
           s.phase = "replied", s.reply = Done
    PROVE  StartAgentJob(r.agent, r.job, r.attempt)
<1>1. HandleStart(r, s)
  BY DEF Handle, HandleHeartbeat, HandleClaim, HandleComplete
<1>2. s # Replied(r, Conflict)
  BY GoodAnswers DEF Replied, GoodRequest, Requests
<1> QED BY <1>1, <1>2 DEF HandleStart

-----------------------------------------------------------------------------
(* The inductive invariant *)

\* Agent a was granted the start of job j and has not executed it.
Granted(a, j) == jobs[j].agent = a /\ jobs[j].state \in Begun /\ ran[j] = <<>>

Waiting == {"heartbeat", "retry", "start", "complete"}

\* Agent a may be at l with this assignment, pending completion and call.
GoodAgent(a, l, asg, pend, c) ==
    /\ l \in Place
    /\ l \in Waiting => GoodRequest(c) /\ c.agent = a
    /\ l \notin Waiting => c = None
    /\ asg \in AssignmentRow \cup {None}
    /\ pend \in ReportRow \cup {None}
    /\ l \in {"start", "execute", "complete"} => asg \in AssignmentRow
    /\ l = "start" => c.type = "start" /\ c.job = asg.job
    /\ l = "complete" => c.type = "complete"
    /\ l = "start" /\ c.phase = "replied" /\ c.reply = Done => Granted(a, asg.job)
    /\ l = "execute" => Granted(a, asg.job)

\* The variables of the agents are functions.
AgentTables ==
    /\ pc = [a \in Agents |-> pc[a]]
    /\ assignment = [a \in Agents |-> assignment[a]]
    /\ pending = [a \in Agents |-> pending[a]]
    /\ call = [a \in Agents |-> call[a]]

\* A job is executed at most once, and only after its start.
GoodRuns ==
    /\ ran \in [Jobs -> Seq(Outcome)]
    /\ \A j \in Jobs : ran[j] # <<>> => jobs[j].state \in Begun
    /\ \A j \in Jobs : Len(ran[j]) <= 1

DispatchInv ==
    /\ Inv
    /\ AgentTables
    /\ \A a \in Agents : GoodAgent(a, pc[a], assignment[a], pending[a], call[a])
    /\ \A r \in late : GoodRequest(r)
    /\ GoodRuns

LEMMA DispatchInvInit == DispatchInit => DispatchInv
<1> SUFFICES ASSUME DispatchInit PROVE DispatchInv
  OBVIOUS
<1>1. Inv
  BY InvInit DEF DispatchInit
<1>2. AgentTables
  BY DEF DispatchInit, AgentTables
<1>3. \A a \in Agents : GoodAgent(a, pc[a], assignment[a], pending[a], call[a])
  BY DEF DispatchInit, GoodAgent, Place, Waiting
<1>4. GoodRuns
  BY SMTT(30) DEF DispatchInit, GoodRuns
<1> QED BY <1>1, <1>2, <1>3, <1>4 DEF DispatchInv, DispatchInit

\* An agent gives up on its call, or on none.
LEMMA AbandonGood ==
    ASSUME DispatchInv, NEW a \in Agents, Abandon(a)
    PROVE  \A r \in late' : GoodRequest(r)
<1>1. GoodAgent(a, pc[a], assignment[a], pending[a], call[a])
  BY DEF DispatchInv
<1>2. call[a] # None => GoodRequest(call[a])
  BY <1>1 DEF GoodAgent
<1> QED BY SMTT(30), <1>2 DEF Abandon, DispatchInv

\* A step of an agent that executes nothing keeps the invariant when the agent
\* is in order afterwards.
LEMMA AgentMoves ==
    ASSUME DispatchInv, NEW a \in Agents, NEW l, NEW asg, NEW pend, NEW req,
           Go(a, l, asg, pend, req), GoodAgent(a, l, asg, pend, req),
           UNCHANGED vars, UNCHANGED ran, \A r \in late' : GoodRequest(r)
    PROVE  DispatchInv'
<1>1. UNCHANGED <<jobs, events, audit>>
  BY DEF vars
<1>2. Inv'
  BY <1>1 DEF DispatchInv, Inv, GoodTable, GoodHistories, GoodHistory
<1>3. GoodRuns'
  BY <1>1 DEF DispatchInv, GoodRuns
<1>4. /\ AgentTables'
      /\ \A b \in Agents :
            /\ pc'[b] = IF b = a THEN l ELSE pc[b]
            /\ assignment'[b] = IF b = a THEN asg ELSE assignment[b]
            /\ pending'[b] = IF b = a THEN pend ELSE pending[b]
            /\ call'[b] = IF b = a THEN req ELSE call[b]
  BY DEF Go, DispatchInv, AgentTables
<1>5. ASSUME NEW b \in Agents
      PROVE  GoodAgent(b, pc[b], assignment[b], pending[b], call[b])'
  <2>1. CASE b = a
    BY <1>1, <1>4, <2>1 DEF GoodAgent, Granted
  <2>2. CASE b # a
    BY SMTT(30), <1>1, <1>4, <2>2 DEF DispatchInv, GoodAgent, Granted
  <2> QED BY <2>1, <2>2
<1> QED BY <1>2, <1>3, <1>4, <1>5 DEF DispatchInv

\* What was granted stays granted while the store moves on and nothing runs.
LEMMA GrantStays ==
    ASSUME DispatchInv, [Next]_vars, UNCHANGED ran,
           NEW a \in Agents, NEW j \in Jobs, Granted(a, j)
    PROVE  Granted(a, j)'
  BY BegunStays DEF DispatchInv, Granted

\* So an agent that does not move stays in order.
LEMMA AgentStays ==
    ASSUME DispatchInv, [Next]_vars, UNCHANGED ran, NEW a \in Agents,
           UNCHANGED <<pc, assignment, pending>>, call'[a] = call[a]
    PROVE  GoodAgent(a, pc[a], assignment[a], pending[a], call[a])'
<1>1. GoodAgent(a, pc[a], assignment[a], pending[a], call[a])
  BY DEF DispatchInv
<1>2. assignment[a] \in AssignmentRow => assignment[a].job \in Jobs
  BY DEF AssignmentRow
<1> QED BY <1>1, <1>2, GrantStays DEF GoodAgent

\* The runs stay in order while the store moves on and nothing runs.
LEMMA RunsStay ==
    ASSUME DispatchInv, [Next]_vars, UNCHANGED ran
    PROVE  GoodRuns'
  BY BegunStays DEF DispatchInv, GoodRuns

-----------------------------------------------------------------------------
(* The steps *)

\* The controller handles the call of an agent.
LEMMA ServeKeeps ==
    ASSUME DispatchInv, NEW a \in Agents, Serve(a)
    PROVE  DispatchInv' /\ [Next]_vars
<1>1. GoodAgent(a, pc[a], assignment[a], pending[a], call[a]) /\ call[a] # None
  BY DEF DispatchInv, Serve
<1>2. GoodRequest(call[a]) /\ call[a].agent = a /\ pc[a] \in Waiting
  BY <1>1 DEF GoodAgent
<1>3. PICK s \in Handled(call[a]) : Handle(call[a], s) /\ call' = [call EXCEPT ![a] = s]
  BY DEF Serve
<1>4. UNCHANGED <<pc, assignment, pending, late, ran>>
  BY DEF Serve
<1>5. [Next]_vars
  BY <1>2, <1>3, HandleIsStoreStep
<1>6. Inv'
  BY <1>5, InvNext DEF DispatchInv
<1>7. /\ GoodRequest(s)
      /\ s.type = call[a].type /\ s.agent = a /\ s.job = call[a].job
  BY <1>2, <1>3, HandledGood
<1>8. AgentTables' /\ \A b \in Agents : call'[b] = IF b = a THEN s ELSE call[b]
  BY <1>3, <1>4 DEF DispatchInv, AgentTables
<1>9. ASSUME NEW b \in Agents
      PROVE  GoodAgent(b, pc[b], assignment[b], pending[b], call[b])'
  <2>1. CASE b # a
    BY <1>4, <1>5, <1>8, <2>1, AgentStays
  <2>2. CASE b = a
    <3>1. ASSUME pc[a] = "start", s.phase = "replied", s.reply = Done
          PROVE  Granted(a, assignment[a].job)'
      <4> DEFINE j == assignment[a].job
      <4>1. call[a].type = "start" /\ call[a].job = j /\ j \in Jobs
        BY <1>1, <3>1 DEF GoodAgent, AssignmentRow
      <4>2. StartAgentJob(a, j, call[a].attempt)
        BY <1>2, <1>3, <3>1, <4>1, GrantIsStart
      <4> HIDE DEF j
      <4>3. /\ jobs[j].state = "dispatched" /\ jobs[j].agent = a
            /\ jobs'[j] = RunningRow(jobs[j])
        BY <4>1, <4>2 DEF StartAgentJob, MayStart, DispatchInv, Inv, GoodTable
      <4>4. jobs'[j].state = "running" /\ jobs'[j].agent = a
        BY SMTT(30), <4>1, <4>3, RunningRowGood DEF DispatchInv, Inv, GoodTable
      <4>5. ran'[j] = <<>>
        BY <1>4, <4>1, <4>3 DEF DispatchInv, GoodRuns, Begun, Terminal
      <4> QED BY <1>4, <4>4, <4>5 DEF Granted, Begun, j
    <3>2. call'[a] = s
      BY <1>8
    <3>3. pc[a] # "execute"
      BY <1>2 DEF Waiting
    <3> QED BY <1>1, <1>2, <1>4, <1>7, <2>2, <3>1, <3>2, <3>3 DEF GoodAgent
  <2> QED BY <2>1, <2>2
<1>10. GoodRuns'
  BY <1>4, <1>5, RunsStay
<1>11. \A r \in late' : GoodRequest(r)
  BY <1>4 DEF DispatchInv
<1> QED BY <1>5, <1>6, <1>8, <1>9, <1>10, <1>11 DEF DispatchInv

\* The controller handles a request nobody waits for.
LEMMA ServeLateKeeps ==
    ASSUME DispatchInv, NEW r \in late, ServeLate(r)
    PROVE  DispatchInv' /\ [Next]_vars
<1>1. GoodRequest(r)
  BY DEF DispatchInv
<1>2. PICK s \in Handled(r) :
        Handle(r, s) /\ late' = (late \ {r}) \cup {t \in {s} : t.phase # "replied"}
  BY DEF ServeLate
<1>3. UNCHANGED <<pc, assignment, pending, call, ran>>
  BY DEF ServeLate
<1>4. [Next]_vars
  BY <1>1, <1>2, HandleIsStoreStep
<1>5. Inv'
  BY <1>4, InvNext DEF DispatchInv
<1>6. \A t \in late' : GoodRequest(t)
  BY <1>1, <1>2, HandledGood DEF DispatchInv
<1>7. \A a \in Agents : GoodAgent(a, pc[a], assignment[a], pending[a], call[a])'
  BY <1>3, <1>4, AgentStays
<1>8. GoodRuns'
  BY <1>3, <1>4, RunsStay
<1>9. AgentTables'
  BY <1>3 DEF DispatchInv, AgentTables
<1> QED BY <1>4, <1>5, <1>6, <1>7, <1>8, <1>9 DEF DispatchInv

\* Operators and the clock.
LEMMA EnvironmentKeeps ==
    ASSUME DispatchInv, Environment
    PROVE  DispatchInv' /\ [Next]_vars
<1>1. UNCHANGED <<pc, assignment, pending, call, late, ran>>
  BY DEF Environment, agentVars
<1>2. [Next]_vars
  BY DEF Environment, Next
<1>3. Inv'
  BY <1>2, InvNext DEF DispatchInv
<1>4. \A a \in Agents : GoodAgent(a, pc[a], assignment[a], pending[a], call[a])'
  BY <1>1, <1>2, AgentStays
<1>5. GoodRuns'
  BY <1>1, <1>2, RunsStay
<1>6. AgentTables' /\ \A r \in late' : GoodRequest(r)
  BY <1>1 DEF DispatchInv, AgentTables
<1> QED BY <1>2, <1>3, <1>4, <1>5, <1>6 DEF DispatchInv

\* The execution uses up the grant.
LEMMA ExecuteKeeps ==
    ASSUME DispatchInv, NEW a \in Agents, Execute(a)
    PROVE  DispatchInv'
<1> DEFINE j == assignment[a].job
<1>1. PICK outcome \in Outcome :
        /\ ran' = [ran EXCEPT ![j] = Append(@, outcome)]
        /\ Go(a, "complete", assignment[a], None,
              JobCompleteRequest(a, Report(assignment[a], outcome)))
  BY DEF Execute
<1>2. UNCHANGED <<jobs, events, audit, late>> /\ pc[a] = "execute"
  BY DEF Execute, vars
<1>3. assignment[a] \in AssignmentRow /\ j \in Jobs /\ Granted(a, j)
  BY <1>2 DEF DispatchInv, GoodAgent, AssignmentRow
<1> DEFINE req == JobCompleteRequest(a, Report(assignment[a], outcome))
<1>4. GoodRequest(req) /\ req.agent = a /\ req.type = "complete"
  <2>1. Report(assignment[a], outcome) \in ReportRow
    BY <1>3 DEF Report, ReportRow, AssignmentRow
  <2> QED BY <2>1, SentRequests
<1> HIDE DEF req, j
<1>5. Inv'
  BY <1>2 DEF DispatchInv, Inv, GoodTable, GoodHistories, GoodHistory
<1>6. /\ AgentTables'
      /\ \A b \in Agents :
            /\ pc'[b] = IF b = a THEN "complete" ELSE pc[b]
            /\ assignment'[b] = assignment[b]
            /\ pending'[b] = IF b = a THEN None ELSE pending[b]
            /\ call'[b] = IF b = a THEN req ELSE call[b]
  BY <1>1 DEF Go, DispatchInv, AgentTables, req
<1>7. /\ ran' \in [Jobs -> Seq(Outcome)]
      /\ \A i \in Jobs : ran'[i] = IF i = j THEN <<outcome>> ELSE ran[i]
  BY SMTT(30), <1>1, <1>3 DEF Granted, DispatchInv, GoodRuns
<1>8. GoodRuns'
  <2>1. \A i \in Jobs : ran'[i] # <<>> => jobs'[i].state \in Begun
    BY <1>2, <1>3, <1>7 DEF DispatchInv, GoodRuns, Granted
  <2>2. \A i \in Jobs : Len(ran'[i]) <= 1
    <3>1. Len(<<outcome>>) <= 1
      BY SMTT(30)
    <3> QED BY <1>7, <3>1 DEF DispatchInv, GoodRuns
  <2> QED BY <1>7, <2>1, <2>2 DEF GoodRuns
<1>9. ASSUME NEW b \in Agents
      PROVE  GoodAgent(b, pc[b], assignment[b], pending[b], call[b])'
  <2>1. CASE b = a
    BY <1>3, <1>4, <1>6, <2>1 DEF GoodAgent, Place, Waiting
  <2>2. CASE b # a
    <3>1. GoodAgent(b, pc[b], assignment[b], pending[b], call[b])
      BY DEF DispatchInv
    <3>2. \A i \in Jobs : Granted(b, i) => Granted(b, i)'
      BY <1>2, <1>3, <1>7, <2>2 DEF Granted
    <3>3. assignment[b] \in AssignmentRow => assignment[b].job \in Jobs
      BY DEF AssignmentRow
    <3> QED BY <1>6, <2>2, <3>1, <3>2, <3>3 DEF GoodAgent
  <2> QED BY <2>1, <2>2
<1> QED BY <1>2, <1>5, <1>6, <1>8, <1>9 DEF DispatchInv

\* The rest of an iteration: idle, or the start of the assignment.
LEMMA GoStartKeeps ==
    ASSUME DispatchInv, NEW a \in Agents, NEW asg \in AssignmentRow \cup {None},
           GoStart(a, asg), UNCHANGED <<vars, late, ran>>
    PROVE  DispatchInv'
<1>1. \A r \in late' : GoodRequest(r)
  BY DEF DispatchInv
<1>2. CASE asg = None
  <2>1. Go(a, "idle", None, None, None)
    BY <1>2 DEF GoStart
  <2>2. GoodAgent(a, "idle", None, None, None)
    BY DEF GoodAgent, Place, Waiting
  <2> QED BY <1>1, <2>1, <2>2, AgentMoves
<1>3. CASE asg # None
  <2>1. asg \in AssignmentRow /\ Go(a, "start", asg, None, JobStartRequest(a, asg))
    BY <1>3 DEF GoStart
  <2>2. GoodAgent(a, "start", asg, None, JobStartRequest(a, asg))
    BY <2>1, SentRequests DEF GoodAgent, Place, Waiting
  <2> QED BY <1>1, <2>1, <2>2, AgentMoves
<1> QED BY <1>2, <1>3

\* Every step of an agent.
LEMMA AgentKeeps ==
    ASSUME DispatchInv, NEW a \in Agents, Agent(a)
    PROVE  DispatchInv' /\ UNCHANGED vars
<1>0. GoodAgent(a, pc[a], assignment[a], pending[a], call[a]) /\ \A r \in late : GoodRequest(r)
  BY DEF DispatchInv
<1>1. \A l \in Place \ (Waiting \cup {"execute"}), pend \in ReportRow \cup {None} :
        GoodAgent(a, l, None, pend, None)
  BY DEF GoodAgent, Place, Waiting
<1>2. CASE SendHeartbeat(a)
  <2>1. GoodAgent(a, "heartbeat", None, pending[a], HeartbeatRequest(a))
    BY <1>0, SentRequests DEF GoodAgent, Place, Waiting
  <2> QED BY <1>0, <1>2, <2>1, AgentMoves DEF SendHeartbeat
<1>3. CASE HeartbeatReturns(a)
  <2> DEFINE asg == call[a].reply.assignment
  <2>1. asg \in AssignmentRow \cup {None}
    BY <1>0, <1>3 DEF HeartbeatReturns, Answered, GoodAgent, Waiting, GoodRequest, Answers
  <2> HIDE DEF asg
  <2>2. UNCHANGED <<vars, late, ran>>
    BY <1>3 DEF HeartbeatReturns
  <2>3. CASE pending[a] # None
    <3>1. Go(a, "retry", asg, pending[a], JobCompleteRequest(a, pending[a]))
      BY <1>3, <2>3 DEF HeartbeatReturns, asg
    <3>2. pending[a] \in ReportRow
      BY <1>0, <2>3 DEF GoodAgent
    <3>3. GoodAgent(a, "retry", asg, pending[a], JobCompleteRequest(a, pending[a]))
      BY <2>1, <3>2, SentRequests DEF GoodAgent, Place, Waiting
    <3> QED BY <1>0, <2>2, <3>1, <3>3, AgentMoves
  <2>4. CASE pending[a] = None
    <3>1. GoStart(a, asg)
      BY <1>3, <2>4 DEF HeartbeatReturns, asg
    <3> QED BY <2>1, <2>2, <3>1, GoStartKeeps
  <2> QED BY <2>3, <2>4
<1>4. CASE HeartbeatFails(a) \/ RetryFails(a)
  <2>1. GoodAgent(a, "idle", None, pending[a], None)
    BY <1>0, <1>1 DEF GoodAgent, Place, Waiting
  <2>2. \A r \in late' : GoodRequest(r)
    BY <1>4, AbandonGood DEF HeartbeatFails, RetryFails
  <2> QED BY <1>4, <2>1, <2>2, AgentMoves DEF HeartbeatFails, RetryFails
<1>5. CASE HeartbeatBodyFails(a)
  BY <1>0, <1>1, <1>5, AgentMoves DEF HeartbeatBodyFails, Place, Waiting
<1>6. CASE RetryReturns(a)
  <2>1. assignment[a] \in AssignmentRow \cup {None}
    BY <1>0 DEF GoodAgent
  <2> QED BY <1>6, <2>1, GoStartKeeps DEF RetryReturns
<1>7. CASE StartReturns(a)
  <2>1. CASE call[a].reply = Done
    <3>1. GoodAgent(a, "execute", assignment[a], None, None)
      BY <1>0, <1>7, <2>1 DEF StartReturns, Answered, GoodAgent, Place, Waiting
    <3> QED BY <1>0, <1>7, <2>1, <3>1, AgentMoves DEF StartReturns
  <2>2. CASE call[a].reply # Done
    BY <1>0, <1>1, <1>7, <2>2, AgentMoves DEF StartReturns, Place, Waiting
  <2> QED BY <2>1, <2>2
<1>8. CASE StartFails(a)
  <2>1. \A r \in late' : GoodRequest(r)
    BY <1>8, AbandonGood DEF StartFails
  <2> QED BY <1>1, <1>8, <2>1, AgentMoves DEF StartFails, Place, Waiting
<1>9. CASE Execute(a)
  BY <1>9, ExecuteKeeps DEF Execute
<1>10. CASE CompleteReturns(a) \/ Restart(a)
  BY <1>0, <1>1, <1>10, AgentMoves DEF CompleteReturns, Restart, Place, Waiting
<1>11. CASE CompleteFails(a)
  <2> DEFINE rep == Report(assignment[a], call[a].outcome)
  <2>1. rep \in ReportRow
    BY <1>0, <1>11
    DEF CompleteFails, GoodAgent, GoodRequest, Waiting, Report, ReportRow, AssignmentRow
  <2>2. GoodAgent(a, "idle", None, rep, None)
    BY <1>1, <2>1 DEF Place, Waiting
  <2>3. \A r \in late' : GoodRequest(r)
    BY <1>11, AbandonGood DEF CompleteFails
  <2> QED BY <1>11, <2>2, <2>3, AgentMoves DEF CompleteFails
<1>12. CASE Crash(a)
  <2>1. \A r \in late' : GoodRequest(r)
    BY <1>12, AbandonGood DEF Crash
  <2> QED BY <1>1, <1>12, <2>1, AgentMoves DEF Crash, Place, Waiting
<1> QED
  BY <1>2, <1>3, <1>4, <1>5, <1>6, <1>7, <1>8, <1>9, <1>10, <1>11, <1>12 DEF Agent

\* Every step keeps the invariant, and is a step of the store or none.
LEMMA DispatchInvNext == DispatchInv /\ [DispatchNext]_allVars => DispatchInv' /\ [Next]_vars
<1> SUFFICES ASSUME DispatchInv, [DispatchNext]_allVars PROVE DispatchInv' /\ [Next]_vars
  OBVIOUS
<1>1. CASE \E a \in Agents : Serve(a)
  BY <1>1, ServeKeeps
<1>2. CASE \E a \in Agents : Agent(a)
  BY <1>2, AgentKeeps
<1>3. CASE \E r \in late : ServeLate(r)
  BY <1>3, ServeLateKeeps
<1>4. CASE Environment
  BY <1>4, EnvironmentKeeps
<1>5. CASE UNCHANGED allVars
  <2>1. UNCHANGED <<jobs, events, audit, pc, assignment, pending, call, late, ran>>
    BY <1>5 DEF allVars, vars, agentVars
  <2>2. UNCHANGED vars
    BY <2>1 DEF vars
  <2>3. Inv'
    BY <2>1 DEF DispatchInv, Inv, GoodTable, GoodHistories, GoodHistory
  <2>4. DispatchInv'
    BY <2>1, <2>3 DEF DispatchInv, AgentTables, GoodAgent, Granted, GoodRuns
  <2> QED BY <2>2, <2>4
<1> QED BY <1>1, <1>2, <1>3, <1>4, <1>5 DEF DispatchNext

LEMMA DispatchInvariance == DispatchSpec => []DispatchInv
  BY DispatchInvInit, DispatchInvNext, PTL DEF DispatchSpec

-----------------------------------------------------------------------------
(* The theorems *)

\* The agents and the handlers use the job tables only through the operations
\* of jobs.go: every theorem about JobStore holds of the protocol.
THEOREM UsesStore == DispatchSpec => Spec
<1>1. DispatchInit => Init
  BY DEF DispatchInit
<1> QED BY <1>1, DispatchInvNext, DispatchInvariance, PTL DEF DispatchSpec, Spec

\* The "At-most-once execution contract" of runPresenceWithConfig and the start
\* handler: whatever is lost, late or retried, and however often agents crash,
\* no job is executed twice.
THEOREM ExecutedAtMostOnce == DispatchSpec => []AtMostOnceExecution
<1>1. DispatchInv => AtMostOnceExecution
  BY DEF DispatchInv, GoodRuns, AtMostOnceExecution
<1> QED BY <1>1, DispatchInvariance, PTL

-----------------------------------------------------------------------------
(* The row and the reports tell the execution *)

\* A job whose start was granted and that has no outcome from its agent yet.
Open == {"running", "unknown"}

\* Agent a may execute attempt n of job j: it has not been executed.
Held(a, j, n) ==
    /\ jobs[j].agent = a
    /\ jobs[j].attempt = n
    /\ jobs[j].state \in Open
    /\ ran[j] = <<>>

\* A report is backed by the one execution of the job, and no other is recorded.
Backed(a, j, n, outcome) ==
    /\ jobs[j].agent = a
    /\ jobs[j].attempt = n
    /\ ran[j] = <<outcome>>
    /\ jobs[j].state \in Open \/ CompletedAs(a, j, n, outcome)

\* What agent a executes is held, and what it reports is backed.
GoodReports(a, l, asg, pend, c) ==
    /\ l \in Waiting /\ c.type = "complete" => Backed(a, c.job, c.attempt, c.outcome)
    /\ pend # None => Backed(a, pend.job, pend.attempt, pend.outcome)
    /\ l = "start" => c.attempt = asg.attempt
    /\ l = "complete" => c.job = asg.job /\ c.attempt = asg.attempt
    /\ l = "start" /\ c.phase = "replied" /\ c.reply = Done => Held(a, asg.job, asg.attempt)
    /\ l = "execute" => Held(a, asg.job, asg.attempt)

\* Rows that do not exist have no failure code.
AbsentIsClean == \A j \in Jobs : jobs[j].state = "absent" => jobs[j].failure_code = NoFailure

\* The inductive invariant.  The reports still on their way must be backed, too:
\* one of them may be the next to write the row.
TruthInv ==
    /\ RowTellsExecution
    /\ AbsentIsClean
    /\ \A a \in Agents : GoodReports(a, pc[a], assignment[a], pending[a], call[a])
    /\ \A r \in late : r.type = "complete" => Backed(r.agent, r.job, r.attempt, r.outcome)

\* What a store operation other than a recorded completion does to a row: a
\* finished row keeps its outcome, a started one gets none, and one that was not
\* started is at most started or given up.
Quiet(row, new) ==
    /\ row.state \in Begun => new.agent = row.agent /\ new.attempt = row.attempt
    /\ row.state \in Outcome =>
        new.state = row.state /\ new.failure_code = row.failure_code
    /\ row.state \in Open =>
        new.state \in Open /\ new.failure_code \notin {"dispatch_exhausted", "executor_error"}
    /\ row.state \notin Begun =>
        \/ /\ new.state \in {"absent", "queued", "dispatched", "running"}
           /\ new.failure_code = NoFailure
        \/ new.state = "failed" /\ new.failure_code = "dispatch_exhausted"

\* The columns an operation leaves alone.
LEMMA SameIsQuiet ==
    ASSUME NEW row, GoodRow(row), row.state = "absent" => row.failure_code = NoFailure,
           NEW new, new.state = row.state, new.failure_code = row.failure_code,
           new.agent = row.agent, new.attempt = row.attempt
    PROVE  Quiet(row, new)
<1>1. row.state \in State \cup {"absent"}
  BY DEF GoodRow, Row
<1>2. row.state # "absent" => ValidateStateFailureCode(row.state, row.failure_code)
  BY DEF GoodRow
<1> QED BY <1>1, <1>2 DEF Quiet, Begun, Terminal, Open, Outcome, State, Active, InFlight,
                          ValidateStateFailureCode, NoFailure

LEMMA ReconciledIsQuiet ==
    ASSUME NEW row, GoodRow(row), Expired(row)
    PROVE  Quiet(row, ReconciledRow(row))
<1>1. row \in Row /\ row.state \in {"dispatched", "running"}
  BY DEF GoodRow, Expired, DispatchExpired, ExecutionExpired
<1>2. /\ ReconciledRow(row).agent = row.agent
      /\ ReconciledRow(row).attempt = row.attempt
  BY ReconciledRowGood
<1>3. ValidateStateFailureCode(row.state, row.failure_code)
  BY <1>1 DEF GoodRow
<1>4. CASE row.state = "running"
  <2>1. /\ ReconciledRow(row).state = "unknown"
        /\ ReconciledRow(row).failure_code = "execution_timeout"
    BY <1>1, <1>4 DEF ReconciledRow, TimedOut, Row
  <2> QED BY <1>2, <1>4, <2>1 DEF Quiet, Begun, Terminal, Open, Outcome
<1>5. CASE row.state = "dispatched"
  <2>1. row.failure_code = NoFailure
    BY <1>3, <1>5 DEF ValidateStateFailureCode
  <2>2. \/ ReconciledRow(row) = Requeued(row)
        \/ ReconciledRow(row) = Exhausted(row)
    BY <1>5 DEF ReconciledRow
  <2>3. /\ Requeued(row).state = "queued"
        /\ Requeued(row).failure_code = row.failure_code
        /\ Exhausted(row).state = "failed"
        /\ Exhausted(row).failure_code = "dispatch_exhausted"
    BY <1>1 DEF Requeued, Exhausted, Row
  <2>4. row.state \notin Begun /\ row.state \notin Open /\ row.state \notin Outcome
    BY <1>5 DEF Begun, Terminal, Open, Outcome
  <2> QED BY <2>1, <2>2, <2>3, <2>4 DEF Quiet
<1> QED BY <1>1, <1>4, <1>5

\* The operations that record no completion.
QuietNext ==
    \/ \E o \in Operators, k \in Keys, a \in Agents : CreateJob(o, k, a)
    \/ \E a \in Agents : ClaimNextAgentJob(a)
    \/ \E a \in Agents, j \in Jobs, n \in 1..MaxDispatchAttempts : StartAgentJob(a, j, n)
    \/ \E a \in Agents, j \in Jobs, n \in 1..MaxDispatchAttempts : CompleteTooLate(a, j, n)
    \/ \E j \in Jobs : GetJobByID(j)
    \/ \E a \in Agents : ListAgentJobs(a)
    \/ ListJobs
    \/ Tick

LEMMA QuietStep ==
    ASSUME Inv, AbsentIsClean, [QuietNext]_vars, NEW j \in Jobs
    PROVE  Quiet(jobs[j], jobs'[j])
<1>0. /\ jobs = [i \in Jobs |-> jobs[i]]
      /\ \A i \in Jobs : GoodRow(jobs[i])
      /\ \A i \in Jobs : jobs[i].state = "absent" => jobs[i].failure_code = NoFailure
  BY DEF Inv, GoodTable, AbsentIsClean
<1>1. Quiet(jobs[j], jobs[j])
  BY <1>0, SameIsQuiet
<1>2. ASSUME NEW S \in SUBSET ExpiredJobs, NEW i \in Jobs
      PROVE  Quiet(jobs[i], ReconciledJobs(S)[i])
  <2>1. Quiet(jobs[i], jobs[i])
    BY <1>0, SameIsQuiet
  <2>2. i \in S => Quiet(jobs[i], ReconciledRow(jobs[i]))
    BY <1>0, ReconciledIsQuiet DEF ExpiredJobs
  <2> QED BY <2>1, <2>2 DEF ReconciledJobs
<1>3. ASSUME NEW S \in SUBSET ExpiredJobs, Reconcile(S)
      PROVE  Quiet(jobs[j], jobs'[j])
  BY <1>2, <1>3 DEF Reconcile
<1>4. CASE \E o \in Operators, k \in Keys, a \in Agents : CreateJob(o, k, a)
  <2>1. PICK o \in Operators, k \in Keys, a \in Agents, i \in Jobs :
          ~Exists(i) /\ jobs' = [jobs EXCEPT ![i] = QueuedRow(o, k, a)]
    BY <1>4 DEF CreateJob
  <2>2. CASE i # j
    BY <1>0, <1>1, <2>1, <2>2
  <2>3. CASE i = j
    <3>1. jobs'[j] = QueuedRow(o, k, a) /\ jobs[j].state = "absent"
      BY <1>0, <2>1, <2>3 DEF Exists
    <3>2. jobs'[j].state = "queued" /\ jobs'[j].failure_code = NoFailure
      BY <3>1 DEF QueuedRow, NoRow
    <3> QED BY <3>1, <3>2 DEF Quiet, Begun, Terminal, Open, Outcome
  <2> QED BY <2>2, <2>3
<1>5. CASE \E a \in Agents : ClaimNextAgentJob(a)
  <2>1. PICK a \in Agents : ClaimNextAgentJob(a)
    BY <1>5
  <2>2. ExpiredJobsOf(a) \in SUBSET ExpiredJobs
    BY DEF ExpiredJobsOf
  <2>3. CASE ClaimNothing(a)
    BY <1>3, <2>2, <2>3 DEF ClaimNothing
  <2>4. CASE \E i \in Jobs : ClaimJob(a, i)
    <3> DEFINE rows == ReconciledJobs(ExpiredJobsOf(a))
    <3>1. PICK i \in Jobs :
            /\ rows[i].state = "queued"
            /\ jobs' = [rows EXCEPT ![i] = DispatchedRow(rows[i])]
      BY <2>4 DEF ClaimJob, OldestQueued, QueuedOf
    <3>2. Quiet(jobs[j], rows[j]) /\ GoodRow(rows[j])
      BY <1>2, <2>2, ReconcileGood DEF Inv, GoodTable
    <3>3. rows = [m \in Jobs |-> rows[m]]
      BY DEF ReconciledJobs
    <3> HIDE DEF rows
    <3>4. CASE i # j
      BY <3>1, <3>2, <3>3, <3>4
    <3>5. CASE i = j
      <4>1. jobs'[j] = DispatchedRow(rows[j])
        BY <3>1, <3>3, <3>5
      <4>2. /\ jobs'[j].state = "dispatched"
            /\ jobs'[j].failure_code = rows[j].failure_code
        BY <3>2, <4>1 DEF DispatchedRow, GoodRow, Row
      <4>3. rows[j].failure_code = NoFailure
        BY <3>1, <3>2, <3>5 DEF GoodRow, ValidateStateFailureCode
      <4>4. jobs[j].state \in State \cup {"absent"}
        BY <1>0 DEF GoodRow, Row
      <4>5. jobs[j].state \notin Begun /\ jobs[j].state \notin Open /\ jobs[j].state \notin Outcome
        BY <3>1, <3>2, <3>5, <4>4 DEF Quiet, Begun, Terminal, Open, Outcome
      <4> QED BY <4>2, <4>3, <4>5 DEF Quiet
    <3> QED BY <3>4, <3>5
  <2> QED BY <2>1, <2>3, <2>4 DEF ClaimNextAgentJob
<1>6. CASE \E a \in Agents, i \in Jobs, n \in 1..MaxDispatchAttempts : StartAgentJob(a, i, n)
  <2>1. PICK i \in Jobs : /\ jobs[i].state = "dispatched"
                          /\ jobs' = [jobs EXCEPT ![i] = RunningRow(@)]
    BY <1>6 DEF StartAgentJob, MayStart
  <2>2. CASE i # j
    BY <1>0, <1>1, <2>1, <2>2
  <2>3. CASE i = j
    <3>1. jobs'[j] = RunningRow(jobs[j]) /\ jobs[j].state = "dispatched"
      BY <1>0, <2>1, <2>3
    <3>2. jobs[j].failure_code = NoFailure
      BY <1>0, <3>1 DEF GoodRow, ValidateStateFailureCode
    <3>3. jobs'[j].state = "running" /\ jobs'[j].failure_code = jobs[j].failure_code
      BY <1>0, <3>1 DEF RunningRow, GoodRow, Row
    <3> QED BY <3>1, <3>2, <3>3 DEF Quiet, Begun, Terminal, Open, Outcome
  <2> QED BY <2>2, <2>3
<1>7. CASE \E a \in Agents, i \in Jobs, n \in 1..MaxDispatchAttempts : CompleteTooLate(a, i, n)
  <2>1. PICK i \in Jobs : \E a \in Agents, n \in 1..MaxDispatchAttempts : CompleteTooLate(a, i, n)
    BY <1>7
  <2>2. {i} \in SUBSET ExpiredJobs /\ Reconcile({i})
    BY <2>1 DEF CompleteTooLate, MayComplete, ExpiredJobs, Expired, ExecutionExpired
  <2> QED BY <1>3, <2>2
<1>8. CASE \E i \in Jobs : GetJobByID(i)
  BY <1>3, <1>8 DEF GetJobByID
<1>9. CASE \E a \in Agents : ListAgentJobs(a)
  BY <1>3, <1>9 DEF ListAgentJobs, ExpiredJobsOf
<1>10. CASE ListJobs
  BY <1>3, <1>10 DEF ListJobs
<1>11. CASE Tick
  <2>1. jobs'[j] = ElapsedRow(jobs[j])
    BY <1>11 DEF Tick
  <2>2. jobs'[j].failure_code = jobs[j].failure_code
    BY <1>0, <2>1 DEF ElapsedRow, GoodRow, Row
  <2> QED BY SMTT(30), <1>0, <2>1, <2>2, ElapsedRowGood, SameIsQuiet
<1>12. CASE UNCHANGED vars
  BY <1>1, <1>12 DEF vars
<1> QED
  BY <1>4, <1>5, <1>6, <1>7, <1>8, <1>9, <1>10, <1>11, <1>12 DEF QuietNext

\* A completion is recorded for the job that was executed with that outcome.
Recorded(row, new, runs) ==
    \E outcome \in Outcome :
        /\ row.state = "running"
        /\ runs = <<outcome>>
        /\ new.agent = row.agent /\ new.attempt = row.attempt
        /\ new.state = outcome /\ new.failure_code = OutcomeCode(outcome)

TruthfulStep == \A j \in Jobs : \/ Quiet(jobs[j], jobs'[j])
                                \/ Recorded(jobs[j], jobs'[j], ran[j])

\* A recorded completion that is backed.
LEMMA CompletionRecorded ==
    ASSUME DispatchInv, TruthInv, NEW a \in Agents, NEW j \in Jobs, NEW n,
           NEW outcome \in Outcome, CompleteAgentJob(a, j, n, outcome), Backed(a, j, n, outcome)
    PROVE  TruthfulStep
<1>0. /\ jobs = [i \in Jobs |-> jobs[i]]
      /\ \A i \in Jobs : GoodRow(jobs[i])
      /\ \A i \in Jobs : jobs[i].state = "absent" => jobs[i].failure_code = NoFailure
  BY DEF DispatchInv, Inv, GoodTable, TruthInv, AbsentIsClean
<1>1. jobs[j].state = "running" /\ jobs' = [jobs EXCEPT ![j] = FinishedRow(jobs[j], outcome)]
  BY DEF CompleteAgentJob, MayComplete
<1>2. ASSUME NEW i \in Jobs, i # j PROVE Quiet(jobs[i], jobs'[i])
  <2>1. jobs'[i] = jobs[i]
    BY <1>0, <1>1, <1>2
  <2> QED BY <1>0, <2>1, SameIsQuiet
<1>3. Recorded(jobs[j], jobs'[j], ran[j])
  <2>1. jobs'[j] = FinishedRow(jobs[j], outcome)
    BY <1>0, <1>1
  <2>2. /\ jobs'[j].agent = jobs[j].agent /\ jobs'[j].attempt = jobs[j].attempt
        /\ jobs'[j].state = outcome
    BY <1>0, <1>1, <2>1, FinishedRowGood
  <2>3. jobs'[j].failure_code = OutcomeCode(outcome)
    BY <1>0, <2>1 DEF FinishedRow, GoodRow, Row
  <2> QED BY <1>1, <2>2, <2>3 DEF Recorded, Backed
<1> QED BY <1>2, <1>3 DEF TruthfulStep

LEMMA QuietIsTruthful ==
    ASSUME DispatchInv, TruthInv, [QuietNext]_vars
    PROVE  TruthfulStep
  BY QuietStep DEF TruthfulStep, DispatchInv, TruthInv

\* What such a step leaves true.
LEMMA HeldStays ==
    ASSUME TruthfulStep, UNCHANGED ran, NEW a, NEW j \in Jobs, NEW n, Held(a, j, n)
    PROVE  Held(a, j, n)'
<1>1. ~Recorded(jobs[j], jobs'[j], ran[j])
  BY SMTT(30) DEF Held, Recorded
<1>2. Quiet(jobs[j], jobs'[j])
  BY <1>1 DEF TruthfulStep
<1> QED BY <1>2 DEF Held, Quiet, Open, Begun, Terminal

LEMMA BackedStays ==
    ASSUME TruthfulStep, UNCHANGED ran, NEW a, NEW j \in Jobs, NEW n, NEW outcome \in Outcome,
           Backed(a, j, n, outcome)
    PROVE  Backed(a, j, n, outcome)'
<1>1. CASE Recorded(jobs[j], jobs'[j], ran[j])
  <2>1. PICK o \in Outcome :
          /\ ran[j] = <<o>>
          /\ jobs'[j].agent = jobs[j].agent /\ jobs'[j].attempt = jobs[j].attempt
          /\ jobs'[j].state = o /\ jobs'[j].failure_code = OutcomeCode(o)
    BY <1>1 DEF Recorded
  <2>2. ran[j] = <<outcome>>
    BY DEF Backed
  <2>3. o = outcome
    BY SMTT(30), <2>1, <2>2
  <2> QED BY <2>1, <2>3 DEF Backed, CompletedAs
<1>2. CASE Quiet(jobs[j], jobs'[j])
  <2>1. CASE jobs[j].state \in Open
    BY <1>2, <2>1 DEF Backed, Quiet, Open, Begun, Terminal
  <2>2. CASE CompletedAs(a, j, n, outcome)
    BY <1>2, <2>2 DEF Backed, CompletedAs, Quiet, Outcome, Begun, Terminal
  <2> QED BY <2>1, <2>2 DEF Backed
<1> QED BY <1>1, <1>2 DEF TruthfulStep

LEMMA RowsStayTrue ==
    ASSUME DispatchInv, TruthInv, TruthfulStep, UNCHANGED ran
    PROVE  RowTellsExecution' /\ AbsentIsClean'
<1> SUFFICES ASSUME NEW j \in Jobs
             PROVE  /\ jobs'[j].state \in {"absent", "queued", "dispatched"} => ran[j] = <<>>
                    /\ jobs'[j].failure_code = "dispatch_exhausted" => ran[j] = <<>>
                    /\ jobs'[j].state = "succeeded" => ran[j] = <<"succeeded">>
                    /\ jobs'[j].failure_code = "executor_error" => ran[j] = <<"failed">>
                    /\ jobs'[j].state = "absent" => jobs'[j].failure_code = NoFailure
  BY DEF RowTellsExecution, AbsentIsClean
<1>1. /\ jobs[j].state \in State \cup {"absent"}
      /\ jobs[j].state # "absent" => ValidateStateFailureCode(jobs[j].state, jobs[j].failure_code)
  BY DEF DispatchInv, Inv, GoodTable, GoodRow, Row
<1>2. /\ jobs[j].state \in {"absent", "queued", "dispatched"} => ran[j] = <<>>
      /\ jobs[j].failure_code = "dispatch_exhausted" => ran[j] = <<>>
      /\ jobs[j].state = "succeeded" => ran[j] = <<"succeeded">>
      /\ jobs[j].failure_code = "executor_error" => ran[j] = <<"failed">>
  BY DEF TruthInv, RowTellsExecution
<1>3. CASE Recorded(jobs[j], jobs'[j], ran[j])
  <2>1. PICK o \in Outcome :
          ran[j] = <<o>> /\ jobs'[j].state = o /\ jobs'[j].failure_code = OutcomeCode(o)
    BY <1>3 DEF Recorded
  <2>2. CASE o = "succeeded"
    BY <2>1, <2>2 DEF OutcomeCode, NoFailure
  <2>3. CASE o = "failed"
    BY <2>1, <2>3 DEF OutcomeCode, NoFailure
  <2> QED BY <2>2, <2>3 DEF Outcome
<1>4. CASE Quiet(jobs[j], jobs'[j])
  <2>1. CASE jobs[j].state \in Outcome
    BY <1>2, <1>4, <2>1 DEF Quiet, Outcome
  <2>2. CASE jobs[j].state \in Open
    BY <1>4, <2>2 DEF Quiet, Open
  <2>3. CASE jobs[j].state \notin Begun
    <3>1. ran[j] = <<>>
      BY <1>1, <1>2, <2>3 DEF Begun, Terminal, State
    <3>2. \/ /\ jobs'[j].state \in {"absent", "queued", "dispatched", "running"}
             /\ jobs'[j].failure_code = NoFailure
          \/ jobs'[j].state = "failed" /\ jobs'[j].failure_code = "dispatch_exhausted"
      BY <1>4, <2>3 DEF Quiet
    <3> QED BY <3>1, <3>2 DEF NoFailure
  <2> QED BY <2>1, <2>2, <2>3 DEF Outcome, Open, Begun, Terminal
<1> QED BY <1>3, <1>4 DEF TruthfulStep

\* An agent that does not move keeps its reports.
LEMMA ReportsStay ==
    ASSUME DispatchInv, TruthInv, TruthfulStep, UNCHANGED ran, NEW a \in Agents,
           UNCHANGED <<pc, assignment, pending>>, call'[a] = call[a]
    PROVE  GoodReports(a, pc[a], assignment[a], pending[a], call[a])'
<1>1. /\ GoodAgent(a, pc[a], assignment[a], pending[a], call[a])
      /\ GoodReports(a, pc[a], assignment[a], pending[a], call[a])
  BY DEF DispatchInv, TruthInv
<1>2. ASSUME pc[a] \in Waiting, call[a].type = "complete"
      PROVE  Backed(a, call[a].job, call[a].attempt, call[a].outcome)'
  <2>1. call[a].job \in Jobs /\ call[a].outcome \in Outcome
    BY <1>1, <1>2 DEF GoodAgent, GoodRequest
  <2>2. Backed(a, call[a].job, call[a].attempt, call[a].outcome)
    BY <1>1, <1>2 DEF GoodReports
  <2> QED BY <2>1, <2>2, BackedStays
<1>3. ASSUME pending[a] # None
      PROVE  Backed(a, pending[a].job, pending[a].attempt, pending[a].outcome)'
  <2>1. pending[a].job \in Jobs /\ pending[a].outcome \in Outcome
    BY <1>1, <1>3 DEF GoodAgent, ReportRow
  <2>2. Backed(a, pending[a].job, pending[a].attempt, pending[a].outcome)
    BY <1>1, <1>3 DEF GoodReports
  <2> QED BY <2>1, <2>2, BackedStays
<1>4. ASSUME Held(a, assignment[a].job, assignment[a].attempt), assignment[a] \in AssignmentRow
      PROVE  Held(a, assignment[a].job, assignment[a].attempt)'
  BY <1>4, HeldStays DEF AssignmentRow
<1>5. pc[a] \in {"start", "execute"} => assignment[a] \in AssignmentRow
  BY <1>1 DEF GoodAgent
<1> QED BY <1>1, <1>2, <1>3, <1>4, <1>5 DEF GoodReports

LEMMA LateStays ==
    ASSUME DispatchInv, TruthInv, TruthfulStep, UNCHANGED ran, NEW r \in late,
           r.type = "complete"
    PROVE  Backed(r.agent, r.job, r.attempt, r.outcome)'
<1>1. r.job \in Jobs /\ r.outcome \in Outcome
  BY DEF DispatchInv, GoodRequest
<1>2. Backed(r.agent, r.job, r.attempt, r.outcome)
  BY DEF TruthInv
<1> QED BY <1>1, <1>2, BackedStays

\* A handler records only what the request it handles reports.
LEMMA HandleIsTruthful ==
    ASSUME DispatchInv, TruthInv, NEW r, GoodRequest(r), NEW s, Handle(r, s),
           r.type = "complete" => Backed(r.agent, r.job, r.attempt, r.outcome)
    PROVE  TruthfulStep
<1>0. r.agent \in Agents
  BY DEF GoodRequest, Requests
<1>1. CASE HandleHeartbeat(r, s)
  BY <1>1, QuietIsTruthful DEF HandleHeartbeat
<1>2. CASE HandleClaim(r, s)
  <2>1. [QuietNext]_vars
    BY <1>0, <1>2 DEF HandleClaim, ClaimNextAgentJob, QuietNext
  <2> QED BY <2>1, QuietIsTruthful
<1>3. CASE HandleStart(r, s)
  <2>1. [QuietNext]_vars
    BY <1>0, <1>3 DEF HandleStart, GoodRequest, Attempts, QuietNext
  <2> QED BY <2>1, QuietIsTruthful
<1>4. CASE HandleComplete(r, s)
  <2>0. r.type = "complete" /\ r.job \in Jobs /\ r.attempt \in Attempts /\ r.outcome \in Outcome
    BY <1>4 DEF HandleComplete, GoodRequest
  <2>1. CASE CompleteAgentJob(r.agent, r.job, r.attempt, r.outcome)
    BY <1>0, <2>0, <2>1, CompletionRecorded
  <2>2. CASE CompleteTooLate(r.agent, r.job, r.attempt)
    <3>1. [QuietNext]_vars
      BY <1>0, <2>0, <2>2 DEF Attempts, QuietNext
    <3> QED BY <3>1, QuietIsTruthful
  <2>3. CASE UNCHANGED vars
    BY <2>3, QuietIsTruthful
  <2> QED BY <1>4, <2>1, <2>2, <2>3 DEF HandleComplete
<1> QED BY <1>1, <1>2, <1>3, <1>4 DEF Handle

LEMMA ServeTruth ==
    ASSUME DispatchInv, TruthInv, NEW a \in Agents, Serve(a)
    PROVE  TruthInv'
<1>1. /\ GoodAgent(a, pc[a], assignment[a], pending[a], call[a]) /\ call[a] # None
      /\ GoodReports(a, pc[a], assignment[a], pending[a], call[a])
  BY DEF DispatchInv, TruthInv, Serve
<1>2. GoodRequest(call[a]) /\ call[a].agent = a /\ pc[a] \in Waiting
  BY <1>1 DEF GoodAgent
<1>3. PICK s \in Handled(call[a]) : Handle(call[a], s) /\ call' = [call EXCEPT ![a] = s]
  BY DEF Serve
<1>4. UNCHANGED <<pc, assignment, pending, late, ran>>
  BY DEF Serve
<1>5. TruthfulStep
  BY <1>1, <1>2, <1>3, HandleIsTruthful DEF GoodReports
<1>6. /\ s.type = call[a].type /\ s.job = call[a].job /\ s.attempt = call[a].attempt
      /\ s.outcome = call[a].outcome
  BY <1>2, <1>3, HandledGood
<1>7. \A b \in Agents : call'[b] = IF b = a THEN s ELSE call[b]
  BY <1>3 DEF DispatchInv, AgentTables
<1>8. ASSUME NEW b \in Agents
      PROVE  GoodReports(b, pc[b], assignment[b], pending[b], call[b])'
  <2>1. CASE b # a
    BY <1>4, <1>5, <1>7, <2>1, ReportsStay
  <2>2. CASE b = a
    <3>1. ASSUME call[a].type = "complete"
          PROVE  Backed(a, s.job, s.attempt, s.outcome)'
      <4>1. call[a].job \in Jobs /\ call[a].outcome \in Outcome
        BY <1>2, <3>1 DEF GoodRequest
      <4>2. Backed(a, call[a].job, call[a].attempt, call[a].outcome)
        BY <1>1, <1>2, <3>1 DEF GoodReports
      <4>3. Backed(a, s.job, s.attempt, s.outcome)
        BY <1>6, <4>2
      <4> QED BY <1>4, <1>5, <1>6, <4>1, <4>3, BackedStays
    <3>2. ASSUME pending[a] # None
          PROVE  Backed(a, pending[a].job, pending[a].attempt, pending[a].outcome)'
      <4>1. pending[a].job \in Jobs /\ pending[a].outcome \in Outcome
        BY <1>1, <3>2 DEF GoodAgent, ReportRow
      <4>2. Backed(a, pending[a].job, pending[a].attempt, pending[a].outcome)
        BY <1>1, <3>2 DEF GoodReports
      <4> QED BY <1>4, <1>5, <4>1, <4>2, BackedStays
    <3>3. ASSUME pc[a] = "start", s.phase = "replied", s.reply = Done
          PROVE  Held(a, assignment[a].job, assignment[a].attempt)'
      <4> DEFINE j == assignment[a].job
                 n == assignment[a].attempt
      <4>1. call[a].type = "start" /\ call[a].job = j /\ call[a].attempt = n /\ j \in Jobs
        BY <1>1, <3>3 DEF GoodAgent, GoodReports, AssignmentRow
      <4>2. StartAgentJob(a, j, n)
        BY <1>2, <1>3, <3>3, <4>1, GrantIsStart
      <4>3. UNCHANGED assignment
        BY <1>4
      <4> HIDE DEF j, n
      <4>4. /\ jobs[j].state = "dispatched" /\ jobs[j].agent = a /\ jobs[j].attempt = n
            /\ jobs'[j] = RunningRow(jobs[j])
        BY <4>1, <4>2 DEF StartAgentJob, MayStart, DispatchInv, Inv, GoodTable
      <4>5. jobs'[j].state = "running" /\ jobs'[j].agent = a /\ jobs'[j].attempt = n
        BY SMTT(30), <4>1, <4>4, RunningRowGood DEF DispatchInv, Inv, GoodTable
      <4>6. ran'[j] = <<>>
        BY <1>4, <4>1, <4>4 DEF TruthInv, RowTellsExecution
      <4> QED BY <4>3, <4>5, <4>6 DEF Held, Open, j, n
    <3>4. call'[a] = s /\ pc[a] # "execute"
      BY <1>2, <1>7 DEF Waiting
    <3>5. pc[a] = "start" => s.attempt = assignment[a].attempt
      BY <1>1, <1>6 DEF GoodReports
    <3>6. pc[a] = "complete" => s.job = assignment[a].job /\ s.attempt = assignment[a].attempt
      BY <1>1, <1>6 DEF GoodReports
    <3> QED BY <1>4, <1>6, <2>2, <3>1, <3>2, <3>3, <3>4, <3>5, <3>6 DEF GoodReports
  <2> QED BY <2>1, <2>2
<1>9. \A r \in late' : r.type = "complete" => Backed(r.agent, r.job, r.attempt, r.outcome)'
  BY <1>4, <1>5, LateStays
<1> QED BY <1>4, <1>5, <1>8, <1>9, RowsStayTrue DEF TruthInv

LEMMA ServeLateTruth ==
    ASSUME DispatchInv, TruthInv, NEW r \in late, ServeLate(r)
    PROVE  TruthInv'
<1>1. GoodRequest(r) /\ (r.type = "complete" => Backed(r.agent, r.job, r.attempt, r.outcome))
  BY DEF DispatchInv, TruthInv
<1>2. PICK s \in Handled(r) :
        Handle(r, s) /\ late' = (late \ {r}) \cup {t \in {s} : t.phase # "replied"}
  BY DEF ServeLate
<1>3. UNCHANGED <<pc, assignment, pending, call, ran>>
  BY DEF ServeLate
<1>4. TruthfulStep
  BY <1>1, <1>2, HandleIsTruthful
<1>5. \A a \in Agents : GoodReports(a, pc[a], assignment[a], pending[a], call[a])'
  BY <1>3, <1>4, ReportsStay
<1>6. /\ s.type = r.type /\ s.agent = r.agent /\ s.job = r.job
      /\ s.attempt = r.attempt /\ s.outcome = r.outcome
  BY <1>1, <1>2, HandledGood
<1>7. ASSUME NEW t \in late', t.type = "complete"
      PROVE  Backed(t.agent, t.job, t.attempt, t.outcome)'
  <2>1. PICK q \in late : /\ q.type = t.type /\ q.agent = t.agent /\ q.job = t.job
                          /\ q.attempt = t.attempt /\ q.outcome = t.outcome
    BY <1>2, <1>6
  <2>2. q.job \in Jobs /\ q.outcome \in Outcome
    BY <1>7, <2>1 DEF DispatchInv, GoodRequest
  <2>3. Backed(q.agent, q.job, q.attempt, q.outcome)
    BY <1>7, <2>1 DEF TruthInv
  <2> QED BY <1>3, <1>4, <2>1, <2>2, <2>3, BackedStays
<1> QED BY <1>3, <1>4, <1>5, <1>7, RowsStayTrue DEF TruthInv

LEMMA EnvironmentTruth ==
    ASSUME DispatchInv, TruthInv, Environment
    PROVE  TruthInv'
<1>1. UNCHANGED <<pc, assignment, pending, call, late, ran>>
  BY DEF Environment, agentVars
<1>2. [QuietNext]_vars
  BY DEF Environment, QuietNext
<1>3. TruthfulStep
  BY <1>2, QuietIsTruthful
<1>4. \A a \in Agents : GoodReports(a, pc[a], assignment[a], pending[a], call[a])'
  BY <1>1, <1>3, ReportsStay
<1>5. \A r \in late' : r.type = "complete" => Backed(r.agent, r.job, r.attempt, r.outcome)'
  BY <1>1, <1>3, LateStays
<1> QED BY <1>1, <1>3, <1>4, <1>5, RowsStayTrue DEF TruthInv

\* A request an agent gives up on is backed like the others.
LEMMA AbandonBacked ==
    ASSUME DispatchInv, TruthInv, NEW a \in Agents, Abandon(a)
    PROVE  \A r \in late' : r.type = "complete" => Backed(r.agent, r.job, r.attempt, r.outcome)
<1>1. /\ GoodAgent(a, pc[a], assignment[a], pending[a], call[a])
      /\ GoodReports(a, pc[a], assignment[a], pending[a], call[a])
  BY DEF DispatchInv, TruthInv
<1>2. ASSUME call[a] # None, call[a].type = "complete"
      PROVE  Backed(call[a].agent, call[a].job, call[a].attempt, call[a].outcome)
  BY <1>1, <1>2 DEF GoodAgent, GoodReports
<1> QED BY <1>2 DEF Abandon, TruthInv

\* An agent goes on while the tables and the executions stay as they are.
LEMMA AgentMovesTruth ==
    ASSUME DispatchInv, TruthInv, NEW a \in Agents, NEW l, NEW asg, NEW pend, NEW req,
           Go(a, l, asg, pend, req), GoodReports(a, l, asg, pend, req),
           UNCHANGED vars, UNCHANGED ran,
           \A r \in late' : r.type = "complete" => Backed(r.agent, r.job, r.attempt, r.outcome)
    PROVE  TruthInv'
<1>1. UNCHANGED <<jobs, ran>>
  BY DEF vars
<1>2. \A b \in Agents :
        /\ pc'[b] = IF b = a THEN l ELSE pc[b]
        /\ assignment'[b] = IF b = a THEN asg ELSE assignment[b]
        /\ pending'[b] = IF b = a THEN pend ELSE pending[b]
        /\ call'[b] = IF b = a THEN req ELSE call[b]
  BY DEF Go, DispatchInv, AgentTables
<1>3. ASSUME NEW b \in Agents
      PROVE  GoodReports(b, pc'[b], assignment'[b], pending'[b], call'[b])
  BY <1>2 DEF TruthInv
<1>4. ASSUME NEW b, NEW m, NEW x, NEW y, NEW z, GoodReports(b, m, x, y, z)
      PROVE  GoodReports(b, m, x, y, z)'
  BY <1>1, <1>4 DEF GoodReports, Backed, Held, CompletedAs
<1>5. \A b \in Agents : GoodReports(b, pc[b], assignment[b], pending[b], call[b])'
  BY <1>3, <1>4
<1>6. RowTellsExecution' /\ AbsentIsClean'
  BY <1>1 DEF TruthInv, RowTellsExecution, AbsentIsClean
<1>7. \A r \in late' : r.type = "complete" => Backed(r.agent, r.job, r.attempt, r.outcome)'
  BY <1>1 DEF Backed, CompletedAs
<1> QED BY <1>5, <1>6, <1>7 DEF TruthInv

\* The execution turns what was held into a backed report.
LEMMA ExecuteTruth ==
    ASSUME DispatchInv, TruthInv, NEW a \in Agents, Execute(a)
    PROVE  TruthInv'
<1> DEFINE j == assignment[a].job
           n == assignment[a].attempt
<1>1. PICK outcome \in Outcome :
        /\ ran' = [ran EXCEPT ![j] = Append(@, outcome)]
        /\ Go(a, "complete", assignment[a], None,
              JobCompleteRequest(a, Report(assignment[a], outcome)))
  BY DEF Execute
<1>2. UNCHANGED <<jobs, events, audit, late>> /\ pc[a] = "execute"
  BY DEF Execute, vars
<1>3. assignment[a] \in AssignmentRow /\ j \in Jobs /\ Held(a, j, n)
  BY <1>2 DEF DispatchInv, TruthInv, GoodAgent, GoodReports, AssignmentRow
<1> DEFINE req == JobCompleteRequest(a, Report(assignment[a], outcome))
<1>4. req.job = j /\ req.attempt = n /\ req.outcome = outcome /\ req.type = "complete"
  BY DEF JobCompleteRequest, Request, Report
<1>5. \A b \in Agents :
        /\ pc'[b] = IF b = a THEN "complete" ELSE pc[b]
        /\ assignment'[b] = assignment[b]
        /\ pending'[b] = IF b = a THEN None ELSE pending[b]
        /\ call'[b] = IF b = a THEN req ELSE call[b]
  BY <1>1 DEF Go, DispatchInv, AgentTables
<1>6. j' = j /\ n' = n /\ assignment'[a].job = j /\ assignment'[a].attempt = n
  BY <1>5
<1> HIDE DEF req, j, n
<1>7. \A i \in Jobs : ran'[i] = IF i = j THEN <<outcome>> ELSE ran[i]
  <2>1. ran = [i \in Jobs |-> ran[i]]
    BY DEF DispatchInv, GoodRuns
  <2>2. Append(ran[j], outcome) = <<outcome>>
    <3>1. ran[j] = <<>>
      BY <1>3 DEF Held
    <3> QED BY SMTT(30), <3>1
  <2>3. ran' = [ran EXCEPT ![j] = Append(ran[j], outcome)]
    BY <1>1
  <2> QED BY <2>1, <2>2, <2>3
<1>8. Backed(a, j, n, outcome)'
  BY <1>2, <1>3, <1>6, <1>7 DEF Held, Backed
<1>9. ASSUME NEW b, NEW i \in Jobs, NEW m, NEW o, Backed(b, i, m, o)
      PROVE  Backed(b, i, m, o)'
  <2>0. <<o>> # <<>>
    OBVIOUS
  <2>1. i # j
    BY <1>3, <1>9, <2>0 DEF Held, Backed
  <2> QED BY <1>2, <1>7, <1>9, <2>1 DEF Backed, CompletedAs
<1>10. ASSUME NEW b \in Agents, b # a, NEW i \in Jobs, NEW m, Held(b, i, m)
       PROVE  Held(b, i, m)'
  <2>1. i # j
    BY <1>3, <1>10 DEF Held
  <2> QED BY <1>2, <1>7, <1>10, <2>1 DEF Held
<1>11. ASSUME NEW b \in Agents
       PROVE  GoodReports(b, pc[b], assignment[b], pending[b], call[b])'
  <2>1. CASE b = a
    BY <1>4, <1>5, <1>6, <1>8, <2>1 DEF GoodReports
  <2>2. CASE b # a
    <3>1. /\ GoodAgent(b, pc[b], assignment[b], pending[b], call[b])
          /\ GoodReports(b, pc[b], assignment[b], pending[b], call[b])
      BY DEF DispatchInv, TruthInv
    <3>2. pc'[b] = pc[b] /\ assignment'[b] = assignment[b] /\ pending'[b] = pending[b]
          /\ call'[b] = call[b]
      BY <1>5, <2>2
    <3>3. ASSUME pc[b] \in Waiting, call[b].type = "complete"
          PROVE  Backed(b, call[b].job, call[b].attempt, call[b].outcome)'
      <4>1. call[b].job \in Jobs
        BY <3>1, <3>3 DEF GoodAgent, GoodRequest
      <4> QED BY <1>9, <3>1, <3>2, <3>3, <4>1 DEF GoodReports
    <3>4. ASSUME pending[b] # None
          PROVE  Backed(b, pending[b].job, pending[b].attempt, pending[b].outcome)'
      <4>1. pending[b].job \in Jobs
        BY <3>1, <3>4 DEF GoodAgent, ReportRow
      <4> QED BY <1>9, <3>1, <3>2, <3>4, <4>1 DEF GoodReports
    <3>5. ASSUME Held(b, assignment[b].job, assignment[b].attempt),
                 assignment[b] \in AssignmentRow
          PROVE  Held(b, assignment[b].job, assignment[b].attempt)'
      BY <1>10, <2>2, <3>2, <3>5 DEF AssignmentRow
    <3>6. pc[b] \in {"start", "execute"} => assignment[b] \in AssignmentRow
      BY <3>1 DEF GoodAgent
    <3> QED BY <3>1, <3>2, <3>3, <3>4, <3>5, <3>6 DEF GoodReports
  <2> QED BY <2>1, <2>2
<1>12. ASSUME NEW r \in late', r.type = "complete"
       PROVE  Backed(r.agent, r.job, r.attempt, r.outcome)'
  <2>1. r \in late /\ r.job \in Jobs
    BY <1>2, <1>12 DEF DispatchInv, GoodRequest
  <2> QED BY <1>9, <1>12, <2>1 DEF TruthInv
<1>13. RowTellsExecution'
  <2> SUFFICES ASSUME NEW i \in Jobs
               PROVE  /\ jobs[i].state \in {"absent", "queued", "dispatched"} => ran'[i] = <<>>
                      /\ jobs[i].failure_code = "dispatch_exhausted" => ran'[i] = <<>>
                      /\ jobs[i].state = "succeeded" => ran'[i] = <<"succeeded">>
                      /\ jobs[i].failure_code = "executor_error" => ran'[i] = <<"failed">>
    BY <1>2 DEF RowTellsExecution
  <2>1. CASE i # j
    BY <1>7, <2>1 DEF TruthInv, RowTellsExecution
  <2>2. CASE i = j
    <3>1. jobs[i].state \in Open /\ GoodRow(jobs[i])
      BY <1>3, <2>2 DEF Held, DispatchInv, Inv, GoodTable
    <3>2. ValidateStateFailureCode(jobs[i].state, jobs[i].failure_code)
      BY <3>1 DEF GoodRow, Open
    <3> QED BY <3>1, <3>2 DEF ValidateStateFailureCode, NoFailure, Open
  <2> QED BY <2>1, <2>2
<1>14. AbsentIsClean'
  BY <1>2 DEF TruthInv, AbsentIsClean
<1> QED BY <1>11, <1>12, <1>13, <1>14 DEF TruthInv

LEMMA GoStartTruth ==
    ASSUME DispatchInv, TruthInv, NEW a \in Agents, NEW asg, GoStart(a, asg),
           UNCHANGED <<vars, late, ran>>
    PROVE  TruthInv'
<1>1. \A r \in late' : r.type = "complete" => Backed(r.agent, r.job, r.attempt, r.outcome)
  BY DEF TruthInv
<1>2. CASE asg = None
  <2>1. Go(a, "idle", None, None, None)
    BY <1>2 DEF GoStart
  <2>2. GoodReports(a, "idle", None, None, None)
    BY DEF GoodReports, Waiting
  <2> QED BY <1>1, <2>1, <2>2, AgentMovesTruth
<1>3. CASE asg # None
  <2>1. Go(a, "start", asg, None, JobStartRequest(a, asg))
    BY <1>3 DEF GoStart
  <2>2. /\ JobStartRequest(a, asg).type = "start"
        /\ JobStartRequest(a, asg).attempt = asg.attempt
        /\ JobStartRequest(a, asg).phase = "sent"
    BY DEF JobStartRequest, Request
  <2>3. GoodReports(a, "start", asg, None, JobStartRequest(a, asg))
    BY <2>2 DEF GoodReports
  <2> QED BY <1>1, <2>1, <2>3, AgentMovesTruth
<1> QED BY <1>2, <1>3

LEMMA AgentTruth ==
    ASSUME DispatchInv, TruthInv, NEW a \in Agents, Agent(a)
    PROVE  TruthInv'
<1>0. /\ GoodAgent(a, pc[a], assignment[a], pending[a], call[a])
      /\ GoodReports(a, pc[a], assignment[a], pending[a], call[a])
      /\ \A r \in late : r.type = "complete" => Backed(r.agent, r.job, r.attempt, r.outcome)
  BY DEF DispatchInv, TruthInv
<1>1. \A l \in Place \ (Waiting \cup {"execute"}) :
        /\ GoodReports(a, l, None, None, None)
        /\ GoodReports(a, l, None, pending[a], None)
  BY <1>0 DEF GoodReports, Place, Waiting
<1>2. CASE SendHeartbeat(a)
  <2>1. HeartbeatRequest(a).type = "heartbeat"
    BY DEF HeartbeatRequest, Request
  <2>2. GoodReports(a, "heartbeat", None, pending[a], HeartbeatRequest(a))
    BY <1>0, <2>1 DEF GoodReports
  <2> QED BY <1>0, <1>2, <2>2, AgentMovesTruth DEF SendHeartbeat
<1>3. CASE HeartbeatReturns(a)
  <2> DEFINE asg == call[a].reply.assignment
  <2>1. UNCHANGED <<vars, late, ran>>
    BY <1>3 DEF HeartbeatReturns
  <2>2. CASE pending[a] # None
    <3>1. Go(a, "retry", asg, pending[a], JobCompleteRequest(a, pending[a]))
      BY <1>3, <2>2 DEF HeartbeatReturns
    <3> HIDE DEF asg
    <3>2. /\ JobCompleteRequest(a, pending[a]).job = pending[a].job
          /\ JobCompleteRequest(a, pending[a]).attempt = pending[a].attempt
          /\ JobCompleteRequest(a, pending[a]).outcome = pending[a].outcome
      BY DEF JobCompleteRequest, Request
    <3>3. GoodReports(a, "retry", asg, pending[a], JobCompleteRequest(a, pending[a]))
      BY <1>0, <2>2, <3>2 DEF GoodReports
    <3> QED BY <1>0, <2>1, <3>1, <3>3, AgentMovesTruth
  <2>3. CASE pending[a] = None
    <3>1. GoStart(a, asg)
      BY <1>3, <2>3 DEF HeartbeatReturns
    <3> QED BY <2>1, <3>1, GoStartTruth
  <2> QED BY <2>2, <2>3
<1>4. CASE HeartbeatFails(a) \/ RetryFails(a)
  <2>1. GoodReports(a, "idle", None, pending[a], None)
    BY <1>1 DEF Place, Waiting
  <2>2. \A r \in late' : r.type = "complete" => Backed(r.agent, r.job, r.attempt, r.outcome)
    BY <1>4, AbandonBacked DEF HeartbeatFails, RetryFails
  <2> QED BY <1>4, <2>1, <2>2, AgentMovesTruth DEF HeartbeatFails, RetryFails
<1>5. CASE HeartbeatBodyFails(a)
  BY <1>0, <1>1, <1>5, AgentMovesTruth DEF HeartbeatBodyFails, Place, Waiting
<1>6. CASE RetryReturns(a)
  BY <1>6, GoStartTruth DEF RetryReturns
<1>7. CASE StartReturns(a)
  <2>1. CASE call[a].reply = Done
    <3>1. GoodReports(a, "execute", assignment[a], None, None)
      BY <1>0, <1>7, <2>1 DEF StartReturns, Answered, GoodReports, Waiting
    <3> QED BY <1>0, <1>7, <2>1, <3>1, AgentMovesTruth DEF StartReturns
  <2>2. CASE call[a].reply # Done
    BY <1>0, <1>1, <1>7, <2>2, AgentMovesTruth DEF StartReturns, Place, Waiting
  <2> QED BY <2>1, <2>2
<1>8. CASE StartFails(a)
  <2>1. \A r \in late' : r.type = "complete" => Backed(r.agent, r.job, r.attempt, r.outcome)
    BY <1>8, AbandonBacked DEF StartFails
  <2> QED BY <1>1, <1>8, <2>1, AgentMovesTruth DEF StartFails, Place, Waiting
<1>9. CASE Execute(a)
  BY <1>9, ExecuteTruth
<1>10. CASE CompleteReturns(a) \/ Restart(a)
  BY <1>0, <1>1, <1>10, AgentMovesTruth DEF CompleteReturns, Restart, Place, Waiting
<1>11. CASE CompleteFails(a)
  <2> DEFINE rep == Report(assignment[a], call[a].outcome)
  <2>1. Backed(a, rep.job, rep.attempt, rep.outcome)
    BY <1>0, <1>11 DEF CompleteFails, GoodAgent, GoodReports, Waiting, Report
  <2>2. Go(a, "idle", None, rep, None) /\ UNCHANGED vars /\ UNCHANGED ran
    BY <1>11 DEF CompleteFails
  <2> HIDE DEF rep
  <2>3. GoodReports(a, "idle", None, rep, None)
    BY <2>1 DEF GoodReports, Waiting
  <2>4. \A r \in late' : r.type = "complete" => Backed(r.agent, r.job, r.attempt, r.outcome)
    BY <1>11, AbandonBacked DEF CompleteFails
  <2> QED BY <2>2, <2>3, <2>4, AgentMovesTruth
<1>12. CASE Crash(a)
  <2>1. \A r \in late' : r.type = "complete" => Backed(r.agent, r.job, r.attempt, r.outcome)
    BY <1>12, AbandonBacked DEF Crash
  <2> QED BY <1>1, <1>12, <2>1, AgentMovesTruth DEF Crash, Place, Waiting
<1> QED
  BY <1>2, <1>3, <1>4, <1>5, <1>6, <1>7, <1>8, <1>9, <1>10, <1>11, <1>12 DEF Agent

LEMMA TruthInvInit == DispatchInit => TruthInv
<1> SUFFICES ASSUME DispatchInit PROVE TruthInv
  OBVIOUS
<1>1. \A j \in Jobs : jobs[j] = NoRow /\ ran[j] = <<>>
  BY DEF DispatchInit, Init
<1>2. NoRow.state = "absent" /\ NoRow.failure_code = NoFailure
  BY DEF NoRow
<1>3. RowTellsExecution /\ AbsentIsClean
  BY <1>1, <1>2 DEF RowTellsExecution, AbsentIsClean, NoFailure
<1>4. \A a \in Agents : GoodReports(a, pc[a], assignment[a], pending[a], call[a])
  BY DEF DispatchInit, GoodReports, Waiting
<1> QED BY <1>3, <1>4 DEF TruthInv, DispatchInit

LEMMA TruthInvNext == DispatchInv /\ TruthInv /\ [DispatchNext]_allVars => TruthInv'
<1> SUFFICES ASSUME DispatchInv, TruthInv, [DispatchNext]_allVars PROVE TruthInv'
  OBVIOUS
<1>1. CASE \E a \in Agents : Serve(a)
  BY <1>1, ServeTruth
<1>2. CASE \E a \in Agents : Agent(a)
  BY <1>2, AgentTruth
<1>3. CASE \E r \in late : ServeLate(r)
  BY <1>3, ServeLateTruth
<1>4. CASE Environment
  BY <1>4, EnvironmentTruth
<1>5. CASE UNCHANGED allVars
  BY <1>5 DEF allVars, agentVars, vars, TruthInv, RowTellsExecution, AbsentIsClean,
              GoodReports, Backed, Held, CompletedAs
<1> QED BY <1>1, <1>2, <1>3, <1>4, <1>5 DEF DispatchNext

LEMMA TruthInvariance == DispatchSpec => []TruthInv
  BY TruthInvInit, TruthInvNext, DispatchInvariance, PTL DEF DispatchSpec

\* The state and the failure code that the handlers and the reconciliation write
\* tell the operator what the agent did: succeeded and executor_error are the
\* outcomes of an execution, and a job that is queued, dispatched or failed with
\* dispatch_exhausted was never executed, whatever was lost, late or repeated.
THEOREM RowAlwaysTellsExecution == DispatchSpec => []RowTellsExecution
<1>1. TruthInv => RowTellsExecution
  BY DEF TruthInv
<1> QED BY <1>1, TruthInvariance, PTL

\* What the daemon executes, reports or still has to report is its own job, in the
\* attempt the controller assigned and without another outcome on record: only the
\* execution deadline of StartAgentJob can make a report come to nothing.
THEOREM ReportsAlwaysStand == DispatchSpec => []ReportsStand
<1>1. DispatchInv /\ TruthInv => ReportsStand
  <2> SUFFICES ASSUME DispatchInv, TruthInv, NEW a \in Agents
               PROVE  /\ pending[a] # None => ReportStands(a, pending[a])
                      /\ pc[a] = "complete" =>
                            ReportStands(a, Report(assignment[a], call[a].outcome))
                      /\ pc[a] = "execute" =>
                            /\ jobs[assignment[a].job].agent = a
                            /\ jobs[assignment[a].job].attempt = assignment[a].attempt
                            /\ jobs[assignment[a].job].state \in {"running", "unknown"}
    BY DEF ReportsStand
  <2>1. /\ GoodAgent(a, pc[a], assignment[a], pending[a], call[a])
        /\ GoodReports(a, pc[a], assignment[a], pending[a], call[a])
    BY DEF DispatchInv, TruthInv
  <2>2. pending[a] # None => ReportStands(a, pending[a])
    BY <2>1 DEF GoodReports, Backed, ReportStands, Open
  <2>3. ASSUME pc[a] = "complete"
        PROVE  ReportStands(a, Report(assignment[a], call[a].outcome))
    <3>1. Backed(a, assignment[a].job, assignment[a].attempt, call[a].outcome)
      BY <2>1, <2>3 DEF GoodAgent, GoodReports, Waiting
    <3>2. /\ Report(assignment[a], call[a].outcome).job = assignment[a].job
          /\ Report(assignment[a], call[a].outcome).attempt = assignment[a].attempt
          /\ Report(assignment[a], call[a].outcome).outcome = call[a].outcome
      BY DEF Report
    <3> QED BY <3>1, <3>2 DEF Backed, ReportStands, Open
  <2>4. pc[a] = "execute" => Held(a, assignment[a].job, assignment[a].attempt)
    BY <2>1 DEF GoodReports
  <2> QED BY <2>2, <2>3, <2>4 DEF Held, Open
<1> QED BY <1>1, DispatchInvariance, TruthInvariance, PTL

-----------------------------------------------------------------------------
(* The history tells the row *)

\* A property of the store alone, from the lemmas at the end of JobStoreProofs.  It
\* comes last because it is where the theorems about finite sets come in.
LOCAL INSTANCE FiniteSetTheorems

LEMMA LibraryFiniteIs == \A S : IsFiniteSet(S) <=> FiniteOf(S)
  BY DEF IsFiniteSet, FiniteOf

LEMMA LibraryCountIs == \A S : Cardinality(S) = CountOf(S)
  BY DEF Cardinality, CountOf

LEMMA Counts == AddCounts /\ EmptyCounts
<1>1. AddCounts
  BY FiniteIs, CountIs, LibraryFiniteIs, LibraryCountIs, FS_AddElement DEF AddCounts
<1>2. EmptyCounts
  BY FiniteIs, CountIs, LibraryFiniteIs, LibraryCountIs, FS_EmptySet DEF EmptyCounts
<1> QED BY <1>1, <1>2

\* The last event of a job is the one of its row, with the attempt and the failure
\* code, there is a dispatch event for every attempt, and a job that exists was
\* audited: no transaction of jobs.go changes a row without the matching event.
THEOREM HistoryAlwaysTellsRow == Spec => []HistoryTellsRow
<1>1. Init => TellInv
  BY Counts, TellInit
<1>2. Inv /\ TellInv /\ [Next]_vars => TellInv'
  BY Counts, TellNext
<1> QED BY <1>1, <1>2, TellInvTells, Invariance, PTL DEF Spec

=============================================================================
