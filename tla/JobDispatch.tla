---------------------------- MODULE JobDispatch -----------------------------
(***************************************************************************)
(* The execution protocol: the job tables of the controller (JobStore),    *)
(* the agent daemons (the loop of internal/agent/presence.go) and the HTTP *)
(* calls between them (the handlers of internal/controller/controller.go). *)
(*                                                                         *)
(* An agent has one call open at a time.  The controller may handle it and *)
(* answer; the answer may be lost; or the agent gives up on the call (its  *)
(* timeout, a broken connection, a 429 or 5xx answer) while the request is *)
(* still on its way, and then the controller may handle it at any later    *)
(* time with nobody waiting for the answer.  Agents crash and restart, and *)
(* keep nothing about jobs on disk.                                        *)
(***************************************************************************)
EXTENDS JobStore

CONSTANT MaxLate   \* bound: abandoned requests the network still delivers

ASSUME MaxLateAssumption == MaxLate \in Nat

VARIABLES
    pc,          \* where the loop of an agent is
    assignment,  \* the job the last heartbeat brought, or None
    pending,     \* pendingCompletion: an outcome the agent must still report
    call,        \* the request the agent waits on, or None
    late,        \* requests the agent gave up on and the controller may still get
    ran          \* history: the outcomes of the executions of each job

agentVars == <<pc, assignment, pending, call, late, ran>>
allVars == <<vars, agentVars>>

Assignment(j, n) == [job |-> j, attempt |-> n]

\* What an agent reports: the outcome of an execution of an assignment.
Report(asg, outcome) == [job |-> asg.job, attempt |-> asg.attempt, outcome |-> outcome]

Request(type, a, job, n, outcome) ==
    [type |-> type, agent |-> a, job |-> job, attempt |-> n, outcome |-> outcome,
     phase |-> "sent", reply |-> None]

HeartbeatRequest(a) == Request("heartbeat", a, None, None, None)
JobStartRequest(a, asg) == Request("start", a, asg.job, asg.attempt, None)
JobCompleteRequest(a, rep) == Request("complete", a, rep.job, rep.attempt, rep.outcome)

\* The answers: 204 (Done), 409 (Conflict), and 200 with a job.
Answer(status, asg) == [status |-> status, assignment |-> asg]
Done == Answer("done", None)
Conflict == Answer("conflict", None)
Assign(j, n) == Answer("done", Assignment(j, n))

DispatchInit ==
    /\ Init
    /\ pc = [a \in Agents |-> "idle"]
    /\ assignment = [a \in Agents |-> None]
    /\ pending = [a \in Agents |-> None]
    /\ call = [a \in Agents |-> None]
    /\ late = {}
    /\ ran = [j \in Jobs |-> <<>>]

-----------------------------------------------------------------------------
(* The handlers: one transaction of the controller turns request r into s *)

Replied(r, answer) == [r EXCEPT !.phase = "replied", !.reply = answer]

\* RecordAgentHeartbeat: only when the agent has active jobs does a second
\* transaction claim one.
HandleHeartbeat(r, s) ==
    /\ r.type = "heartbeat" /\ r.phase = "sent"
    /\ s = IF ActiveJobs(r.agent) # {} THEN [r EXCEPT !.phase = "claiming"]
                                       ELSE Replied(r, Done)
    /\ UNCHANGED vars

\* ClaimNextAgentJob.  When it fails, before or in its commit, the heartbeat is
\* answered without a job.
HandleClaim(r, s) ==
    /\ r.type = "heartbeat" /\ r.phase = "claiming"
    /\ \/ \E j \in Jobs :
            ClaimJob(r.agent, j) /\ s = Replied(r, Assign(j, jobs'[j].attempt))
       \/ ClaimNextAgentJob(r.agent) /\ s = Replied(r, Done)
       \/ UNCHANGED vars /\ s = Replied(r, Done)

HandleStart(r, s) ==
    /\ r.type = "start"
    /\ \/ StartAgentJob(r.agent, r.job, r.attempt) /\ s = Replied(r, Done)
       \/ /\ ~MayStart(r.agent, r.job, r.attempt)
          /\ UNCHANGED vars
          /\ s = Replied(r, Conflict)

HandleComplete(r, s) ==
    /\ r.type = "complete"
    /\ \/ /\ CompleteAgentJob(r.agent, r.job, r.attempt, r.outcome)
          /\ s = Replied(r, Done)
       \/ CompleteTooLate(r.agent, r.job, r.attempt) /\ s = Replied(r, Conflict)
       \/ /\ ~MayComplete(r.agent, r.job, r.attempt)
          /\ UNCHANGED vars
          /\ s = Replied(r, IF CompletedAs(r.agent, r.job, r.attempt, r.outcome)
                            THEN Done ELSE Conflict)

Handle(r, s) ==
    HandleHeartbeat(r, s) \/ HandleClaim(r, s) \/ HandleStart(r, s) \/ HandleComplete(r, s)

\* Every form request r can take next.
Handled(r) ==
    {[r EXCEPT !.phase = "claiming"], Replied(r, Done), Replied(r, Conflict)}
        \cup {Replied(r, Assign(j, n)) : j \in Jobs, n \in 1..MaxDispatchAttempts}

\* The controller works on the call agent a waits on.
Serve(a) ==
    /\ call[a] # None
    /\ call[a].phase # "replied"
    /\ \E s \in Handled(call[a]) : Handle(call[a], s) /\ call' = [call EXCEPT ![a] = s]
    /\ UNCHANGED <<pc, assignment, pending, late, ran>>

\* The controller works on a request whose agent has given up on it.
ServeLate(r) ==
    /\ \E s \in Handled(r) :
        /\ Handle(r, s)
        /\ late' = (late \ {r}) \cup {t \in {s} : t.phase # "replied"}
    /\ UNCHANGED <<pc, assignment, pending, call, ran>>

-----------------------------------------------------------------------------
(* The loop of the agent daemon *)

\* Agent a goes to l with an assignment, a pending completion and a call.
Go(a, l, asg, pend, req) ==
    /\ pc' = [pc EXCEPT ![a] = l]
    /\ assignment' = [assignment EXCEPT ![a] = asg]
    /\ pending' = [pending EXCEPT ![a] = pend]
    /\ call' = [call EXCEPT ![a] = req]

\* The rest of an iteration once no completion is pending.
GoStart(a, asg) ==
    IF asg = None THEN Go(a, "idle", None, None, None)
                  ELSE Go(a, "start", asg, None, JobStartRequest(a, asg))

Answered(a, l) == pc[a] = l /\ call[a].phase = "replied"

\* Agent a stops waiting.  The request may be lost or still be on its way.
Abandon(a) ==
    \/ UNCHANGED late
    \/ /\ call[a] # None
       /\ call[a].phase # "replied"
       /\ Cardinality(late \cup {call[a]}) <= MaxLate
       /\ late' = late \cup {call[a]}

SendHeartbeat(a) ==
    /\ pc[a] = "idle"
    /\ Go(a, "heartbeat", None, pending[a], HeartbeatRequest(a))
    /\ UNCHANGED <<vars, late, ran>>

\* Fault: the agent executes a job it was assigned without asking to start it.
HeartbeatReturns_NoStart(a) ==
    /\ Answered(a, "heartbeat")
    /\ IF call[a].reply.assignment = None
       THEN Go(a, "idle", None, pending[a], None)
       ELSE Go(a, "execute", call[a].reply.assignment, None, None)
    /\ UNCHANGED <<vars, late, ran>>

\* Fault: a pending completion is not retried.
HeartbeatReturns_NoRetry(a) ==
    /\ Answered(a, "heartbeat")
    /\ IF pending[a] # None THEN Go(a, "idle", None, pending[a], None)
                            ELSE GoStart(a, call[a].reply.assignment)
    /\ UNCHANGED <<vars, late, ran>>

HeartbeatReturns(a) ==
    /\ Answered(a, "heartbeat")
    /\ LET asg == call[a].reply.assignment
       IN  IF pending[a] # None
           THEN Go(a, "retry", asg, pending[a], JobCompleteRequest(a, pending[a]))
           ELSE GoStart(a, asg)
    /\ UNCHANGED <<vars, late, ran>>

HeartbeatFails(a) ==
    /\ pc[a] = "heartbeat"
    /\ Go(a, "idle", None, pending[a], None)
    /\ Abandon(a)
    /\ UNCHANGED <<vars, ran>>

\* The connection breaks while the agent reads the body of a 200: sendHeartbeat
\* reports a permanent failure, and the daemon ends with an error.
HeartbeatBodyFails(a) ==
    /\ Answered(a, "heartbeat")
    /\ call[a].reply.assignment # None
    /\ Go(a, "stopped", None, None, None)
    /\ UNCHANGED <<vars, late, ran>>

\* Both a 204 and a 409 settle the pending completion.
RetryReturns(a) ==
    /\ Answered(a, "retry")
    /\ GoStart(a, assignment[a])
    /\ UNCHANGED <<vars, late, ran>>

\* The completion stays pending, and an assignment that came meanwhile is dropped.
RetryFails(a) ==
    /\ pc[a] = "retry"
    /\ Go(a, "idle", None, pending[a], None)
    /\ Abandon(a)
    /\ UNCHANGED <<vars, ran>>

StartReturns(a) ==
    /\ Answered(a, "start")
    /\ IF call[a].reply = Done THEN Go(a, "execute", assignment[a], None, None)
                               ELSE Go(a, "idle", None, None, None)
    /\ UNCHANGED <<vars, late, ran>>

\* Fault: a start whose answer is lost counts as granted.
StartFails_ExecuteAnyway(a) ==
    /\ pc[a] = "start"
    /\ Go(a, "execute", assignment[a], None, None)
    /\ Abandon(a)
    /\ UNCHANGED <<vars, ran>>

StartFails(a) ==
    /\ pc[a] = "start"
    /\ Go(a, "idle", None, None, None)
    /\ Abandon(a)
    /\ UNCHANGED <<vars, ran>>

\* Execute, and send the outcome.
Execute(a) ==
    /\ pc[a] = "execute"
    /\ \E outcome \in Outcome :
        /\ ran' = [ran EXCEPT ![assignment[a].job] = Append(@, outcome)]
        /\ Go(a, "complete", assignment[a], None,
              JobCompleteRequest(a, Report(assignment[a], outcome)))
    /\ UNCHANGED <<vars, late>>

CompleteReturns(a) ==
    /\ Answered(a, "complete")
    /\ Go(a, "idle", None, None, None)
    /\ UNCHANGED <<vars, late, ran>>

CompleteFails(a) ==
    /\ pc[a] = "complete"
    /\ Go(a, "idle", None, Report(assignment[a], call[a].outcome), None)
    /\ Abandon(a)
    /\ UNCHANGED <<vars, ran>>

\* The process ends, at any point, and loses its memory.
Crash(a) ==
    /\ pc[a] \notin {"down", "stopped"}
    /\ Go(a, "down", None, None, None)
    /\ Abandon(a)
    /\ UNCHANGED <<vars, ran>>

Restart(a) ==
    /\ pc[a] \in {"down", "stopped"}
    /\ Go(a, "idle", None, None, None)
    /\ UNCHANGED <<vars, late, ran>>

Agent(a) ==
    \/ SendHeartbeat(a) \/ HeartbeatReturns(a) \/ HeartbeatFails(a)
    \/ HeartbeatBodyFails(a)
    \/ RetryReturns(a) \/ RetryFails(a)
    \/ StartReturns(a) \/ StartFails(a) \/ Execute(a)
    \/ CompleteReturns(a) \/ CompleteFails(a)
    \/ Crash(a) \/ Restart(a)

\* Operators create and read jobs; time passes.
Environment ==
    /\ \/ \E o \in Operators, k \in Keys, a \in Agents : CreateJob(o, k, a)
       \/ \E j \in Jobs : GetJobByID(j)
       \/ \E a \in Agents : ListAgentJobs(a)
       \/ ListJobs
       \/ Tick
    /\ UNCHANGED agentVars

DispatchNext ==
    \/ \E a \in Agents : Serve(a) \/ Agent(a)
    \/ \E r \in late : ServeLate(r)
    \/ Environment

DispatchSpec == DispatchInit /\ [][DispatchNext]_allVars

-----------------------------------------------------------------------------
(* Properties *)

\* "At-most-once execution contract": whatever is lost, late, repeated or retried,
\* and however often agents restart, no job is executed twice.
AtMostOnceExecution == \A j \in Jobs : Len(ran[j]) <= 1

\* The row tells the operator the truth about the execution: a job that succeeded
\* or failed with executor_error was executed with that outcome, and a job that
\* waits, is dispatched, or failed with dispatch_exhausted was never executed,
\* so that it is safe to submit the work again.
RowTellsExecution ==
    \A j \in Jobs :
        /\ jobs[j].state \in {"absent", "queued", "dispatched"} => ran[j] = <<>>
        /\ jobs[j].failure_code = "dispatch_exhausted" => ran[j] = <<>>
        /\ jobs[j].state = "succeeded" => ran[j] = <<"succeeded">>
        /\ jobs[j].failure_code = "executor_error" => ran[j] = <<"failed">>

\* What an agent executes or reports is still its own job in the attempt it was
\* given, and no other outcome was recorded for it: the only way a report can
\* come to nothing is the execution deadline.
ReportStands(a, rep) ==
    /\ jobs[rep.job].agent = a
    /\ jobs[rep.job].attempt = rep.attempt
    /\ \/ jobs[rep.job].state \in {"running", "unknown"}
       \/ CompletedAs(a, rep.job, rep.attempt, rep.outcome)

ReportsStand ==
    \A a \in Agents :
        /\ pending[a] # None => ReportStands(a, pending[a])
        /\ pc[a] = "complete" => ReportStands(a, Report(assignment[a], call[a].outcome))
        /\ pc[a] = "execute" =>
            /\ jobs[assignment[a].job].agent = a
            /\ jobs[assignment[a].job].attempt = assignment[a].attempt
            /\ jobs[assignment[a].job].state \in {"running", "unknown"}

\* The README: the daemon "Reconnects with bounded exponential backoff on
\* transient errors".  No answer of the controller in this model is an error that
\* the daemon must stop for, so it never stops by itself.
NeverStopsOnTransientErrors == \A a \in Agents : pc[a] # "stopped"

-----------------------------------------------------------------------------
(* Liveness *)

\* A heartbeat of a reaches the controller.
HeartbeatArrives(a) ==
    /\ pc[a] = "heartbeat"
    /\ \E s \in Handled(call[a]) :
            HandleHeartbeat(call[a], s) /\ call' = [call EXCEPT ![a] = s]
    /\ UNCHANGED <<pc, assignment, pending, late, ran>>

\* The claim of a heartbeat of a commits.
ClaimCommits(a) ==
    /\ pc[a] = "heartbeat"
    /\ call[a].phase = "claiming"
    /\ ClaimNextAgentJob(a)
    /\ \E s \in Handled(call[a]) :
            HandleClaim(call[a], s) /\ call' = [call EXCEPT ![a] = s]
    /\ UNCHANGED <<pc, assignment, pending, late, ran>>

\* Time passes, a supervisor restarts the daemon, the daemon keeps sending
\* heartbeats however often it crashes, and the controller is reached again and again: of the heartbeats
\* that are sent for ever, and of their claims, infinitely many get through.
\* Nothing is assumed of any answer, and nothing of starts and completions.
HeartbeatFairness ==
    /\ WF_allVars(Tick /\ UNCHANGED agentVars)
    /\ \A a \in Agents :
        /\ WF_allVars(Agent(a))
        /\ SF_allVars(SendHeartbeat(a))
        /\ SF_allVars(HeartbeatArrives(a))
        /\ SF_allVars(ClaimCommits(a))

HeartbeatSpec == DispatchSpec /\ HeartbeatFairness

\* Every job finishes.  There is no reaper: leases and deadlines are acted on
\* only when a heartbeat or a read comes by, one job at a time, in queue order,
\* and yet no job is left behind.
EveryJobFinishes == \A j \in Jobs : Exists(j) ~> jobs[j].state \in Terminal

\* The network works again and again: a completion the daemon retries is
\* infinitely often handled, and answers infinitely often come back.
NetworkFairness ==
    \A a \in Agents :
        /\ SF_allVars(pc[a] = "retry" /\ Serve(a))
        /\ SF_allVars(HeartbeatReturns(a))
        /\ SF_allVars(RetryReturns(a))

\* A pending completion does not stay pending if the network recovers: the daemon,
\* which takes no new job while it holds one, always becomes free again.
PendingSettles ==
    NetworkFairness => \A a \in Agents : pending[a] # None ~> pending[a] = None
=============================================================================
