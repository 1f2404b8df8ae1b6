-------------------------- MODULE OperatorRequests --------------------------
(***************************************************************************)
(* The operator's HTTP requests: authentication, the permission matrix,    *)
(* and the transactions behind the handlers that read jobs, create jobs    *)
(* and list the audit log, while operators are disabled, given other roles *)
(* and logged in and out.  (JobTx has the job tables, OperatorSessions the *)
(* logins; here a job is its operator and key, and an operator has a       *)
(* session or not.)                                                        *)
(*                                                                         *)
(* occurred_at of an audit event is the start of its transaction, so an    *)
(* event may be committed after one that is younger.                       *)
(***************************************************************************)
EXTENDS Naturals, FiniteSets

CONSTANTS
    Operators, Procs, Keys,
    Limit,          \* limit of a listing, as the request has it
    MaxTx           \* bound of the model: transactions that write audit events

ASSUME RequestsAssumption == Limit \in Nat

VARIABLES
    role, enabled, session,     \* by operator: the columns, and whether there is a
                                \* session that is not expired
    jobs,           \* the committed jobs, by operator and key
    audit,          \* operator_audit_events, committed
    begun,          \* the transactions begun so far; the last one's now()
    pc,             \* by handler, where it is, or what it has answered
    req,            \* its request
    was,            \* history: the request has been permitted since it arrived
    tx              \* its transaction: the start, the events committed then, and those
                    \* that it has selected

operators == <<role, enabled, session>>
vars == <<operators, jobs, audit, begun, pc, req, was, tx>>

Roles == {"viewer", "operator", "admin"}
Kinds == {"me", "jobs", "create", "audit"}

\* The permission matrix, by what a handler asks of it; handleOperatorMe asks nothing.
HasPermission(r, kind) ==
    CASE kind = "me" -> TRUE
      [] kind = "jobs" -> r \in Roles
      [] kind = "create" -> r \in {"operator", "admin"}
      [] kind = "audit" -> r = "admin"

Answers == {"none", "ok", "unauthorized", "forbidden", "badRequest", "notFound", "refused", "error"}

Init ==
    /\ role \in [Operators -> Roles]
    /\ enabled = [o \in Operators |-> TRUE]
    /\ session = [o \in Operators |-> FALSE]
    /\ jobs = {}
    /\ audit = {}
    /\ begun = 0
    /\ pc = [p \in Procs |-> "none"]
    /\ req = [p \in Procs |-> <<>>]
    /\ was = [p \in Procs |-> FALSE]
    /\ tx = [p \in Procs |-> <<>>]

At(p, l) == pc[p] = l

\* The row of an operator is locked FOR UPDATE by a job creation; an audit event that
\* is not committed refers to it and locks it FOR KEY SHARE.
Locked(o) == \E p \in Procs : At(p, "locked") /\ req[p].op = o
Shared(o) == \E p \in Procs : At(p, "listed") /\ req[p].op = o

GoTo(p, l) == pc' = [pc EXCEPT ![p] = l] /\ UNCHANGED <<req, was, tx>>

\* The handler answers.  Of a request that did not succeed nothing is kept.
Answer(p, status) ==
    /\ pc' = [pc EXCEPT ![p] = status]
    /\ IF status = "ok" THEN UNCHANGED <<req, was, tx>>
       ELSE /\ req' = [req EXCEPT ![p] = <<>>]
            /\ was' = [was EXCEPT ![p] = FALSE]
            /\ tx' = [tx EXCEPT ![p] = <<>>]

\* What the request q may do, by the rows r, e and s of the database.
Permitted(q, r, e, s) == e[q.op] /\ s[q.op] /\ HasPermission(r[q.op], q.kind)

\* The rows have changed.
Note(r, e, s) ==
    /\ was' = [p \in Procs |-> was[p] \/ (pc[p] \notin Answers /\ Permitted(req[p], r, e, s))]
    /\ UNCHANGED <<pc, req, tx>>

-----------------------------------------------------------------------------
(* Operators *)

\* disabled_at and role are set by hand.
Administer(o) ==
    /\ ~Locked(o)
    /\ \/ enabled' = [enabled EXCEPT ![o] = ~@] /\ UNCHANGED role
       \/ \E r \in Roles \ {role[o]} : role' = [role EXCEPT ![o] = r] /\ UNCHANGED enabled
    /\ Note(role', enabled', session)
    /\ UNCHANGED <<session, jobs, audit, begun>>

Event(at, o, action) == [at |-> at, who |-> o, action |-> action]

\* CreateOperatorSession.
Login(o) ==
    /\ enabled[o] /\ ~Locked(o) /\ ~Shared(o)
    /\ begun < MaxTx
    /\ begun' = begun + 1
    /\ session' = [session EXCEPT ![o] = TRUE]
    /\ audit' = audit \cup {Event(begun + 1, o, "login")}
    /\ Note(role, enabled, session')
    /\ UNCHANGED <<role, enabled, jobs>>

\* The session expires.
EndSession(o) ==
    /\ session[o]
    /\ session' = [session EXCEPT ![o] = FALSE]
    /\ UNCHANGED <<role, enabled, jobs, audit, begun, pc, req, was, tx>>

-----------------------------------------------------------------------------
(* Requests *)

\* A request reaches the mux with the token of o.
Arrive(p, kind, o, key) ==
    LET q == [kind |-> kind, op |-> o, key |-> key] IN
    /\ pc[p] \in Answers
    /\ pc' = [pc EXCEPT ![p] = "arrived"]
    /\ req' = [req EXCEPT ![p] = q]
    /\ was' = [was EXCEPT ![p] = Permitted(q, role, enabled, session)]
    /\ tx' = [tx EXCEPT ![p] = <<>>]
    /\ UNCHANGED <<operators, jobs, audit, begun>>

\* Fault: the join does not look at disabled_at.
FindOperatorSession_AnyOperator(o) == session[o]

FindOperatorSession(o) == session[o] /\ enabled[o]

\* Headers, query and body are what the handler accepts, or not.
CheckRequest(p) == GoTo(p, "store") \/ Answer(p, "badRequest")

\* The session, then the permission, then the request.
authenticateOperator(p) ==
    LET q == req[p] IN
    /\ At(p, "arrived")
    /\ IF ~FindOperatorSession(q.op) THEN Answer(p, "unauthorized")
       ELSE IF ~HasPermission(role[q.op], q.kind) THEN Answer(p, "forbidden")
       ELSE IF q.kind = "me" THEN Answer(p, "ok")
       ELSE CheckRequest(p)
    /\ UNCHANGED <<operators, jobs, audit, begun>>

\* handleOperatorListJobs, handleOperatorGetJobByID and handleOperatorJobEvents: a
\* transaction of their own, whose rows are the answer.
ReadJobs(p) ==
    /\ At(p, "store") /\ req[p].kind = "jobs"
    /\ Answer(p, "ok") \/ Answer(p, "notFound")
    /\ UNCHANGED <<operators, jobs, audit, begun>>

\* CreateJob and RecordAndListAuditEvents begin, which fixes now().
Begin(p) ==
    /\ At(p, "store") /\ req[p].kind \in {"create", "audit"}
    /\ begun < MaxTx
    /\ begun' = begun + 1
    /\ pc' = [pc EXCEPT ![p] = "begun"]
    /\ tx' = [tx EXCEPT ![p] = [at |-> begun + 1, before |-> audit, rows |-> {}]]
    /\ UNCHANGED <<operators, jobs, audit, req, was>>

\* Fault: the operator was checked by the handler.
LockOperator_Trusts(p) ==
    /\ At(p, "begun") /\ req[p].kind = "create"
    /\ ~Locked(req[p].op) /\ ~Shared(req[p].op)
    /\ GoTo(p, "locked")
    /\ UNCHANGED <<operators, jobs, audit, begun>>

\* CreateJob locks the row of the operator and checks it again.
LockOperator(p) ==
    LET o == req[p].op IN
    /\ At(p, "begun") /\ req[p].kind = "create"
    /\ ~Locked(o) /\ ~Shared(o)
    /\ IF ~enabled[o] THEN Answer(p, "unauthorized")
       ELSE IF ~HasPermission(role[o], "create") THEN Answer(p, "forbidden")
       ELSE GoTo(p, "locked")
    /\ UNCHANGED <<operators, jobs, audit, begun>>

\* The commit, which may have succeeded although the handler gets an error.
Committed(p, status) == Answer(p, status) \/ Answer(p, "error")

\* The rest of CreateJob: the job of this key is there, or it is inserted with its
\* audit event; or the store refuses it (agent, queue or key).
CreateJob(p) ==
    LET j == <<req[p].op, req[p].key>> IN
    /\ At(p, "locked")
    /\ \/ j \in jobs /\ Committed(p, "ok") /\ UNCHANGED <<jobs, audit>>
       \/ /\ j \notin jobs
          /\ jobs' = jobs \cup {j}
          /\ audit' = audit \cup {Event(tx[p].at, req[p].op, "job.created")}
          /\ Committed(p, "ok")
       \/ Answer(p, "refused") /\ UNCHANGED <<jobs, audit>>
    /\ UNCHANGED <<operators, begun>>

\* ORDER BY occurred_at DESC LIMIT.
Newest(S) == {e \in S : Cardinality({x \in S : x.at > e.at}) < Limit}

\* Fault: the log is listed, then the read is recorded.
ListAudit_First(p) ==
    /\ At(p, "begun") /\ req[p].kind = "audit"
    /\ ~Locked(req[p].op)
    /\ pc' = [pc EXCEPT ![p] = "listed"]
    /\ tx' = [tx EXCEPT ![p].rows = Newest(audit)]
    /\ UNCHANGED <<operators, jobs, audit, begun, req, was>>

\* RecordAndListAuditEvents inserts its event and selects.
ListAudit(p) ==
    /\ At(p, "begun") /\ req[p].kind = "audit"
    /\ ~Locked(req[p].op)
    /\ pc' = [pc EXCEPT ![p] = "listed"]
    /\ tx' = [tx EXCEPT ![p].rows = Newest(audit \cup {Event(tx[p].at, req[p].op, "audit.read")})]
    /\ UNCHANGED <<operators, jobs, audit, begun, req, was>>

\* Fault: the rows are there, whatever becomes of the commit.
CommitAudit_Ignored(p) ==
    /\ At(p, "listed")
    /\ \/ audit' = audit \cup {Event(tx[p].at, req[p].op, "audit.read")}
       \/ UNCHANGED audit
    /\ Answer(p, "ok")
    /\ UNCHANGED <<operators, jobs, begun>>

CommitAudit(p) ==
    /\ At(p, "listed")
    /\ audit' = audit \cup {Event(tx[p].at, req[p].op, "audit.read")}
    /\ Committed(p, "ok")
    /\ UNCHANGED <<operators, jobs, begun>>

\* The database fails or dbCtx ends: the transaction is rolled back.
Fail(p) ==
    /\ pc[p] \notin Answers
    /\ Answer(p, "error")
    /\ UNCHANGED <<operators, jobs, audit, begun>>

Next ==
    \/ \E o \in Operators : Administer(o) \/ Login(o) \/ EndSession(o)
    \/ \E p \in Procs, kind \in Kinds, o \in Operators, key \in Keys : Arrive(p, kind, o, key)
    \/ \E p \in Procs :
        \/ authenticateOperator(p) \/ ReadJobs(p) \/ Begin(p)
        \/ LockOperator(p) \/ CreateJob(p)
        \/ ListAudit(p) \/ CommitAudit(p)
        \/ Fail(p)

Spec == Init /\ [][Next]_vars

-----------------------------------------------------------------------------
(* Properties *)

Answered(p, kind) == At(p, "ok") /\ req[p].kind = kind

\* Disabling an operator, ending their session and taking a role away work at once: a
\* request succeeds only if at some time since it arrived the rows of the database
\* permitted it (FindOperatorSessionByTokenHash, HasPermission).
AnsweredIfPermitted ==
    \A p \in Procs : \A kind \in Kinds : Answered(p, kind) => was[p]

\* A job is only ever created for an operator who is enabled and may execute when it
\* is committed, whatever changed since the request was authenticated (CreateJob).
CreatorPermitted ==
    [][\A j \in jobs' \ jobs : enabled'[j[1]] /\ HasPermission(role'[j[1]], "create")]_vars

\* "RecordAndListAuditEvents records the operator.audit.read event before listing": a
\* listing that was answered is in the log for good, and no later request or failure
\* takes it back.
ReadsRecorded ==
    \A p \in Procs : Answered(p, "audit") =>
        Event(tx[p].at, req[p].op, "audit.read") \in audit

\* A listing hides nothing recent: what was committed when the transaction began, and
\* the read itself, is in it or gave way to as many younger events as the limit.
ListingComplete ==
    \A p \in Procs : Answered(p, "audit") =>
        \A e \in tx[p].before \cup {Event(tx[p].at, req[p].op, "audit.read")} :
            e \in tx[p].rows \/ Cardinality({x \in tx[p].rows : x.at > e.at}) = Limit
=============================================================================
