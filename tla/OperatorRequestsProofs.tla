----------------------- MODULE OperatorRequestsProofs -----------------------
(***************************************************************************)
(* What operators may do, for any number of operators, requests and keys.  *)
(***************************************************************************)
EXTENDS OperatorRequests, FiniteSetTheorems, TLAPS

\* Zenon first, and its time; a leaf that is not for it names SMT.
USE ZenonT(60), SMTT(30)

\* What an operator needs for a job to be created.
MayCreate(o) == enabled[o] /\ role[o] \in {"operator", "admin"}

Places == {"arrived", "store", "begun", "locked", "listed"}

\* While CreateJob holds the row of the operator, the row permits the job.
LockInv ==
    /\ pc \in [Procs -> Places \cup Answers]
    /\ DOMAIN req = Procs /\ DOMAIN role = Operators /\ DOMAIN enabled = Operators
    /\ \A p \in Procs : pc[p] \in Places => req[p].op \in Operators
    /\ \A p \in Procs : At(p, "locked") => MayCreate(req[p].op)

\* The permission of CreateJob in the matrix of role.go.
LEMMA CreatePermission ==
    ASSUME NEW r PROVE HasPermission(r, "create") <=> r \in {"operator", "admin"}
BY DEF HasPermission

\* Before the first request no row is locked.
LEMMA LockInit == Init => LockInv
BY DEF Init, LockInv, MayCreate, At, Places, Answers

\* Every step keeps it: roles and disabled_at change only while the row is not locked.
LEMMA LockStep == LockInv /\ [Next]_vars => LockInv'
<1> SUFFICES ASSUME LockInv, [Next]_vars PROVE LockInv'
  OBVIOUS
<1>1. ASSUME NEW o \in Operators, Administer(o) PROVE LockInv'
  BY <1>1 DEF Administer, Note, Locked,
    LockInv, MayCreate, At, Places, Answers
<1>2. ASSUME NEW o \in Operators, Login(o) PROVE LockInv'
  BY <1>2 DEF Login, Note,
    LockInv, MayCreate, At, Places, Answers
<1>3. ASSUME NEW o \in Operators, EndSession(o) PROVE LockInv'
  BY <1>3 DEF EndSession,
    LockInv, MayCreate, At, Places, Answers
<1>4. ASSUME NEW p \in Procs, NEW kind \in Kinds, NEW o \in Operators, NEW key \in Keys,
             Arrive(p, kind, o, key) PROVE LockInv'
  BY <1>4 DEF Arrive, operators,
    LockInv, MayCreate, At, Places, Answers
<1>5. ASSUME NEW p \in Procs, authenticateOperator(p) PROVE LockInv'
  BY SMTT(30), <1>5 DEF authenticateOperator, CheckRequest, Answer, GoTo, operators,
    LockInv, MayCreate, At, Places, Answers
<1>6. ASSUME NEW p \in Procs, ReadJobs(p) \/ Fail(p) PROVE LockInv'
  BY SMTT(30), <1>6 DEF ReadJobs, Fail, Answer, operators,
    LockInv, MayCreate, At, Places, Answers
<1>7. ASSUME NEW p \in Procs, Begin(p) PROVE LockInv'
  BY <1>7 DEF Begin, operators,
    LockInv, MayCreate, At, Places, Answers
<1>8. ASSUME NEW p \in Procs, LockOperator(p) PROVE LockInv'
  BY SMTT(30), <1>8, CreatePermission DEF LockOperator, Answer, GoTo, operators,
    LockInv, MayCreate, At, Places, Answers
<1>9. ASSUME NEW p \in Procs, CreateJob(p) PROVE LockInv'
  BY <1>9 DEF CreateJob, Committed, Answer, operators,
    LockInv, MayCreate, At, Places, Answers
<1>10. ASSUME NEW p \in Procs, ListAudit(p) \/ CommitAudit(p) PROVE LockInv'
  BY SMTT(30), <1>10 DEF ListAudit, CommitAudit, Committed, Answer, operators,
    LockInv, MayCreate, At, Places, Answers
<1>11. CASE UNCHANGED vars
  BY <1>11 DEF vars, operators, LockInv, MayCreate, At, Places, Answers
<1>. QED
  BY <1>1, <1>2, <1>3, <1>4, <1>5, <1>6, <1>7, <1>8, <1>9, <1>10, <1>11 DEF Next

\* Every job is created for an operator who is enabled and may execute when it is
\* committed (CreateJob checks the row again under its lock).
THEOREM CreatorAlwaysPermitted == Spec => CreatorPermitted
<1> DEFINE Fine == \A j \in jobs' \ jobs : enabled'[j[1]] /\ HasPermission(role'[j[1]], "create")
<1>1. LockInv /\ [Next]_vars => [Fine]_vars
  <2> SUFFICES ASSUME LockInv, Next, NEW j \in jobs' \ jobs
               PROVE  enabled'[j[1]] /\ HasPermission(role'[j[1]], "create")
    BY DEF vars
  <2>1. PICK p \in Procs : CreateJob(p)
    BY DEF Next, Administer, Login, EndSession, Arrive, authenticateOperator, CheckRequest, ReadJobs, Begin,
        LockOperator, ListAudit, CommitAudit, Fail
  <2>2. j = <<req[p].op, req[p].key>> /\ At(p, "locked") /\ UNCHANGED operators
    BY <2>1 DEF CreateJob
  <2>3. j[1] = req[p].op
    BY <2>2
  <2>. QED
    BY <2>2, <2>3, CreatePermission DEF LockInv, MayCreate, operators
<1>2. Spec => []LockInv
  BY LockInit, LockStep, PTL DEF Spec
<1>. QED
  BY <1>1, <1>2, PTL DEF Spec, CreatorPermitted

\* A request that has passed authenticateOperator, or would pass it now, has been
\* permitted since it arrived.
WasInv ==
    /\ was \in [Procs -> BOOLEAN]
    /\ DOMAIN pc = Procs /\ DOMAIN req = Procs
    /\ DOMAIN session = Operators
    /\ \A p \in Procs : pc[p] \in {"store", "begun", "locked", "listed", "ok"} => was[p] = TRUE
    /\ \A p \in Procs : At(p, "arrived") /\ Permitted(req[p], role, enabled, session) => was[p] = TRUE

\* No request is there at first.
LEMMA WasInit == Init => WasInv
BY DEF Init, WasInv, At, Answers

\* Every step keeps it: a change of the rows is noticed by the requests under way.
LEMMA WasStep == WasInv /\ [Next]_vars => WasInv'
<1> SUFFICES ASSUME WasInv, [Next]_vars PROVE WasInv'
  OBVIOUS
<1>1. ASSUME NEW o \in Operators, Administer(o) PROVE WasInv'
  BY <1>1 DEF Administer, Note, Locked, WasInv, At, Answers
<1>2. ASSUME NEW o \in Operators, Login(o) PROVE WasInv'
  BY <1>2 DEF Login, Note, WasInv, At, Answers
<1>3. ASSUME NEW o \in Operators, EndSession(o) PROVE WasInv'
  BY SMTT(30), <1>3 DEF EndSession, Permitted, WasInv, At, Answers
<1>4. ASSUME NEW p \in Procs, NEW kind \in Kinds, NEW o \in Operators, NEW key \in Keys,
             Arrive(p, kind, o, key) PROVE WasInv'
  <2> DEFINE q == [kind |-> kind, op |-> o, key |-> key]
             allowed == Permitted(q, role, enabled, session)
  <2>1. allowed \in BOOLEAN
    BY DEF Permitted
  <2>2. was' = [was EXCEPT ![p] = allowed] /\ req' = [req EXCEPT ![p] = q]
        /\ pc' = [pc EXCEPT ![p] = "arrived"] /\ UNCHANGED operators
    BY <1>4 DEF Arrive
  <2>3. Permitted(q, role', enabled', session') <=> allowed
    BY <2>2 DEF operators
  <2> HIDE DEF q, allowed
  <2>4. was' \in [Procs -> BOOLEAN]
    BY <2>1, <2>2 DEF WasInv
  <2>5. \A x \in Procs : At(x, "arrived")' /\ Permitted(req[x], role, enabled, session)' => was'[x] = TRUE
    <3> TAKE x \in Procs
    <3>1. CASE x = p
      BY <2>1, <2>2, <2>3, <3>1 DEF WasInv
    <3>2. CASE x # p
      BY <2>2, <3>2 DEF WasInv, At, operators
    <3>. QED
      BY <3>1, <3>2
  <2>. QED
    BY <2>2, <2>4, <2>5 DEF operators, WasInv, At
<1>5. ASSUME NEW p \in Procs, authenticateOperator(p) PROVE WasInv'
  BY <1>5 DEF authenticateOperator, CheckRequest, FindOperatorSession, Permitted, Answer, GoTo, operators,
    WasInv, At, Answers
<1>6. ASSUME NEW p \in Procs, ReadJobs(p) \/ Fail(p) PROVE WasInv'
  BY <1>6 DEF ReadJobs, Fail, Answer, operators, WasInv, At, Answers
<1>7. ASSUME NEW p \in Procs, Begin(p) PROVE WasInv'
  BY <1>7 DEF Begin, operators, WasInv, At, Answers
<1>8. ASSUME NEW p \in Procs, LockOperator(p) PROVE WasInv'
  BY <1>8 DEF LockOperator, Answer, GoTo, operators, WasInv, At, Answers
<1>9. ASSUME NEW p \in Procs, CreateJob(p) PROVE WasInv'
  BY <1>9 DEF CreateJob, Committed, Answer, operators, WasInv, At, Answers
<1>10. ASSUME NEW p \in Procs, ListAudit(p) \/ CommitAudit(p) PROVE WasInv'
  BY <1>10 DEF ListAudit, CommitAudit, Committed, Answer, operators, WasInv, At, Answers
<1>11. CASE UNCHANGED vars
  BY <1>11 DEF vars, operators, WasInv, At, Answers, Permitted
<1>. QED
  BY <1>1, <1>2, <1>3, <1>4, <1>5, <1>6, <1>7, <1>8, <1>9, <1>10, <1>11 DEF Next

\* Every request that succeeds was permitted by the rows of the database at some time
\* since it arrived (authenticateOperator, HasPermission).
THEOREM AlwaysAnsweredIfPermitted == Spec => []AnsweredIfPermitted
<1>1. WasInv => AnsweredIfPermitted
  BY DEF WasInv, AnsweredIfPermitted, Answered, At
<1>. QED
  BY <1>1, WasInit, WasStep, PTL DEF Spec

\* The requests that hold the row of an operator create jobs.
ReadInv ==
    /\ DOMAIN pc = Procs /\ DOMAIN req = Procs /\ DOMAIN tx = Procs
    /\ \A p \in Procs : At(p, "locked") => req[p].kind = "create"
    /\ ReadsRecorded

\* Nothing was read at first.
LEMMA ReadInit == Init => ReadInv
BY DEF Init, ReadInv, ReadsRecorded, Answered, At

\* Every step keeps it: the log only grows, and the commit comes before the answer.
LEMMA ReadStep == ReadInv /\ [Next]_vars => ReadInv'
<1> SUFFICES ASSUME ReadInv, [Next]_vars PROVE ReadInv'
  OBVIOUS
<1>1. ASSUME NEW o \in Operators, Administer(o) PROVE ReadInv'
  BY <1>1 DEF Administer, Note, Locked, ReadInv, ReadsRecorded, Answered, At, Answers
<1>2. ASSUME NEW o \in Operators, Login(o) PROVE ReadInv'
  BY <1>2 DEF Login, Note, ReadInv, ReadsRecorded, Answered, At, Answers
<1>3. ASSUME NEW o \in Operators, EndSession(o) PROVE ReadInv'
  BY <1>3 DEF EndSession, ReadInv, ReadsRecorded, Answered, At, Answers
<1>4. ASSUME NEW p \in Procs, NEW kind \in Kinds, NEW o \in Operators, NEW key \in Keys,
             Arrive(p, kind, o, key) PROVE ReadInv'
  BY <1>4 DEF Arrive, operators, ReadInv, ReadsRecorded, Answered, At, Answers
<1>5. ASSUME NEW p \in Procs, authenticateOperator(p) PROVE ReadInv'
  BY <1>5 DEF authenticateOperator, CheckRequest, FindOperatorSession, Answer, GoTo, operators, ReadInv,
    ReadsRecorded, Answered, At, Answers
<1>6. ASSUME NEW p \in Procs, ReadJobs(p) \/ Fail(p) PROVE ReadInv'
  BY <1>6 DEF ReadJobs, Fail, Answer, operators, ReadInv, ReadsRecorded, Answered, At, Answers
<1>7. ASSUME NEW p \in Procs, Begin(p) PROVE ReadInv'
  BY <1>7 DEF Begin, operators, ReadInv, ReadsRecorded, Answered, At, Answers
<1>8. ASSUME NEW p \in Procs, LockOperator(p) PROVE ReadInv'
  BY <1>8 DEF LockOperator, Answer, GoTo, operators, ReadInv, ReadsRecorded, Answered, At, Answers
<1>9. ASSUME NEW p \in Procs, CreateJob(p) PROVE ReadInv'
  BY <1>9 DEF CreateJob, Committed, Answer, operators, ReadInv, ReadsRecorded, Answered, At,
    Answers
<1>10. ASSUME NEW p \in Procs, ListAudit(p) \/ CommitAudit(p) PROVE ReadInv'
  BY <1>10 DEF ListAudit, CommitAudit, Committed, Answer, operators, ReadInv, ReadsRecorded,
    Answered, At, Answers
<1>11. CASE UNCHANGED vars
  BY <1>11 DEF vars, ReadInv, ReadsRecorded, Answered, At
<1>. QED
  BY <1>1, <1>2, <1>3, <1>4, <1>5, <1>6, <1>7, <1>8, <1>9, <1>10, <1>11 DEF Next

\* Every listing of the audit log that was answered is recorded in the log, whatever
\* fails later (RecordAndListAuditEvents).
THEOREM ReadsAlwaysRecorded == Spec => []ReadsRecorded
<1>1. ReadInv => ReadsRecorded
  BY DEF ReadInv
<1>. QED
  BY <1>1, ReadInit, ReadStep, PTL DEF Spec

-----------------------------------------------------------------------------
(* The listing of the audit log *)

\* The events of S that are younger than e.
Younger(S, e) == {x \in S : x.at > e.at}

\* Events have times, and no two of them the same.
Ordered(S) ==
    /\ IsFiniteSet(S)
    /\ \A e \in S : e.at \in Nat
    /\ \A e, f \in S : e.at = f.at => e = f

\* The place of an event in ORDER BY occurred_at DESC: each place is taken once.
LEMMA RankIsBijection ==
    ASSUME NEW S, Ordered(S)
    PROVE  LET n == Cardinality(S)
               rank == [e \in S |-> Cardinality(Younger(S, e)) + 1]
           IN  n \in Nat /\ rank \in Injection(S, 1..n) /\ rank \in Surjection(S, 1..n)
<1> DEFINE n == Cardinality(S)
           rank == [e \in S |-> Cardinality(Younger(S, e)) + 1]
<1>1. n \in Nat
  BY FS_CardinalityType DEF Ordered
<1>2. \A e \in S : /\ Younger(S, e) \in SUBSET S
                   /\ IsFiniteSet(Younger(S, e))
                   /\ Cardinality(Younger(S, e)) \in Nat
                   /\ e \notin Younger(S, e)
  <2> TAKE e \in S
  <2>1. Younger(S, e) \in SUBSET S /\ e \notin Younger(S, e)
    BY SMTT(30) DEF Younger, Ordered
  <2>2. IsFiniteSet(Younger(S, e))
    BY <2>1, FS_Subset DEF Ordered
  <2>3. Cardinality(Younger(S, e)) \in Nat
    BY <2>2, FS_CardinalityType
  <2> QED BY <2>1, <2>2, <2>3
<1>3. ASSUME NEW e \in S PROVE rank[e] \in 1..n
  <2>1. Younger(S, e) \cup {e} \in SUBSET S
    BY <1>2
  <2>2. Cardinality(Younger(S, e) \cup {e}) = Cardinality(Younger(S, e)) + 1
    BY <1>2, FS_AddElement
  <2>3. Cardinality(Younger(S, e) \cup {e}) <= n
    BY <2>1, FS_Subset DEF Ordered
  <2> HIDE DEF n
  <2> QED BY SMTT(30), <1>1, <1>2, <2>2, <2>3
<1>4. ASSUME NEW e \in S, NEW f \in S, e.at < f.at PROVE rank[f] < rank[e]
  <2>1. Younger(S, f) \cup {f} \in SUBSET Younger(S, e)
    BY SMTT(30), <1>4 DEF Younger, Ordered
  <2>2. Cardinality(Younger(S, f) \cup {f}) = Cardinality(Younger(S, f)) + 1
    BY <1>2, FS_AddElement
  <2>3. Cardinality(Younger(S, f) \cup {f}) <= Cardinality(Younger(S, e))
    BY <1>2, <2>1, FS_Subset
  <2> QED BY SMTT(30), <1>2, <2>2, <2>3
<1>5. ASSUME NEW e \in S, NEW f \in S, rank[e] = rank[f] PROVE e = f
  <2>1. rank[e] \in Nat /\ rank[f] \in Nat
    BY SMTT(30), <1>2
  <2>2. ~(e.at < f.at) /\ ~(f.at < e.at)
    BY SMTT(30), <1>4, <1>5, <2>1
  <2>3. e.at \in Nat /\ f.at \in Nat
    BY DEF Ordered
  <2> QED BY SMTT(30), <2>2, <2>3 DEF Ordered
<1>6. rank \in [S -> 1..n]
  BY <1>3
<1> HIDE DEF rank
<1>7. rank \in Injection(S, 1..n)
  BY <1>5, <1>6 DEF Injection, IsInjective
<1>8. IsFiniteSet(1..n) /\ Cardinality(1..n) = n
  BY SMTT(30), <1>1, FS_Interval
<1>9. rank \in Surjection(S, 1..n)
  BY <1>7, <1>8, FS_Injection
<1> QED BY <1>1, <1>7, <1>9 DEF rank

\* The first Limit events are Limit events, if there are as many.
LEMMA NewestAreLimit ==
    ASSUME NEW S, Ordered(S), Cardinality(S) >= Limit
    PROVE  Cardinality(Newest(S)) = Limit
<1> DEFINE n == Cardinality(S)
           rank == [e \in S |-> Cardinality(Younger(S, e)) + 1]
           T == Newest(S)
           top == [e \in T |-> rank[e]]
<1>1. n \in Nat /\ rank \in Injection(S, 1..n) /\ rank \in Surjection(S, 1..n)
  BY RankIsBijection
<1>2. \A e \in S : rank[e] = Cardinality(Younger(S, e)) + 1 /\ rank[e] \in 1..n
  BY <1>1 DEF Injection
<1>3. \A e \in S : Cardinality(Younger(S, e)) \in Nat
  <2> TAKE e \in S
  <2>1. Younger(S, e) \in SUBSET S
    BY DEF Younger
  <2> QED BY <2>1, FS_Subset, FS_CardinalityType DEF Ordered
<1>4. T \in SUBSET S /\ \A e \in S : e \in T <=> Cardinality(Younger(S, e)) < Limit
  BY DEF Newest, Younger
<1>5. Limit \in Nat /\ Limit <= n
  BY <1>1, RequestsAssumption
<1> HIDE DEF n, rank, T
<1>6. \A e \in S : e \in T <=> rank[e] \in 1..Limit
  BY SMTT(30), <1>2, <1>3, <1>4, <1>5
<1>7. top \in [T -> 1..Limit]
  BY <1>4, <1>6
<1>8. \A e, f \in T : top[e] = top[f] => e = f
  BY <1>1, <1>4 DEF Injection, IsInjective
<1>9. \A i \in 1..Limit : \E e \in T : top[e] = i
  <2> TAKE i \in 1..Limit
  <2>1. i \in 1..n
    BY SMTT(30), <1>1, <1>5
  <2>2. PICK e \in S : rank[e] = i
    BY <1>1, <2>1 DEF Surjection
  <2>3. e \in T
    BY <1>6, <2>2
  <2> QED BY <2>2, <2>3
<1> HIDE DEF top
<1>10. top \in Injection(T, 1..Limit) /\ top \in Surjection(T, 1..Limit)
  BY <1>7, <1>8, <1>9 DEF Injection, IsInjective, Surjection
<1>11. IsFiniteSet(1..Limit) /\ Cardinality(1..Limit) = Limit
  BY SMTT(30), <1>5, FS_Interval
<1>12. Cardinality(T) = Limit
  BY <1>10, <1>11, FS_Injection
<1> QED BY <1>12 DEF T

\* What the limit cuts off gave way to as many younger events as the limit.
LEMMA NewestComplete ==
    ASSUME NEW S, Ordered(S), NEW e \in S
    PROVE  e \in Newest(S) \/ Cardinality({x \in Newest(S) : x.at > e.at}) = Limit
<1> SUFFICES ASSUME e \notin Newest(S)
             PROVE  Cardinality({x \in Newest(S) : x.at > e.at}) = Limit
  OBVIOUS
<1> DEFINE G == Younger(S, e)
<1>1. G \in SUBSET S
  BY DEF Younger
<1>2. Ordered(G)
  BY <1>1, FS_Subset DEF Ordered
<1>3. Cardinality(G) \in Nat
  BY <1>2, FS_CardinalityType DEF Ordered
<1>4. ~(Cardinality(G) < Limit)
  BY DEF Newest, Younger
<1>5. Cardinality(G) >= Limit
  BY SMTT(30), <1>3, <1>4, RequestsAssumption
<1>6. ASSUME NEW x \in G PROVE {y \in S : y.at > x.at} = {y \in G : y.at > x.at}
  <2>1. x.at \in Nat /\ e.at \in Nat /\ x.at > e.at
    BY DEF Younger, Ordered
  <2>2. \A y \in S : y.at > x.at => y \in G
    BY SMTT(30), <2>1 DEF Younger, Ordered
  <2> QED BY <1>1, <2>2
<1>7. \A x : x \in Newest(S) <=> x \in S /\ Cardinality({y \in S : y.at > x.at}) < Limit
  BY DEF Newest
<1>8. \A x : x \in G <=> x \in S /\ x.at > e.at
  BY DEF Younger
<1>9. \A x : x \in Newest(G) <=> x \in G /\ Cardinality({y \in G : y.at > x.at}) < Limit
  BY DEF Newest
<1> HIDE DEF G
<1>10. {x \in Newest(S) : x.at > e.at} = Newest(G)
  BY <1>6, <1>7, <1>8, <1>9
<1> QED BY <1>2, <1>5, <1>10, NewestAreLimit

\* What ListingComplete says of one listing.
Complete(p) ==
    \A e \in tx[p].before \cup {Event(tx[p].at, req[p].op, "audit.read")} :
        e \in tx[p].rows \/ Cardinality({x \in tx[p].rows : x.at > e.at}) = Limit

\* Handler p has begun a transaction that writes an event.
Live(p) == pc[p] \in {"begun", "locked", "listed"}

\* The events and the open transactions have different times, so that a listing
\* selects from events with different times.
ListInv ==
    /\ DOMAIN pc = Procs /\ DOMAIN req = Procs /\ DOMAIN tx = Procs
    /\ begun \in Nat
    /\ Ordered(audit)
    /\ \A e \in audit : e.at <= begun
    /\ \A p \in Procs : Live(p) =>
        /\ tx[p] = [at |-> tx[p].at, before |-> tx[p].before, rows |-> tx[p].rows]
        /\ tx[p].at \in Nat /\ tx[p].at <= begun
        /\ tx[p].before \subseteq audit
        /\ \A e \in audit : e.at # tx[p].at
    /\ \A p, q \in Procs : Live(p) /\ Live(q) /\ tx[p].at = tx[q].at => p = q
    /\ \A p \in Procs : At(p, "listed") => Complete(p)
    /\ ListingComplete

LEMMA EventFields ==
    ASSUME NEW at, NEW o, NEW action
    PROVE  Event(at, o, action).at = at
BY DEF Event

\* One more event with a time of its own.
LEMMA OrderedAdd ==
    ASSUME NEW S, Ordered(S), NEW e, e.at \in Nat, \A f \in S : f.at # e.at
    PROVE  Ordered(S \cup {e})
<1>1. IsFiniteSet(S \cup {e})
  BY FS_AddElement DEF Ordered
<1> QED BY <1>1 DEF Ordered

\* A listing is about the rows its handler has selected.
LEMMA CompleteStays ==
    ASSUME NEW p \in Procs, tx'[p] = tx[p], req'[p] = req[p], Complete(p)
    PROVE  Complete(p)'
BY DEF Complete

LEMMA ListInit == Init => ListInv
<1> SUFFICES ASSUME Init PROVE ListInv
  OBVIOUS
<1>1. Ordered(audit)
  BY FS_EmptySet DEF Init, Ordered
<1> QED BY <1>1 DEF Init, ListInv, Live, At, ListingComplete, Answered

\* A handler answers, and has committed nothing or its event.
LEMMA AnswerKeepsList ==
    ASSUME ListInv, NEW p \in Procs, NEW status \in Answers, Answer(p, status),
           status = "ok" => req[p].kind # "audit" \/ At(p, "listed"),
           UNCHANGED begun,
           \/ UNCHANGED audit
           \/ Live(p) /\ \E action : audit' = audit \cup {Event(tx[p].at, req[p].op, action)}
    PROVE  ListInv'
<1>1. /\ DOMAIN pc' = Procs /\ DOMAIN req' = Procs /\ DOMAIN tx' = Procs
      /\ pc'[p] = status
      /\ \A q \in Procs : q # p => pc'[q] = pc[q] /\ req'[q] = req[q] /\ tx'[q] = tx[q]
      /\ status = "ok" => req'[p] = req[p] /\ tx'[p] = tx[p]
  BY DEF Answer, ListInv
<1>2. ~Live(p)' /\ ~At(p, "listed")'
  BY <1>1 DEF Live, At, Answers
<1>3. \A q \in Procs : Live(q)' => q # p /\ Live(q) /\ tx'[q] = tx[q]
  BY <1>1, <1>2 DEF Live
<1>4. /\ audit \subseteq audit'
      /\ \A e \in audit' : e \in audit \/ (Live(p) /\ e.at = tx[p].at)
  BY SMTT(30), EventFields
<1>5. Ordered(audit')
  <2>1. CASE UNCHANGED audit
    BY <2>1 DEF ListInv
  <2>2. ASSUME Live(p), NEW action, audit' = audit \cup {Event(tx[p].at, req[p].op, action)}
        PROVE  Ordered(audit')
    <3> DEFINE e == Event(tx[p].at, req[p].op, action)
    <3>1. e.at = tx[p].at
      BY EventFields
    <3>2. tx[p].at \in Nat /\ \A f \in audit : f.at # tx[p].at
      BY <2>2 DEF ListInv
    <3> HIDE DEF e
    <3>3. Ordered(audit \cup {e})
      BY <3>1, <3>2, OrderedAdd DEF ListInv
    <3> QED BY <2>2, <3>3 DEF e
  <2> QED BY <2>1, <2>2
<1>6. begun' \in Nat /\ \A e \in audit' : e.at <= begun'
  BY <1>4 DEF ListInv
<1>7. ASSUME NEW q \in Procs, Live(q)'
      PROVE  /\ tx'[q] = [at |-> tx'[q].at, before |-> tx'[q].before, rows |-> tx'[q].rows]
             /\ tx'[q].at \in Nat /\ tx'[q].at <= begun'
             /\ tx'[q].before \subseteq audit'
             /\ \A e \in audit' : e.at # tx'[q].at
  <2>1. q # p /\ Live(q) /\ tx'[q] = tx[q]
    BY <1>3, <1>7
  <2>2. /\ tx[q] = [at |-> tx[q].at, before |-> tx[q].before, rows |-> tx[q].rows]
        /\ tx[q].at \in Nat /\ tx[q].at <= begun
        /\ tx[q].before \subseteq audit
        /\ \A e \in audit : e.at # tx[q].at
    BY <2>1 DEF ListInv
  <2>3. Live(p) => tx[p].at # tx[q].at
    BY <2>1 DEF ListInv
  <2> QED BY <1>4, <2>1, <2>2, <2>3
<1>8. \A q, r \in Procs : Live(q)' /\ Live(r)' /\ tx'[q].at = tx'[r].at => q = r
  BY <1>3 DEF ListInv
<1>9. ASSUME NEW q \in Procs, At(q, "listed")' PROVE Complete(q)'
  <2>1. q # p /\ At(q, "listed") /\ tx'[q] = tx[q] /\ req'[q] = req[q]
    BY <1>1, <1>2, <1>9 DEF At
  <2>2. Complete(q)
    BY <2>1 DEF ListInv
  <2> QED BY <2>1, <2>2, CompleteStays
<1>10. ASSUME NEW q \in Procs, Answered(q, "audit")' PROVE Complete(q)'
  <2>1. CASE q = p
    <3>1. status = "ok" /\ req[p].kind = "audit"
      BY <1>1, <1>10, <2>1 DEF Answered, At
    <3>2. Complete(p)
      BY <3>1 DEF ListInv
    <3> QED BY <1>1, <2>1, <3>1, <3>2, CompleteStays
  <2>2. CASE q # p
    <3>1. Answered(q, "audit")
      BY <1>1, <1>10, <2>2 DEF Answered, At
    <3>2. Complete(q)
      BY <3>1 DEF ListInv, ListingComplete, Complete
    <3> QED BY <1>1, <2>2, <3>2, CompleteStays
  <2> QED BY <2>1, <2>2
<1>11. ListingComplete'
  BY <1>10 DEF ListingComplete, Complete
<1> QED BY <1>1, <1>5, <1>6, <1>7, <1>8, <1>9, <1>11 DEF ListInv

\* Nothing changes for the transactions, or a new event gets the next time.
LEMMA RestKeepsList ==
    ASSUME ListInv, UNCHANGED <<pc, req, tx>>,
           \/ UNCHANGED <<audit, begun>>
           \/ /\ begun' = begun + 1
              /\ \E o, action : audit' = audit \cup {Event(begun + 1, o, action)}
    PROVE  ListInv'
<1>1. begun' \in Nat /\ begun <= begun' /\ audit \subseteq audit'
  BY SMTT(30) DEF ListInv
<1>2. \A e \in audit' : e \in audit \/ (begun' = begun + 1 /\ e.at = begun + 1)
  <2>1. ASSUME NEW o, NEW action, begun' = begun + 1,
               audit' = audit \cup {Event(begun + 1, o, action)}
        PROVE  \A e \in audit' : e \in audit \/ (begun' = begun + 1 /\ e.at = begun + 1)
    BY <2>1, EventFields
  <2>2. CASE UNCHANGED audit
    BY <2>2
  <2> QED BY <2>1, <2>2
<1>3. \A e \in audit : e.at \in Nat /\ e.at <= begun
  BY DEF ListInv, Ordered
<1>4. Ordered(audit')
  <2>1. CASE UNCHANGED <<audit, begun>>
    BY <2>1 DEF ListInv
  <2>2. ASSUME NEW o, NEW action, audit' = audit \cup {Event(begun + 1, o, action)}
        PROVE  Ordered(audit')
    <3> DEFINE e == Event(begun + 1, o, action)
    <3>1. e.at = begun + 1
      BY EventFields
    <3>2. begun \in Nat
      BY DEF ListInv
    <3> HIDE DEF e
    <3>3. Ordered(audit \cup {e})
      BY SMTT(30), <1>3, <3>1, <3>2, OrderedAdd DEF ListInv
    <3> QED BY <2>2, <3>3 DEF e
  <2> QED BY <2>1, <2>2
<1>5. \A e \in audit' : e.at <= begun'
  BY SMTT(30), <1>1, <1>2, <1>3 DEF ListInv
<1>6. ASSUME NEW q \in Procs, Live(q)'
      PROVE  /\ tx'[q] = [at |-> tx'[q].at, before |-> tx'[q].before, rows |-> tx'[q].rows]
             /\ tx'[q].at \in Nat /\ tx'[q].at <= begun'
             /\ tx'[q].before \subseteq audit'
             /\ \A e \in audit' : e.at # tx'[q].at
  <2>1. Live(q) /\ tx'[q] = tx[q]
    BY <1>6 DEF Live
  <2>2. /\ tx[q] = [at |-> tx[q].at, before |-> tx[q].before, rows |-> tx[q].rows]
        /\ tx[q].at \in Nat /\ tx[q].at <= begun
        /\ tx[q].before \subseteq audit
        /\ \A e \in audit : e.at # tx[q].at
    BY <2>1 DEF ListInv
  <2>3. begun \in Nat
    BY DEF ListInv
  <2>4. tx[q].at <= begun'
    BY SMTT(30), <1>1, <2>2, <2>3
  <2>5. \A e \in audit' : e.at # tx[q].at
    BY SMTT(30), <1>2, <2>2, <2>3
  <2> QED BY <1>1, <2>1, <2>2, <2>4, <2>5
<1>7. \A p, q \in Procs : Live(p)' /\ Live(q)' /\ tx'[p].at = tx'[q].at => p = q
  BY DEF ListInv, Live
<1>8. \A q \in Procs : At(q, "listed")' => Complete(q)'
  BY DEF ListInv, At, Complete
<1>9. ListingComplete'
  BY DEF ListInv, ListingComplete, Answered, At
<1> QED BY <1>1, <1>4, <1>5, <1>6, <1>7, <1>8, <1>9 DEF ListInv

\* A handler goes on to a place where it has listed nothing.
LEMMA GoToKeepsList ==
    ASSUME ListInv, NEW p \in Procs, NEW l, GoTo(p, l), UNCHANGED <<audit, begun>>,
           \/ l = "store"
           \/ l = "locked" /\ Live(p)
    PROVE  ListInv'
<1>1. DOMAIN pc' = Procs /\ pc'[p] = l /\ \A q \in Procs : q # p => pc'[q] = pc[q]
  BY DEF GoTo, ListInv
<1>2. UNCHANGED <<req, tx>>
  BY DEF GoTo
<1>3. \A q \in Procs : Live(q)' => Live(q)
  BY <1>1 DEF Live
<1>4. \A q \in Procs : /\ At(q, "listed")' => At(q, "listed")
                       /\ Answered(q, "audit")' => Answered(q, "audit")
  BY <1>1, <1>2 DEF At, Answered
<1>5. \A q \in Procs : At(q, "listed")' => Complete(q)'
  BY <1>2, <1>4 DEF ListInv, Complete
<1>6. ListingComplete'
  BY <1>2, <1>4 DEF ListInv, ListingComplete
<1>7. \A q \in Procs : Live(q)' =>
        /\ tx'[q] = [at |-> tx'[q].at, before |-> tx'[q].before, rows |-> tx'[q].rows]
        /\ tx'[q].at \in Nat /\ tx'[q].at <= begun'
        /\ tx'[q].before \subseteq audit'
        /\ \A e \in audit' : e.at # tx'[q].at
  BY <1>2, <1>3 DEF ListInv
<1>8. \A q, r \in Procs : Live(q)' /\ Live(r)' /\ tx'[q].at = tx'[r].at => q = r
  BY <1>2, <1>3 DEF ListInv
<1> QED BY <1>1, <1>2, <1>5, <1>6, <1>7, <1>8 DEF ListInv

LEMMA ArriveKeepsList ==
    ASSUME ListInv, NEW p \in Procs, NEW kind, NEW o, NEW key, Arrive(p, kind, o, key)
    PROVE  ListInv'
<1>1. /\ DOMAIN pc' = Procs /\ DOMAIN req' = Procs /\ DOMAIN tx' = Procs
      /\ pc'[p] = "arrived"
      /\ \A q \in Procs : q # p => pc'[q] = pc[q] /\ req'[q] = req[q] /\ tx'[q] = tx[q]
      /\ UNCHANGED <<audit, begun>>
  BY DEF Arrive, ListInv
<1>2. \A q \in Procs : Live(q)' => q # p /\ Live(q) /\ tx'[q] = tx[q]
  BY <1>1 DEF Live
<1>3. ASSUME NEW q \in Procs, At(q, "listed")' \/ Answered(q, "audit")' PROVE Complete(q)'
  <2>1. q # p /\ (At(q, "listed") \/ Answered(q, "audit"))
    BY <1>1, <1>3 DEF At, Answered
  <2>2. Complete(q)
    BY <2>1 DEF ListInv, ListingComplete, Complete
  <2> QED BY <1>1, <2>1, <2>2, CompleteStays
<1>4. ListingComplete'
  BY <1>3 DEF ListingComplete, Complete
<1>5. \A q \in Procs : Live(q)' =>
        /\ tx'[q] = [at |-> tx'[q].at, before |-> tx'[q].before, rows |-> tx'[q].rows]
        /\ tx'[q].at \in Nat /\ tx'[q].at <= begun'
        /\ tx'[q].before \subseteq audit'
        /\ \A e \in audit' : e.at # tx'[q].at
  BY <1>1, <1>2 DEF ListInv
<1>6. \A q, r \in Procs : Live(q)' /\ Live(r)' /\ tx'[q].at = tx'[r].at => q = r
  BY <1>2 DEF ListInv
<1> QED BY <1>1, <1>3, <1>4, <1>5, <1>6 DEF ListInv

\* Beginnings are numbered upwards.
LEMMA Later == \A m, n \in Nat : n + 1 \in Nat /\ (m <= n => m <= n + 1)
  BY SMTT(30)

\* now() of a new transaction is later than everything before.
LEMMA BeginKeepsList ==
    ASSUME ListInv, NEW p \in Procs, Begin(p)
    PROVE  ListInv'
<1> DEFINE new == [at |-> begun + 1, before |-> audit, rows |-> {}]
<1>1. /\ DOMAIN pc' = Procs /\ DOMAIN req' = Procs /\ DOMAIN tx' = Procs
      /\ pc'[p] = "begun" /\ tx'[p] = new
      /\ \A q \in Procs : q # p => pc'[q] = pc[q] /\ tx'[q] = tx[q]
      /\ UNCHANGED <<req, audit>> /\ begun' = begun + 1
  BY DEF Begin, ListInv
<1>2. /\ new.at = begun + 1 /\ new.before = audit
      /\ new = [at |-> new.at, before |-> new.before, rows |-> new.rows]
  OBVIOUS
<1> HIDE DEF new
<1>3. begun \in Nat /\ \A e \in audit : e.at \in Nat /\ e.at <= begun
  BY DEF ListInv, Ordered
<1>4. \A q \in Procs : Live(q)' /\ q # p => Live(q) /\ tx'[q] = tx[q]
  BY <1>1 DEF Live
<1>5. ASSUME NEW q \in Procs, At(q, "listed")' \/ Answered(q, "audit")' PROVE Complete(q)'
  <2>1. q # p /\ (At(q, "listed") \/ Answered(q, "audit"))
    BY <1>1, <1>5 DEF At, Answered
  <2>2. Complete(q)
    BY <2>1 DEF ListInv, ListingComplete, Complete
  <2> QED BY <1>1, <2>1, <2>2, CompleteStays
<1>6. ListingComplete'
  BY <1>5 DEF ListingComplete, Complete
<1>7. ASSUME NEW q \in Procs, q # p, Live(q)'
      PROVE  /\ tx'[q] = [at |-> tx'[q].at, before |-> tx'[q].before, rows |-> tx'[q].rows]
             /\ tx'[q].at \in Nat /\ tx'[q].at <= begun
             /\ tx'[q].before \subseteq audit
             /\ \A e \in audit : e.at # tx'[q].at
  BY <1>4, <1>7 DEF ListInv
<1>8. ASSUME NEW q \in Procs, Live(q)'
      PROVE  /\ tx'[q] = [at |-> tx'[q].at, before |-> tx'[q].before, rows |-> tx'[q].rows]
             /\ tx'[q].at \in Nat /\ tx'[q].at <= begun'
             /\ tx'[q].before \subseteq audit'
             /\ \A e \in audit' : e.at # tx'[q].at
  <2>1. CASE q = p
    BY SMTT(30), <1>1, <1>2, <1>3, <2>1
  <2>2. CASE q # p
    BY SMTT(30), <1>1, <1>3, <1>7, <1>8, <2>2
  <2> QED BY <2>1, <2>2
<1>9. ASSUME NEW q \in Procs, NEW r \in Procs, Live(q)', Live(r)', tx'[q].at = tx'[r].at
      PROVE  q = r
  <2>1. CASE q # p /\ r # p
    BY <1>4, <1>9, <2>1 DEF ListInv
  <2>2. ASSUME NEW x \in Procs, x # p, Live(x)' PROVE tx'[x].at # tx'[p].at
    BY SMTT(30), <1>1, <1>2, <1>3, <1>7, <2>2
  <2> QED BY <1>9, <2>1, <2>2
<1>10. Ordered(audit') /\ begun' \in Nat /\ \A e \in audit' : e.at <= begun'
  BY <1>1, <1>3, Later DEF ListInv
<1> QED BY <1>1, <1>5, <1>6, <1>8, <1>9, <1>10 DEF ListInv

\* The select of RecordAndListAuditEvents sees the log and its own event.
LEMMA ListAuditKeepsList ==
    ASSUME ListInv, NEW p \in Procs, ListAudit(p)
    PROVE  ListInv'
<1> DEFINE e == Event(tx[p].at, req[p].op, "audit.read")
           S == audit \cup {e}
           new == [tx[p] EXCEPT !.rows = Newest(S)]
<1>1. pc[p] = "begun" /\ Live(p)
  BY DEF ListAudit, At, Live
<1>2. tx' = [tx EXCEPT ![p] = new]
  BY DEF ListAudit
<1>3. /\ tx[p] = [at |-> tx[p].at, before |-> tx[p].before, rows |-> tx[p].rows]
      /\ tx[p].at \in Nat /\ tx[p].at <= begun
      /\ tx[p].before \subseteq audit
      /\ \A f \in audit : f.at # tx[p].at
  BY <1>1 DEF ListInv
<1>4. e.at = tx[p].at
  BY EventFields
<1>5. Ordered(S)
  <2> HIDE DEF e
  <2> QED BY <1>3, <1>4, OrderedAdd DEF ListInv
<1>6. new = [at |-> tx[p].at, before |-> tx[p].before, rows |-> Newest(S)]
  <2> HIDE DEF S
  <2> QED BY SMTT(30), <1>3
<1>7. new.at = tx[p].at /\ new.before = tx[p].before /\ new.rows = Newest(S)
      /\ new = [at |-> new.at, before |-> new.before, rows |-> new.rows]
  BY <1>6
<1>8. /\ DOMAIN pc' = Procs /\ DOMAIN tx' = Procs
      /\ pc'[p] = "listed" /\ tx'[p] = new
      /\ \A q \in Procs : q # p => pc'[q] = pc[q] /\ tx'[q] = tx[q]
      /\ UNCHANGED <<req, audit, begun>>
  <2> HIDE DEF new
  <2> QED BY <1>2 DEF ListAudit, ListInv
<1>9. \A f \in S : f \in Newest(S) \/ Cardinality({x \in Newest(S) : x.at > f.at}) = Limit
  BY <1>5, NewestComplete
<1> HIDE DEF new
<1>10. Complete(p)'
  <2> SUFFICES ASSUME NEW f \in tx'[p].before \cup {Event(tx'[p].at, req'[p].op, "audit.read")}
               PROVE  f \in tx'[p].rows \/ Cardinality({x \in tx'[p].rows : x.at > f.at}) = Limit
    BY DEF Complete
  <2>1. f \in S
    BY <1>3, <1>7, <1>8
  <2>2. tx'[p].rows = Newest(S)
    BY <1>7, <1>8
  <2> HIDE DEF S
  <2> QED BY <1>9, <2>1, <2>2
<1> HIDE DEF S, e
<1>11. \A q \in Procs : Live(q)' => Live(q) /\ tx'[q].at = tx[q].at /\ tx'[q].before = tx[q].before
  BY <1>1, <1>7, <1>8 DEF Live
<1>12. ASSUME NEW q \in Procs, q # p, At(q, "listed")' \/ Answered(q, "audit")'
       PROVE  Complete(q)'
  <2>1. At(q, "listed") \/ Answered(q, "audit")
    BY <1>8, <1>12 DEF At, Answered
  <2>2. Complete(q)
    BY <2>1 DEF ListInv, ListingComplete, Complete
  <2> QED BY <1>8, <1>12, <2>2, CompleteStays
<1>13. ListingComplete'
  <2>1. ~Answered(p, "audit")'
    BY <1>8 DEF Answered, At
  <2> QED BY <1>12, <2>1 DEF ListingComplete, Complete
<1>14. ASSUME NEW q \in Procs, Live(q)'
       PROVE  /\ tx'[q] = [at |-> tx'[q].at, before |-> tx'[q].before, rows |-> tx'[q].rows]
              /\ tx'[q].at \in Nat /\ tx'[q].at <= begun'
              /\ tx'[q].before \subseteq audit'
              /\ \A f \in audit' : f.at # tx'[q].at
  <2>1. tx'[q] = [at |-> tx'[q].at, before |-> tx'[q].before, rows |-> tx'[q].rows]
    <3>1. CASE q = p
      BY <1>7, <1>8, <3>1
    <3>2. CASE q # p
      BY <1>8, <1>11, <1>14, <3>2 DEF ListInv
    <3> QED BY <3>1, <3>2
  <2> QED BY <1>8, <1>11, <1>14, <2>1 DEF ListInv
<1>15. \A q, r \in Procs : Live(q)' /\ Live(r)' /\ tx'[q].at = tx'[r].at => q = r
  <2>1. \A q, r \in Procs : Live(q) /\ Live(r) /\ tx[q].at = tx[r].at => q = r
    BY DEF ListInv
  <2> QED BY <1>11, <2>1
<1>16. \A q \in Procs : At(q, "listed")' => Complete(q)'
  BY <1>10, <1>12
<1> QED BY <1>8, <1>13, <1>14, <1>15, <1>16 DEF ListInv

\* Every step keeps it.
LEMMA ListStep == ListInv /\ ReadInv /\ [Next]_vars => ListInv'
<1> SUFFICES ASSUME ListInv, ReadInv, [Next]_vars PROVE ListInv'
  OBVIOUS
<1>1. ASSUME NEW o \in Operators, Administer(o) \/ Login(o) \/ EndSession(o) PROVE ListInv'
  BY <1>1, RestKeepsList DEF Administer, Login, EndSession, Note
<1>2. ASSUME NEW p \in Procs, authenticateOperator(p) PROVE ListInv'
  <2>1. UNCHANGED <<audit, begun>>
    BY <1>2 DEF authenticateOperator
  <2>2. \/ \E status \in {"unauthorized", "forbidden", "badRequest"} : Answer(p, status)
        \/ Answer(p, "ok") /\ req[p].kind = "me"
        \/ GoTo(p, "store")
    BY <1>2 DEF authenticateOperator, CheckRequest
  <2>3. {"unauthorized", "forbidden", "badRequest"} \subseteq Answers \ {"ok"} /\ "ok" \in Answers
    BY DEF Answers
  <2> QED BY <2>1, <2>2, <2>3, AnswerKeepsList, GoToKeepsList
<1>3. ASSUME NEW p \in Procs, ReadJobs(p) \/ Fail(p) PROVE ListInv'
  <2>1. UNCHANGED <<audit, begun>>
    BY <1>3 DEF ReadJobs, Fail
  <2>2. \/ Answer(p, "error") \/ Answer(p, "notFound")
        \/ Answer(p, "ok") /\ req[p].kind = "jobs"
    BY <1>3 DEF ReadJobs, Fail
  <2>3. {"error", "notFound", "ok"} \subseteq Answers
    BY DEF Answers
  <2> QED BY <2>1, <2>2, <2>3, AnswerKeepsList
<1>4. ASSUME NEW p \in Procs, LockOperator(p) PROVE ListInv'
  <2>1. UNCHANGED <<audit, begun>> /\ Live(p)
    BY <1>4 DEF LockOperator, Live, At
  <2>2. Answer(p, "unauthorized") \/ Answer(p, "forbidden") \/ GoTo(p, "locked")
    BY <1>4 DEF LockOperator
  <2>3. {"unauthorized", "forbidden"} \subseteq Answers
    BY DEF Answers
  <2> QED BY <2>1, <2>2, <2>3, AnswerKeepsList, GoToKeepsList
<1>5. ASSUME NEW p \in Procs, CreateJob(p) PROVE ListInv'
  <2>1. /\ UNCHANGED begun /\ Live(p) /\ req[p].kind # "audit"
        /\ \/ UNCHANGED audit
           \/ audit' = audit \cup {Event(tx[p].at, req[p].op, "job.created")}
    BY <1>5 DEF CreateJob, Live, At, ReadInv
  <2>2. Answer(p, "ok") \/ Answer(p, "error") \/ Answer(p, "refused")
    BY <1>5 DEF CreateJob, Committed
  <2>3. {"error", "refused", "ok"} \subseteq Answers
    BY DEF Answers
  <2> QED BY <2>1, <2>2, <2>3, AnswerKeepsList
<1>6. ASSUME NEW p \in Procs, CommitAudit(p) PROVE ListInv'
  <2>1. /\ UNCHANGED begun /\ Live(p) /\ At(p, "listed")
        /\ audit' = audit \cup {Event(tx[p].at, req[p].op, "audit.read")}
    BY <1>6 DEF CommitAudit, Live, At
  <2>2. Answer(p, "ok") \/ Answer(p, "error")
    BY <1>6 DEF CommitAudit, Committed
  <2>3. {"error", "ok"} \subseteq Answers
    BY DEF Answers
  <2> QED BY <2>1, <2>2, <2>3, AnswerKeepsList
<1>7. CASE UNCHANGED vars
  BY <1>7, RestKeepsList DEF vars
<1> QED
  BY <1>1, <1>2, <1>3, <1>4, <1>5, <1>6, <1>7, ArriveKeepsList, BeginKeepsList,
     ListAuditKeepsList DEF Next

\* A listing of the audit log hides nothing recent, however transactions overlap: what
\* was committed when its transaction began, and the read itself, is in the answer or
\* gave way to a full page of younger events (RecordAndListAuditEvents).
THEOREM ListingsAlwaysComplete == Spec => []ListingComplete
<1>1. ListInv => ListingComplete
  BY DEF ListInv
<1> QED
  BY <1>1, ListInit, ListStep, ReadInit, ReadStep, PTL DEF Spec
=============================================================================
