-------------------------- MODULE OperatorSessions --------------------------
(***************************************************************************)
(* Operators and their sessions: the login and logout handlers of the      *)
(* controller and the transactions they run, with the row locks that order *)
(* them.                                                                   *)
(*                                                                         *)
(* A session is named by the place of its transaction among all login      *)
(* transactions, in order of their start: created_at and expires_at are    *)
(* computed from now(), the start of the transaction, and the lifetime is  *)
(* the same for all.  A transaction that waits for a lock may therefore    *)
(* commit a session that is older than one that is there already.          *)
(***************************************************************************)
EXTENDS Naturals, FiniteSets

CONSTANTS
    Operators,
    Procs,          \* the requests that the controller handles at a time
    MaxActive,      \* MaxActiveSessionsPerOperator
    MaxHashing,     \* the bound of the login limiter
    MaxLogins,      \* bound of the model: login transactions
    None

ASSUME SessionAssumption ==
    /\ MaxActive \in Nat \ {0}
    /\ MaxHashing \in Nat
    /\ MaxLogins \in Nat

VARIABLES
    status,         \* operators: "absent", "enabled" or "disabled"
    begun,          \* the login transactions that were begun
    sessions,       \* operator_sessions: a function from sessions to operators
    expired,        \* the sessions whose expires_at is reached
    audit,          \* operator_audit_events: per operator, the number of each kind
    slots,          \* the slots of the limiter in use
    proc,           \* the requests
    created,        \* history: every session that was committed, and its operator
    loggedOut       \* history: the sessions that a logout deleted

tables == <<status, sessions, audit>>
history == <<created, loggedOut>>
vars == <<status, begun, sessions, expired, audit, slots, proc, created, loggedOut>>

SessionId == 1..MaxLogins

Idle == [pc |-> "idle", op |-> None, session |-> 0, seen |-> {}]

Request(pc, o, s) == [pc |-> pc, op |-> o, session |-> s, seen |-> {}]

At(p, l) == proc[p].pc = l

GoTo(p, l) == proc' = [proc EXCEPT ![p].pc = l]

End(p) == proc' = [proc EXCEPT ![p] = Idle]

Init ==
    /\ status = [o \in Operators |-> "absent"]
    /\ begun = 0
    /\ sessions = <<>>
    /\ expired = {}
    /\ audit = [o \in Operators |-> [created |-> 0, login |-> 0, logout |-> 0]]
    /\ slots = 0
    /\ proc = [p \in Procs |-> Idle]
    /\ created = <<>>
    /\ loggedOut = {}

-----------------------------------------------------------------------------
(* Row locks *)

\* A login transaction holds the row of its operator FOR UPDATE.
LockedOperator(o) == \E p \in Procs : At(p, "locked") /\ proc[p].op = o

\* A logout transaction holds the session row that it deleted.
LockedSession(s) == \E p \in Procs : At(p, "deleted") /\ proc[p].session = s

-----------------------------------------------------------------------------
(* Operators *)

CreateOperator(o) ==
    /\ status[o] = "absent"
    /\ status' = [status EXCEPT ![o] = "enabled"]
    /\ audit' = [audit EXCEPT ![o].created = @ + 1]
    /\ UNCHANGED <<begun, sessions, expired, slots, proc, history>>

\* disabled_at is set by hand, in a transaction of its own.
DisableOperator(o) ==
    /\ status[o] = "enabled"
    /\ ~LockedOperator(o)
    /\ status' = [status EXCEPT ![o] = "disabled"]
    /\ UNCHANGED <<begun, sessions, expired, audit, slots, proc, history>>

-----------------------------------------------------------------------------
(* Login *)

\* A login ends, with or without a session, and its slot is given back.
EndLogin(p) == End(p) /\ slots' = slots - 1

\* handleOperatorLogin gets a slot.  Without one it answers 429.
TryAcquire(p, o) ==
    /\ At(p, "idle")
    /\ slots < MaxHashing
    /\ slots' = slots + 1
    /\ proc' = [proc EXCEPT ![p] = Request("login", o, 0)]
    /\ UNCHANGED <<begun, tables, expired, history>>

\* CreateOperatorSession begins its transaction, which fixes now().
BeginLogin(p) ==
    /\ begun < MaxLogins
    /\ begun' = begun + 1
    /\ proc' = [proc EXCEPT ![p] = [@ EXCEPT !.pc = "begun", !.session = begun + 1,
                                            !.seen = expired]]

\* GetOperatorByUsername, the password (which may be wrong), disabled_at, and the
\* begin of the transaction: what others do in between they may as well do before
\* or after.
VerifyOperator(p) ==
    /\ At(p, "login")
    /\ \/ status[proc[p].op] = "enabled" /\ BeginLogin(p) /\ UNCHANGED slots
       \/ EndLogin(p) /\ UNCHANGED begun
    /\ UNCHANGED <<tables, expired, history>>

\* Fault: the operator row is locked whether it is disabled or not.
LockOperator_Disabled(p) ==
    /\ At(p, "begun")
    /\ ~LockedOperator(proc[p].op)
    /\ GoTo(p, "locked")
    /\ UNCHANGED <<begun, tables, expired, slots, history>>

\* SELECT ... FOR UPDATE waits for the lock and then finds the row, if enabled.
LockOperator(p) ==
    /\ At(p, "begun")
    /\ ~LockedOperator(proc[p].op)
    /\ IF status[proc[p].op] = "enabled" THEN GoTo(p, "locked") /\ UNCHANGED slots
       ELSE EndLogin(p)
    /\ UNCHANGED <<begun, tables, expired, history>>

SessionsOf(o) == {s \in DOMAIN sessions : sessions[s] = o}

\* The n newest of a set of sessions.
Newest(S, n) == {s \in S : Cardinality({x \in S : x > s}) < n}

\* Fault: the maximum is kept, and one more is inserted.
Retained_OneTooMany(o, seen) == Newest(SessionsOf(o) \ seen, MaxActive)

\* Fault: the subquery does not restrict the operator.
Retained_AllOperators(o, seen) ==
    SessionsOf(o) \cap Newest(DOMAIN sessions \ seen, MaxActive - 1)

\* What the two DELETE statements leave to an operator: no session that had
\* expired when the transaction began, and one less than the maximum.
Retained(o, seen) == Newest(SessionsOf(o) \ seen, MaxActive - 1)

\* The rest of the transaction: delete, insert, audit, commit.  A row that a
\* logout has deleted and not committed makes the DELETE wait.
CreateOperatorSession(p) ==
    LET o == proc[p].op
        s == proc[p].session
        pruned == SessionsOf(o) \ Retained(o, proc[p].seen)
        left == DOMAIN sessions \ pruned
    IN  /\ At(p, "locked")
        /\ \A x \in pruned : ~LockedSession(x)
        /\ sessions' = [x \in left \cup {s} |-> IF x = s THEN o ELSE sessions[x]]
        /\ created' = [x \in DOMAIN created \cup {s} |-> IF x = s THEN o ELSE created[x]]
        /\ audit' = [audit EXCEPT ![o].login = @ + 1]
        /\ EndLogin(p)
        /\ UNCHANGED <<status, begun, expired, loggedOut>>

-----------------------------------------------------------------------------
(* Logout *)

\* authenticateOperator: the session is there and not expired, its operator enabled.
FindOperatorSession(s) ==
    s \in DOMAIN sessions /\ s \notin expired /\ status[sessions[s]] = "enabled"

Authenticate(p, s) ==
    /\ At(p, "idle")
    /\ FindOperatorSession(s)
    /\ proc' = [proc EXCEPT ![p] = Request("logout", sessions[s], s)]
    /\ UNCHANGED <<begun, tables, expired, slots, history>>

\* Fault: a session that is gone is not noticed.
DeleteSession_NotChecked(p) ==
    /\ At(p, "logout")
    /\ ~LockedSession(proc[p].session)
    /\ GoTo(p, "deleted")
    /\ UNCHANGED <<begun, tables, expired, slots, history>>

\* RevokeOperatorSession deletes the row, or waits for who is deleting it; if the
\* row is gone the answer is 401.
DeleteSession(p) ==
    /\ At(p, "logout")
    /\ ~LockedSession(proc[p].session)
    /\ IF proc[p].session \in DOMAIN sessions THEN GoTo(p, "deleted") ELSE End(p)
    /\ UNCHANGED <<begun, tables, expired, slots, history>>

\* The audit event refers to the operator, whose row must not be locked FOR UPDATE;
\* then the transaction commits.
RevokeOperatorSession(p) ==
    LET o == proc[p].op
        s == proc[p].session
    IN  /\ At(p, "deleted")
        /\ ~LockedOperator(o)
        /\ sessions' = [x \in DOMAIN sessions \ {s} |-> sessions[x]]
        /\ audit' = [audit EXCEPT ![o].logout = @ + 1]
        /\ loggedOut' = loggedOut \cup {s}
        /\ End(p)
        /\ UNCHANGED <<status, begun, expired, slots, created>>

-----------------------------------------------------------------------------

\* A request fails: its context ends, the database is gone, or its transaction is
\* the victim of a deadlock.  The transaction is rolled back.
Fail(p) ==
    /\ ~At(p, "idle")
    /\ End(p)
    /\ slots' = IF proc[p].pc \in {"logout", "deleted"} THEN slots ELSE slots - 1
    /\ UNCHANGED <<begun, tables, expired, history>>

\* The lifetime of a session passes.  Sessions expire in the order of their names,
\* and a transaction never lasts as long as a session.
Expire(s) ==
    /\ s \in DOMAIN sessions \ expired
    /\ \A x \in DOMAIN sessions : x < s => x \in expired
    /\ \A p \in Procs : proc[p].pc \in {"begun", "locked"} => proc[p].session > s
    /\ expired' = expired \cup {s}
    /\ UNCHANGED <<begun, tables, slots, proc, history>>

Next ==
    \/ \E o \in Operators : CreateOperator(o) \/ DisableOperator(o)
    \/ \E p \in Procs, o \in Operators : TryAcquire(p, o)
    \/ \E p \in Procs :
        \/ VerifyOperator(p)
        \/ LockOperator(p)
        \/ CreateOperatorSession(p)
        \/ DeleteSession(p)
        \/ RevokeOperatorSession(p)
        \/ Fail(p)
    \/ \E p \in Procs, s \in SessionId : Authenticate(p, s)
    \/ \E s \in SessionId : Expire(s)

Spec == Init /\ [][Next]_vars

-----------------------------------------------------------------------------
(* Properties *)

LoginPlaces == {"login", "begun", "locked"}

\* README: "max 8 active sessions per operator", also when logins, logouts and
\* expiries overlap (CreateOperatorSession "bounds active sessions").  And the limiter
\* counts exactly the logins that run: every way out of handleOperatorLogin releases.
SessionsBounded ==
    /\ \A o \in Operators : Cardinality(SessionsOf(o)) <= MaxActive
    /\ slots = Cardinality({p \in Procs : proc[p].pc \in LoginPlaces})

\* A login ends no session too early: one that is gone had expired, was logged
\* out, or gave way to as many logins of the same operator that began later as
\* CreateOperatorSession retains.
RecentSessionsSurvive ==
    \A s \in DOMAIN created \ DOMAIN sessions :
        \/ s \in expired \cup loggedOut
        \/ Cardinality({x \in DOMAIN created : x > s /\ created[x] = created[s]}) >= MaxActive - 1

\* The audit log agrees with what happened: one event per operator, one login event
\* per session, and one logout event per session that a logout ended, none for a
\* session that another logout or a login had deleted (RevokeOperatorSession: "only
\* if the session was found and deleted").  A session that was logged out is gone.
AuditTellsSessions ==
    \A o \in Operators :
        /\ audit[o].created = IF status[o] = "absent" THEN 0 ELSE 1
        /\ audit[o].login = Cardinality({s \in DOMAIN created : created[s] = o})
        /\ audit[o].logout = Cardinality({s \in loggedOut : created[s] = o})
        /\ loggedOut \cap DOMAIN sessions = {}

\* CreateOperatorSession "verifies enabled status": no session is created for an
\* operator that was disabled after the password was verified.
DisabledGetsNoSession ==
    [][\A s \in DOMAIN sessions' \ DOMAIN sessions : status[sessions'[s]] = "enabled"]_vars
=============================================================================
