----------------------- MODULE OperatorSessionsProofs -----------------------
(***************************************************************************)
(* Proofs about OperatorSessions: what the row locks of logins and logouts *)
(* keep true of the sessions, of the audit log and of the login limiter,   *)
(* for any number of operators, of requests at a time and of logins.       *)
(***************************************************************************)
EXTENDS OperatorSessions, FiniteSetTheorems, WellFoundedInduction, TLAPS

\* Zenon first, and its time; a leaf that is not for it names SMT.
USE ZenonT(60), SMTT(30)

Places == {"idle", "login", "begun", "locked", "logout", "deleted"}

Proc == [pc : Places, op : Operators \cup {None}, session : Nat, seen : SUBSET Nat]

Counts == [created : Nat, login : Nat, logout : Nat]

\* The tables and the history of a program that was started on empty tables.
Typed ==
    /\ status \in [Operators -> {"absent", "enabled", "disabled"}]
    /\ begun \in Nat
    /\ audit \in [Operators -> Counts]
    /\ slots \in Int
    /\ expired \subseteq Nat
    /\ proc \in [Procs -> Proc]
    /\ DOMAIN created \subseteq 1..begun
    /\ \A s \in DOMAIN created : created[s] \in Operators
    /\ DOMAIN sessions \subseteq DOMAIN created
    /\ \A s \in DOMAIN sessions : sessions[s] = created[s]
    /\ loggedOut \subseteq DOMAIN created
    /\ loggedOut \cap DOMAIN sessions = {}

\* What a request that runs knows: a login that has begun owns a name that no
\* session has, one that holds the lock knows that the operator is enabled, and
\* a logout that holds the row knows that the session is there.
Knows(p) ==
    /\ ~At(p, "idle") => proc[p].op \in Operators
    /\ proc[p].pc \in {"begun", "locked"} =>
        /\ proc[p].session \in (1..begun) \ DOMAIN created
        /\ proc[p].seen \subseteq expired
    /\ At(p, "locked") => status[proc[p].op] = "enabled"
    /\ proc[p].pc \in {"logout", "deleted"} =>
        proc[p].session \in DOMAIN created /\ created[proc[p].session] = proc[p].op
    /\ At(p, "deleted") => proc[p].session \in DOMAIN sessions

\* Two requests never hold the same name, or the same row.
Apart(p, q) ==
    proc[p].session = proc[q].session =>
        /\ ~(proc[p].pc \in {"begun", "locked"} /\ proc[q].pc \in {"begun", "locked"})
        /\ ~(At(p, "deleted") /\ At(q, "deleted"))

LocksInv ==
    /\ Typed
    /\ \A p \in Procs : Knows(p)
    /\ \A p, q \in Procs : p # q => Apart(p, q)

Logins == {p \in Procs : proc[p].pc \in LoginPlaces}

CreatedFor(o) == {s \in DOMAIN created : created[s] = o}

LoggedOutOf(o) == {s \in loggedOut : created[s] = o}

SlotsInv == IsFiniteSet(Logins) /\ slots = Cardinality(Logins)

-----------------------------------------------------------------------------
(* Requests *)

\* The ids that CreateOperatorSession gives to sessions are numbers.
LEMMA SessionIdNat == \A s \in SessionId : s \in Nat
  BY SMTT(30), SessionAssumption DEF SessionId

\* What a request does to itself, field by field.
Sets(p, l, o, s, seen) ==
    /\ proc' \in [Procs -> Proc]
    /\ proc'[p].pc = l /\ proc'[p].op = o /\ proc'[p].session = s /\ proc'[p].seen = seen
    /\ \A q \in Procs \ {p} : proc'[q] = proc[q]

LEMMA GoToSets ==
    ASSUME Typed, NEW p \in Procs, NEW l \in Places, GoTo(p, l)
    PROVE  Sets(p, l, proc[p].op, proc[p].session, proc[p].seen)
<1> DEFINE y == [proc[p] EXCEPT !.pc = l]
<1>1. /\ y \in Proc /\ y.pc = l /\ y.op = proc[p].op /\ y.session = proc[p].session
      /\ y.seen = proc[p].seen
  BY DEF Typed, Proc
<1>2. proc' = [proc EXCEPT ![p] = y] /\ proc \in [Procs -> Proc]
  BY DEF GoTo, Typed
<1> HIDE DEF y
<1> QED BY <1>1, <1>2 DEF Sets

LEMMA EndSets ==
    ASSUME Typed, NEW p \in Procs, End(p)
    PROVE  Sets(p, "idle", None, 0, {})
<1>1. /\ Idle \in Proc /\ Idle.pc = "idle" /\ Idle.op = None /\ Idle.session = 0
      /\ Idle.seen = {}
  BY DEF Idle, Proc, Places
<1> HIDE DEF Idle
<1> QED BY <1>1 DEF Sets, End, Typed

LEMMA RequestSets ==
    ASSUME Typed, NEW p \in Procs, NEW l \in Places, NEW o \in Operators, NEW s \in Nat,
           proc' = [proc EXCEPT ![p] = Request(l, o, s)]
    PROVE  Sets(p, l, o, s, {})
<1> DEFINE y == Request(l, o, s)
<1>1. y \in Proc /\ y.pc = l /\ y.op = o /\ y.session = s /\ y.seen = {}
  BY DEF Request, Proc
<1>2. proc' = [proc EXCEPT ![p] = y] /\ proc \in [Procs -> Proc]
  BY DEF Typed
<1> HIDE DEF y
<1> QED BY <1>1, <1>2 DEF Sets

LEMMA BeginSets ==
    ASSUME Typed, NEW p \in Procs, BeginLogin(p)
    PROVE  Sets(p, "begun", proc[p].op, begun + 1, expired)
<1> DEFINE y == [proc[p] EXCEPT !.pc = "begun", !.session = begun + 1, !.seen = expired]
<1>1. /\ y \in Proc /\ y.pc = "begun" /\ y.op = proc[p].op /\ y.session = begun + 1
      /\ y.seen = expired
  <2>1. proc[p] \in Proc /\ begun + 1 \in Nat /\ expired \in SUBSET Nat /\ "begun" \in Places
    BY SMTT(30) DEF Typed, Places
  <2> QED BY <2>1 DEF Proc
<1>2. proc' = [proc EXCEPT ![p] = y] /\ proc \in [Procs -> Proc]
  BY DEF BeginLogin, Typed
<1> HIDE DEF y
<1> QED BY <1>1, <1>2 DEF Sets

\* What the step of a request leaves to the others.
LEMMA OtherKnows ==
    ASSUME Typed, NEW q \in Procs, Knows(q), proc'[q] = proc[q],
           begun' \in {begun, begun + 1}, expired \subseteq expired',
           At(q, "locked") => status'[proc[q].op] = "enabled",
           DOMAIN created \subseteq DOMAIN created',
           \A s \in DOMAIN created : created'[s] = created[s],
           proc[q].pc \in {"begun", "locked"} => proc[q].session \notin DOMAIN created',
           At(q, "deleted") => proc[q].session \in DOMAIN sessions'
    PROVE  Knows(q)'
<1>1. 1..begun \subseteq 1..begun'
  BY SMTT(30) DEF Typed
<1> QED BY <1>1 DEF Knows, At

\* One request moves: what it knows, and what it leaves to the others, is enough.
LEMMA OneMoves ==
    ASSUME LocksInv, NEW p \in Procs, Typed',
           \A q \in Procs \ {p} : proc'[q] = proc[q] /\ Knows(q)' /\ Apart(p, q)',
           Knows(p)'
    PROVE  LocksInv'
<1>1. \A q \in Procs \ {p} : Apart(q, p)'
  BY DEF Apart, At
<1>2. ASSUME NEW q \in Procs \ {p}, NEW r \in Procs \ {p}, q # r PROVE Apart(q, r)'
  <2>1. Apart(q, r) /\ proc'[q] = proc[q] /\ proc'[r] = proc[r]
    BY <1>2 DEF LocksInv
  <2> QED BY <2>1 DEF Apart, At
<1> QED BY <1>1, <1>2 DEF LocksInv

\* A request moves, and the tables stay.
LEMMA TablesStay ==
    ASSUME LocksInv, NEW p \in Procs, proc' \in [Procs -> Proc],
           \A q \in Procs \ {p} : proc'[q] = proc[q],
           begun' \in {begun, begun + 1}, slots' \in Int,
           UNCHANGED <<tables, expired, history>>,
           Knows(p)', \A q \in Procs \ {p} : Apart(p, q)'
    PROVE  LocksInv'
<1>1. Typed'
  <2>1. begun' \in Nat /\ 1..begun \subseteq 1..begun'
    BY SMTT(30) DEF LocksInv, Typed
  <2> QED BY <2>1 DEF LocksInv, Typed, tables, history
<1>2. ASSUME NEW q \in Procs \ {p} PROVE Knows(q)'
  BY OtherKnows DEF LocksInv, tables, history, Knows
<1> QED BY <1>1, <1>2, OneMoves

LEMMA LocksInit == Init => LocksInv
<1> SUFFICES ASSUME Init PROVE LocksInv
  OBVIOUS
<1>1. /\ Idle \in Proc /\ Idle.pc = "idle"
  BY DEF Idle, Proc, Places
<1> HIDE DEF Idle
<1>2. proc \in [Procs -> Proc] /\ \A p \in Procs : proc[p].pc = "idle"
  BY <1>1 DEF Init
<1>3. DOMAIN created = {} /\ DOMAIN sessions = {} /\ loggedOut = {} /\ expired = {}
  BY SMTT(30) DEF Init
<1>4. audit \in [Operators -> Counts]
  BY DEF Init, Counts
<1>5. Typed
  BY SMTT(30), <1>2, <1>3, <1>4 DEF Init, Typed
<1>6. \A p \in Procs : Knows(p)
  BY <1>2 DEF Knows, At
<1>7. \A p, q \in Procs : Apart(p, q)
  BY <1>2 DEF Apart, At
<1> QED BY <1>5, <1>6, <1>7 DEF LocksInv

\* The requests before they write.
LEMMA RequestKeepsLocks ==
    ASSUME LocksInv, NEW p \in Procs,
           \/ \E o \in Operators : TryAcquire(p, o)
           \/ VerifyOperator(p) \/ LockOperator(p) \/ DeleteSession(p) \/ Fail(p)
           \/ \E s \in SessionId : Authenticate(p, s)
    PROVE  LocksInv'
<1>0. /\ Typed /\ Knows(p) /\ \A q \in Procs \ {p} : Apart(p, q)
      /\ slots \in Int /\ begun \in Nat
      /\ \A q \in Procs : proc[q] \in Proc /\ Knows(q)
  BY DEF LocksInv, Typed
<1>1. ASSUME End(p), begun' = begun, slots' \in Int, UNCHANGED <<tables, expired, history>>
      PROVE  LocksInv'
  <2>1. Sets(p, "idle", None, 0, {})
    BY <1>0, <1>1, EndSets
  <2>2. Knows(p)' /\ \A q \in Procs \ {p} : Apart(p, q)'
    BY <2>1 DEF Sets, Knows, Apart, At
  <2> QED BY <1>1, <2>1, <2>2, TablesStay DEF Sets
<1>2. ASSUME NEW o \in Operators, TryAcquire(p, o) PROVE LocksInv'
  <2>1. Sets(p, "login", o, 0, {})
    BY <1>0, <1>2, RequestSets DEF TryAcquire, Places
  <2>2. Knows(p)' /\ \A q \in Procs \ {p} : Apart(p, q)'
    BY <2>1 DEF Sets, Knows, Apart, At
  <2>3. slots' \in Int /\ begun' = begun /\ UNCHANGED <<tables, expired, history>>
    BY SMTT(30), <1>0, <1>2 DEF TryAcquire
  <2> QED BY <2>1, <2>2, <2>3, TablesStay DEF Sets
<1>3. CASE VerifyOperator(p)
  <2>1. CASE EndLogin(p) /\ UNCHANGED begun
    BY SMTT(30), <1>0, <1>1, <1>3, <2>1 DEF VerifyOperator, EndLogin
  <2>2. CASE BeginLogin(p) /\ UNCHANGED slots
    <3>1. Sets(p, "begun", proc[p].op, begun + 1, expired)
      BY <1>0, <2>2, BeginSets
    <3>2. /\ begun' = begun + 1 /\ slots' = slots /\ UNCHANGED <<tables, expired, history>>
          /\ proc[p].pc = "login"
      BY <1>3, <2>2 DEF VerifyOperator, BeginLogin, At
    <3>3. begun + 1 \in 1..begun' /\ begun + 1 \notin DOMAIN created'
      BY SMTT(30), <1>0, <3>2 DEF Typed, history
    <3>4. Knows(p)'
      BY <1>0, <3>1, <3>2, <3>3 DEF Sets, Knows, At
    <3>5. ASSUME NEW q \in Procs \ {p} PROVE Apart(p, q)'
      <4>1. proc[q].pc \in {"begun", "locked"} => proc[q].session # begun + 1
        BY SMTT(30), <1>0 DEF Knows
      <4> QED BY <3>1, <4>1 DEF Sets, Apart, At
    <3> QED BY <1>0, <3>1, <3>2, <3>4, <3>5, TablesStay DEF Sets
  <2> QED BY <1>3, <2>1, <2>2 DEF VerifyOperator
<1>4. CASE LockOperator(p)
  <2>1. CASE EndLogin(p)
    BY SMTT(30), <1>0, <1>1, <1>4, <2>1 DEF LockOperator, EndLogin
  <2>2. CASE status[proc[p].op] = "enabled" /\ GoTo(p, "locked") /\ UNCHANGED slots
    <3>1. Sets(p, "locked", proc[p].op, proc[p].session, proc[p].seen)
      BY <1>0, <2>2, GoToSets DEF Places
    <3>2. /\ begun' = begun /\ slots' = slots /\ UNCHANGED <<tables, expired, history>>
          /\ proc[p].pc = "begun"
      BY <1>4, <2>2 DEF LockOperator, At
    <3>3. Knows(p)'
      BY <1>0, <2>2, <3>1, <3>2 DEF Sets, Knows, At, tables, history
    <3>4. \A q \in Procs \ {p} : Apart(p, q)'
      BY <1>0, <3>1, <3>2 DEF Sets, Apart, At
    <3> QED BY <1>0, <3>1, <3>2, <3>3, <3>4, TablesStay DEF Sets
  <2> QED BY <1>4, <2>1, <2>2 DEF LockOperator
<1>5. CASE DeleteSession(p)
  <2>0. /\ begun' = begun /\ slots' = slots /\ UNCHANGED <<tables, expired, history>>
        /\ proc[p].pc = "logout" /\ ~LockedSession(proc[p].session)
    BY <1>5 DEF DeleteSession, At
  <2>1. CASE End(p)
    BY <1>0, <1>1, <2>0, <2>1
  <2>2. CASE proc[p].session \in DOMAIN sessions /\ GoTo(p, "deleted")
    <3>1. Sets(p, "deleted", proc[p].op, proc[p].session, proc[p].seen)
      BY <1>0, <2>2, GoToSets DEF Places
    <3>2. Knows(p)'
      BY <1>0, <2>0, <2>2, <3>1 DEF Sets, Knows, At, tables, history
    <3>3. \A q \in Procs \ {p} : Apart(p, q)'
      BY <2>0, <3>1 DEF Sets, Apart, At, LockedSession
    <3> QED BY <1>0, <2>0, <3>1, <3>2, <3>3, TablesStay DEF Sets
  <2> QED BY <1>5, <2>1, <2>2 DEF DeleteSession
<1>6. CASE Fail(p)
  BY SMTT(30), <1>0, <1>1, <1>6 DEF Fail
<1>7. ASSUME NEW s \in SessionId, Authenticate(p, s) PROVE LocksInv'
  <2>1. s \in DOMAIN sessions /\ s \in Nat /\ sessions[s] \in Operators /\ s \in DOMAIN created
        /\ created[s] = sessions[s]
    BY SMTT(30), <1>0, <1>7 DEF Authenticate, FindOperatorSession, Typed
  <2>2. Sets(p, "logout", sessions[s], s, {})
    BY <1>0, <1>7, <2>1, RequestSets DEF Authenticate, Places
  <2>3. begun' = begun /\ slots' = slots /\ UNCHANGED <<tables, expired, history>>
    BY <1>7 DEF Authenticate
  <2>4. Knows(p)' /\ \A q \in Procs \ {p} : Apart(p, q)'
    BY <2>1, <2>2, <2>3 DEF Sets, Knows, Apart, At, history
  <2> QED BY <1>0, <2>2, <2>3, <2>4, TablesStay DEF Sets
<1> QED BY <1>2, <1>3, <1>4, <1>5, <1>6, <1>7

\* A login commits its session: the name is its own, and it deletes no row that a
\* logout holds.
LEMMA LoginKeepsLocks ==
    ASSUME LocksInv, NEW p \in Procs, CreateOperatorSession(p)
    PROVE  LocksInv'
<1> DEFINE o == proc[p].op
           s == proc[p].session
           pruned == SessionsOf(o) \ Retained(o, proc[p].seen)
<1>0. /\ Typed /\ Knows(p) /\ o \in Operators /\ s \in (1..begun) \ DOMAIN created
      /\ At(p, "locked")
  BY DEF LocksInv, CreateOperatorSession, Knows, At
<1>1. /\ DOMAIN sessions' = (DOMAIN sessions \ pruned) \cup {s}
      /\ \A x \in DOMAIN sessions' : sessions'[x] = IF x = s THEN o ELSE sessions[x]
      /\ DOMAIN created' = DOMAIN created \cup {s}
      /\ \A x \in DOMAIN created' : created'[x] = IF x = s THEN o ELSE created[x]
      /\ \A x \in pruned : ~LockedSession(x)
      /\ End(p) /\ slots' = slots - 1 /\ begun' = begun
      /\ UNCHANGED <<status, expired, loggedOut>>
  BY DEF CreateOperatorSession, EndLogin
<1>2. audit' \in [Operators -> Counts]
  <2>1. audit' = [audit EXCEPT ![o] = [audit[o] EXCEPT !.login = @ + 1]]
    BY <1>0 DEF CreateOperatorSession, Typed
  <2>2. [audit[o] EXCEPT !.login = @ + 1] \in Counts
    BY SMTT(30), <1>0 DEF Typed, Counts
  <2> QED BY <1>0, <2>1, <2>2 DEF Typed
<1>3. Sets(p, "idle", None, 0, {})
  BY <1>0, <1>1, EndSets
<1>4. Typed'
  <2>1. s \notin loggedOut /\ s \in 1..begun
    BY <1>0 DEF Typed
  <2>2. DOMAIN sessions' \subseteq DOMAIN created'
    BY <1>0, <1>1 DEF Typed
  <2>3. \A x \in DOMAIN sessions' : sessions'[x] = created'[x]
    BY <1>0, <1>1, <2>2 DEF Typed
  <2>4. loggedOut' \subseteq DOMAIN created' /\ loggedOut' \cap DOMAIN sessions' = {}
    BY <1>0, <1>1, <2>1 DEF Typed
  <2>5. DOMAIN created' \subseteq 1..begun' /\ \A x \in DOMAIN created' : created'[x] \in Operators
    BY <1>0, <1>1, <2>1 DEF Typed
  <2> QED BY SMTT(30), <1>0, <1>1, <1>2, <1>3, <2>2, <2>3, <2>4, <2>5 DEF Typed, Sets
<1>5. Knows(p)' /\ \A q \in Procs \ {p} : Apart(p, q)'
  BY <1>3 DEF Sets, Knows, Apart, At
<1>6. ASSUME NEW q \in Procs \ {p} PROVE Knows(q)'
  <2>1. Knows(q) /\ Apart(p, q) /\ proc'[q] = proc[q]
    BY <1>3 DEF LocksInv, Sets
  <2>2. proc[q].pc \in {"begun", "locked"} => proc[q].session \notin DOMAIN created'
    BY <1>0, <1>1, <2>1 DEF Knows, Apart, At
  <2>3. At(q, "deleted") => proc[q].session \in DOMAIN sessions'
    <3>1. SUFFICES ASSUME At(q, "deleted") PROVE proc[q].session \in DOMAIN sessions'
      OBVIOUS
    <3>2. LockedSession(proc[q].session) /\ proc[q].session \in DOMAIN sessions
      BY <2>1, <3>1 DEF LockedSession, Knows
    <3> QED BY <1>1, <3>2
  <2>4. At(q, "locked") => status'[proc[q].op] = "enabled"
    BY <1>1, <2>1 DEF Knows
  <2>5. /\ DOMAIN created \subseteq DOMAIN created'
        /\ \A x \in DOMAIN created : created'[x] = created[x]
    BY <1>0, <1>1
  <2> QED BY <1>0, <1>1, <2>1, <2>2, <2>3, <2>4, <2>5, OtherKnows
<1> QED BY <1>3, <1>4, <1>5, <1>6, OneMoves DEF Sets

\* A logout commits: no other holds the row that it deletes.
LEMMA LogoutKeepsLocks ==
    ASSUME LocksInv, NEW p \in Procs, RevokeOperatorSession(p)
    PROVE  LocksInv'
<1> DEFINE o == proc[p].op
           s == proc[p].session
<1>0. /\ Typed /\ Knows(p) /\ o \in Operators /\ s \in DOMAIN sessions
      /\ At(p, "deleted")
  BY DEF LocksInv, RevokeOperatorSession, Knows, At
<1>1. /\ DOMAIN sessions' = DOMAIN sessions \ {s}
      /\ \A x \in DOMAIN sessions' : sessions'[x] = sessions[x]
      /\ loggedOut' = loggedOut \cup {s}
      /\ End(p)
      /\ UNCHANGED <<status, begun, expired, slots, created>>
  BY DEF RevokeOperatorSession
<1>2. audit' \in [Operators -> Counts]
  <2>1. audit' = [audit EXCEPT ![o] = [audit[o] EXCEPT !.logout = @ + 1]]
    BY <1>0 DEF RevokeOperatorSession, Typed
  <2>2. [audit[o] EXCEPT !.logout = @ + 1] \in Counts
    BY SMTT(30), <1>0 DEF Typed, Counts
  <2> QED BY <1>0, <2>1, <2>2 DEF Typed
<1>3. Sets(p, "idle", None, 0, {})
  BY <1>0, <1>1, EndSets
<1>4. Typed'
  BY <1>0, <1>1, <1>2, <1>3 DEF Typed, Sets
<1>5. Knows(p)' /\ \A q \in Procs \ {p} : Apart(p, q)'
  BY <1>3 DEF Sets, Knows, Apart, At
<1>6. ASSUME NEW q \in Procs \ {p} PROVE Knows(q)'
  <2>1. Knows(q) /\ Apart(p, q) /\ proc'[q] = proc[q]
    BY <1>3 DEF LocksInv, Sets
  <2>2. At(q, "deleted") => proc[q].session \in DOMAIN sessions'
    BY <1>0, <1>1, <2>1 DEF Knows, Apart
  <2> QED BY <1>0, <1>1, <2>1, <2>2, OtherKnows DEF Knows
<1> QED BY <1>3, <1>4, <1>5, <1>6, OneMoves DEF Sets

\* The operators change, or a session expires: no request moves.
LEMMA OthersKeepLocks ==
    ASSUME LocksInv,
           \/ \E o \in Operators : CreateOperator(o) \/ DisableOperator(o)
           \/ \E s \in SessionId : Expire(s)
    PROVE  LocksInv'
<1>0. Typed /\ proc' = proc /\ UNCHANGED <<begun, sessions, slots, history>>
  BY DEF LocksInv, CreateOperator, DisableOperator, Expire, tables
<1>1. /\ status' \in [Operators -> {"absent", "enabled", "disabled"}]
      /\ audit' \in [Operators -> Counts] /\ expired \subseteq expired' /\ expired' \subseteq Nat
      /\ \A q \in Procs : At(q, "locked") => status'[proc[q].op] = "enabled"
  <2>0. \A q \in Procs : At(q, "locked") => status[proc[q].op] = "enabled" /\ proc[q].op \in Operators
    BY DEF LocksInv, Knows, At
  <2>1. ASSUME NEW o \in Operators, CreateOperator(o)
        PROVE  /\ status' \in [Operators -> {"absent", "enabled", "disabled"}]
               /\ audit' \in [Operators -> Counts] /\ expired' = expired
               /\ \A q \in Procs : At(q, "locked") => status'[proc[q].op] = "enabled"
    <3>1. audit' = [audit EXCEPT ![o] = [audit[o] EXCEPT !.created = @ + 1]]
      BY <1>0, <2>1 DEF CreateOperator, Typed
    <3>2. [audit[o] EXCEPT !.created = @ + 1] \in Counts
      BY SMTT(30), <1>0 DEF Typed, Counts
    <3>3. audit' \in [Operators -> Counts]
      BY <1>0, <3>1, <3>2 DEF Typed
    <3> QED BY <1>0, <2>0, <2>1, <3>3 DEF CreateOperator, Typed
  <2>2. ASSUME NEW o \in Operators, DisableOperator(o)
        PROVE  /\ status' \in [Operators -> {"absent", "enabled", "disabled"}]
               /\ audit' = audit /\ expired' = expired
               /\ \A q \in Procs : At(q, "locked") => status'[proc[q].op] = "enabled"
    BY <1>0, <2>0, <2>2 DEF DisableOperator, Typed, LockedOperator
  <2>3. ASSUME NEW s \in SessionId, Expire(s)
        PROVE  /\ status' = status /\ audit' = audit
               /\ expired \subseteq expired' /\ expired' \subseteq Nat
    <3>1. status' = status /\ audit' = audit /\ expired' = expired \cup {s}
      BY <2>3 DEF Expire, tables, history
    <3>2. s \in Nat
      BY SessionIdNat
    <3> QED BY <1>0, <3>1, <3>2 DEF Typed
  <2> QED BY <1>0, <2>0, <2>1, <2>2, <2>3 DEF Typed
<1>2. Typed'
  BY <1>0, <1>1 DEF Typed, history
<1>3. ASSUME NEW q \in Procs PROVE Knows(q)'
  BY <1>0, <1>1, OtherKnows DEF LocksInv, history, Knows
<1>4. \A p, q \in Procs : p # q => Apart(p, q)'
  BY <1>0 DEF LocksInv, Apart, At
<1> QED BY <1>2, <1>3, <1>4 DEF LocksInv

LEMMA LocksStep == LocksInv /\ [Next]_vars => LocksInv'
<1> SUFFICES ASSUME LocksInv, [Next]_vars PROVE LocksInv'
  OBVIOUS
<1>1. CASE UNCHANGED vars
  BY <1>1 DEF vars, LocksInv, Typed, Knows, Apart, At
<1> QED BY <1>1, RequestKeepsLocks, LoginKeepsLocks, LogoutKeepsLocks, OthersKeepLocks DEF Next

\* The locks of the operator rows and of the session rows keep the requests apart:
\* a login that commits has a name of its own and an operator that is enabled, a
\* logout that commits has its session.
THEOREM LocksHold == Spec => []LocksInv
  BY LocksInit, LocksStep, PTL DEF Spec

\* CreateOperatorSession never creates a session for an operator that was disabled
\* after the password was verified.
THEOREM DisabledNeverGetsSession == Spec => DisabledGetsNoSession
<1>1. LocksInv /\ [Next]_vars
        => [\A s \in DOMAIN sessions' \ DOMAIN sessions : status[sessions'[s]] = "enabled"]_vars
  <2> SUFFICES ASSUME LocksInv, Next, NEW s \in DOMAIN sessions' \ DOMAIN sessions
               PROVE  status[sessions'[s]] = "enabled"
    OBVIOUS
  <2>1. PICK p \in Procs : CreateOperatorSession(p)
    BY DEF Next, CreateOperator, DisableOperator, TryAcquire, VerifyOperator, LockOperator,
           DeleteSession, RevokeOperatorSession, Fail, Authenticate, Expire, tables
  <2>2. s = proc[p].session /\ sessions'[s] = proc[p].op /\ At(p, "locked")
    BY <2>1 DEF CreateOperatorSession
  <2> QED BY <2>2 DEF LocksInv, Knows
<1> QED BY <1>1, LocksHold, PTL DEF Spec, DisabledGetsNoSession

-----------------------------------------------------------------------------
(* The bounds *)

LEMMA LeastOf ==
    ASSUME NEW S \in SUBSET Nat, S # {}
    PROVE  \E m \in S : \A x \in S : m <= x
<1> DEFINE Rel == OpToRel(<, Nat)
<1>1. IsWellFoundedOn(Rel, Nat)
  BY NatLessThanWellFounded
<1>2. \A x, m \in Nat : x < m => <<x, m>> \in Rel
  BY DEF OpToRel
<1> HIDE DEF Rel
<1>3. PICK m \in S : \A x \in S : ~(<<x, m>> \in Rel)
  BY <1>1, WFMin
<1>4. ASSUME NEW x \in S PROVE m <= x
  <2>1. x \in Nat /\ m \in Nat /\ ~(x < m)
    BY <1>2, <1>3
  <2> QED BY SMTT(30), <2>1
<1> QED BY <1>4

\* The n newest of a set are at most n.
LEMMA NewestBounded ==
    ASSUME NEW S \in SUBSET Nat, IsFiniteSet(S), NEW n \in Nat
    PROVE  IsFiniteSet(Newest(S, n)) /\ Cardinality(Newest(S, n)) <= n
<1> DEFINE T == Newest(S, n)
<1>1. T \subseteq S /\ IsFiniteSet(T)
  BY FS_Subset DEF Newest
<1>2. CASE T = {}
  BY SMTT(30), <1>2, FS_EmptySet
<1>3. CASE T # {}
  <2>1. PICK m \in T : \A x \in T : m <= x
    BY <1>1, <1>3, LeastOf
  <2> DEFINE U == {x \in S : x > m}
  <2>2. Cardinality(U) < n /\ IsFiniteSet(U) /\ T \ {m} \subseteq U
    <3>1. Cardinality(U) < n
      BY DEF Newest
    <3>2. ASSUME NEW x \in T \ {m} PROVE x \in U
      <4>1. x \in S /\ x \in Nat /\ m \in Nat /\ m <= x /\ x # m
        BY <1>1, <2>1, <3>2
      <4> QED BY SMTT(30), <4>1
    <3> QED BY <3>1, <3>2, FS_Subset
  <2> HIDE DEF T, U
  <2>3. Cardinality(T \ {m}) = Cardinality(T) - 1 /\ Cardinality(T \ {m}) <= Cardinality(U)
    BY <1>1, <2>2, FS_RemoveElement, FS_Subset
  <2>4. Cardinality(T) \in Nat /\ Cardinality(U) \in Nat
    BY <1>1, <2>2, FS_CardinalityType
  <2>5. Cardinality(T) <= n
    BY SMTT(30), <2>2, <2>3, <2>4
  <2> QED BY <1>1, <2>5 DEF T
<1> QED BY <1>2, <1>3

\* The sessions are finitely many.
LEMMA FinitelyMany ==
    ASSUME Typed
    PROVE  /\ IsFiniteSet(DOMAIN created) /\ DOMAIN created \subseteq Nat
           /\ \A S \in SUBSET DOMAIN created : IsFiniteSet(S) /\ Cardinality(S) \in Nat
<1>1. IsFiniteSet(1..begun) /\ 1..begun \subseteq Nat
  BY SMTT(30), FS_Interval DEF Typed
<1>2. IsFiniteSet(DOMAIN created) /\ DOMAIN created \subseteq Nat
  BY <1>1, FS_Subset DEF Typed
<1> QED BY <1>2, FS_Subset, FS_CardinalityType

\* Every step but a login leaves the sessions of an operator, or takes one away.
LEMMA SessionsStep ==
    ASSUME LocksInv, [Next]_vars
    PROVE  \/ /\ DOMAIN sessions' \subseteq DOMAIN sessions
              /\ \A s \in DOMAIN sessions' : sessions'[s] = sessions[s]
              /\ created' = created
           \/ \E p \in Procs : CreateOperatorSession(p)
<1>1. CASE sessions' = sessions /\ created' = created
  BY <1>1
<1>2. CASE \E p \in Procs : RevokeOperatorSession(p)
  BY <1>2 DEF RevokeOperatorSession
<1> QED BY <1>1, <1>2 DEF Next, vars, CreateOperator, DisableOperator, TryAcquire,
           VerifyOperator, LockOperator, DeleteSession, Fail, Authenticate, Expire, tables, history

BoundedInv == \A o \in Operators : Cardinality(SessionsOf(o)) <= MaxActive

LEMMA BoundedStep == LocksInv /\ BoundedInv /\ [Next]_vars => BoundedInv'
<1> SUFFICES ASSUME LocksInv, BoundedInv, [Next]_vars, NEW u \in Operators
             PROVE  Cardinality(SessionsOf(u)') <= MaxActive
  BY DEF BoundedInv
<1>0. /\ Typed /\ MaxActive \in Nat \ {0}
      /\ \A S \in SUBSET DOMAIN sessions : IsFiniteSet(S) /\ Cardinality(S) \in Nat
      /\ DOMAIN sessions \subseteq Nat
  BY FinitelyMany, SessionAssumption DEF LocksInv, Typed
<1>1. /\ IsFiniteSet(SessionsOf(u)) /\ Cardinality(SessionsOf(u)) \in Nat
      /\ Cardinality(SessionsOf(u)) <= MaxActive
  BY <1>0 DEF SessionsOf, BoundedInv
<1>2. ASSUME SessionsOf(u)' \subseteq SessionsOf(u)
      PROVE  Cardinality(SessionsOf(u)') <= MaxActive
  <2>1. Cardinality(SessionsOf(u)') <= Cardinality(SessionsOf(u)) /\ IsFiniteSet(SessionsOf(u)')
    BY <1>1, <1>2, FS_Subset
  <2>2. Cardinality(SessionsOf(u)') \in Nat
    BY <2>1, FS_CardinalityType
  <2> QED BY SMTT(30), <1>0, <1>1, <2>1, <2>2
<1>3. ASSUME NEW p \in Procs, CreateOperatorSession(p)
      PROVE  Cardinality(SessionsOf(u)') <= MaxActive
  <2> DEFINE o == proc[p].op
             s == proc[p].session
             R == Retained(o, proc[p].seen)
  <2>1. /\ DOMAIN sessions' = (DOMAIN sessions \ (SessionsOf(o) \ R)) \cup {s}
        /\ \A x \in DOMAIN sessions' : sessions'[x] = IF x = s THEN o ELSE sessions[x]
    BY <1>3 DEF CreateOperatorSession
  <2>2. CASE u # o
    <3>1. SessionsOf(u)' \subseteq SessionsOf(u)
      BY <2>1, <2>2 DEF SessionsOf
    <3> QED BY <1>2, <3>1
  <2>3. CASE u = o
    <3>1. IsFiniteSet(R) /\ Cardinality(R) <= MaxActive - 1
      <4>1. /\ SessionsOf(o) \ proc[p].seen \in SUBSET Nat
            /\ IsFiniteSet(SessionsOf(o) \ proc[p].seen) /\ MaxActive - 1 \in Nat
        BY SMTT(30), <1>0 DEF SessionsOf
      <4> QED BY <4>1, NewestBounded DEF Retained
    <3>2. SessionsOf(u)' \subseteq R \cup {s}
      BY <2>1, <2>3 DEF SessionsOf
    <3> HIDE DEF R, s
    <3>3. /\ IsFiniteSet(R \cup {s}) /\ Cardinality(R) \in Nat
          /\ Cardinality(R \cup {s}) <= Cardinality(R) + 1
      <4>1. Cardinality(R) \in Nat
        BY <3>1, FS_CardinalityType
      <4>2. /\ IsFiniteSet(R \cup {s})
            /\ Cardinality(R \cup {s}) \in {Cardinality(R), Cardinality(R) + 1}
        BY <3>1, FS_AddElement
      <4> QED BY SMTT(30), <4>1, <4>2
    <3>4. IsFiniteSet(SessionsOf(u)') /\ Cardinality(SessionsOf(u)') <= Cardinality(R \cup {s})
      BY <3>2, <3>3, FS_Subset
    <3>5. Cardinality(SessionsOf(u)') \in Nat /\ Cardinality(R \cup {s}) \in Nat
      BY <3>3, <3>4, FS_CardinalityType
    <3> QED BY SMTT(30), <1>0, <3>1, <3>3, <3>4, <3>5
  <2> QED BY <2>2, <2>3
<1>4. ASSUME DOMAIN sessions' \subseteq DOMAIN sessions,
             \A s \in DOMAIN sessions' : sessions'[s] = sessions[s]
      PROVE  Cardinality(SessionsOf(u)') <= MaxActive
  <2>1. SessionsOf(u)' \subseteq SessionsOf(u)
    BY <1>4 DEF SessionsOf
  <2> QED BY <1>2, <2>1
<1> QED BY <1>3, <1>4, SessionsStep

\* A request changes its place, and the limiter counts it.
LEMMA OneLogin ==
    ASSUME SlotsInv, NEW p \in Procs, \A q \in Procs \ {p} : proc'[q] = proc[q],
           slots' = IF p \in Logins
                    THEN IF p \in Logins' THEN slots ELSE slots - 1
                    ELSE IF p \in Logins' THEN slots + 1 ELSE slots
    PROVE  SlotsInv'
<1>1. \A q \in Procs \ {p} : q \in Logins' <=> q \in Logins
  BY DEF Logins
<1>2. Logins' \subseteq Procs /\ Logins \subseteq Procs
  BY DEF Logins
<1>3. Logins' = IF p \in Logins' THEN Logins \cup {p} ELSE Logins \ {p}
  BY <1>1, <1>2
<1> HIDE DEF Logins
<1>4. CASE p \in Logins'
  <2>1. Logins' = Logins \cup {p} /\ IsFiniteSet(Logins)
    BY <1>3, <1>4 DEF SlotsInv
  <2>2. /\ IsFiniteSet(Logins')
        /\ Cardinality(Logins') = IF p \in Logins THEN Cardinality(Logins)
                                                  ELSE Cardinality(Logins) + 1
    BY <2>1, FS_AddElement
  <2> QED BY <1>4, <2>2 DEF SlotsInv
<1>5. CASE p \notin Logins'
  <2>1. Logins' = Logins \ {p} /\ IsFiniteSet(Logins)
    BY <1>3, <1>5 DEF SlotsInv
  <2>2. /\ IsFiniteSet(Logins')
        /\ Cardinality(Logins') = IF p \in Logins THEN Cardinality(Logins) - 1
                                                  ELSE Cardinality(Logins)
    BY <2>1, FS_RemoveElement
  <2> QED BY <1>5, <2>2 DEF SlotsInv
<1> QED BY <1>4, <1>5

LEMMA SlotsStep == LocksInv /\ SlotsInv /\ [Next]_vars => SlotsInv'
<1> SUFFICES ASSUME LocksInv, SlotsInv, [Next]_vars PROVE SlotsInv'
  OBVIOUS
<1>0. Typed
  BY DEF LocksInv
<1>1. CASE proc' = proc /\ slots' = slots
  BY <1>1 DEF SlotsInv, Logins
<1>2. ASSUME NEW p \in Procs, End(p), proc[p].pc \in Places,
             slots' = IF proc[p].pc \in LoginPlaces THEN slots - 1 ELSE slots
      PROVE  SlotsInv'
  <2>1. Sets(p, "idle", None, 0, {})
    BY <1>0, <1>2, EndSets
  <2>2. p \notin Logins' /\ (p \in Logins <=> proc[p].pc \in LoginPlaces)
    BY <2>1 DEF Sets, Logins, LoginPlaces
  <2> QED BY <1>2, <2>1, <2>2, OneLogin DEF Sets
<1>3. \A p \in Procs : proc[p].pc \in Places
  BY <1>0 DEF Typed, Proc
<1>4. ASSUME NEW p \in Procs, NEW o \in Operators, TryAcquire(p, o) PROVE SlotsInv'
  <2>1. Sets(p, "login", o, 0, {}) /\ slots' = slots + 1 /\ proc[p].pc = "idle"
    BY <1>0, <1>4, RequestSets DEF TryAcquire, Places, At
  <2>2. p \notin Logins /\ p \in Logins'
    BY <2>1 DEF Sets, Logins, LoginPlaces
  <2> QED BY <2>1, <2>2, OneLogin DEF Sets
<1>5. ASSUME NEW p \in Procs, VerifyOperator(p) PROVE SlotsInv'
  <2>1. CASE EndLogin(p)
    BY <1>2, <1>3, <1>5, <2>1 DEF VerifyOperator, EndLogin, At, LoginPlaces
  <2>2. CASE BeginLogin(p) /\ UNCHANGED slots
    <3>1. Sets(p, "begun", proc[p].op, begun + 1, expired) /\ slots' = slots
      BY <1>0, <2>2, BeginSets
    <3>2. p \in Logins /\ p \in Logins'
      BY <1>5, <3>1 DEF Sets, Logins, LoginPlaces, VerifyOperator, At
    <3> QED BY <3>1, <3>2, OneLogin DEF Sets
  <2> QED BY <1>5, <2>1, <2>2 DEF VerifyOperator
<1>6. ASSUME NEW p \in Procs, LockOperator(p) PROVE SlotsInv'
  <2>1. CASE EndLogin(p)
    BY <1>2, <1>3, <1>6, <2>1 DEF LockOperator, EndLogin, At, LoginPlaces
  <2>2. CASE GoTo(p, "locked") /\ UNCHANGED slots
    <3>1. Sets(p, "locked", proc[p].op, proc[p].session, proc[p].seen) /\ slots' = slots
      BY <1>0, <2>2, GoToSets DEF Places
    <3>2. p \in Logins /\ p \in Logins'
      BY <1>6, <3>1 DEF Sets, Logins, LoginPlaces, LockOperator, At
    <3> QED BY <3>1, <3>2, OneLogin DEF Sets
  <2> QED BY <1>6, <2>1, <2>2 DEF LockOperator
<1>7. ASSUME NEW p \in Procs, CreateOperatorSession(p) PROVE SlotsInv'
  BY <1>2, <1>3, <1>7 DEF CreateOperatorSession, EndLogin, At, LoginPlaces
<1>8. ASSUME NEW p \in Procs, DeleteSession(p) PROVE SlotsInv'
  <2>1. CASE End(p)
    BY <1>2, <1>3, <1>8, <2>1 DEF DeleteSession, At, LoginPlaces
  <2>2. CASE GoTo(p, "deleted")
    <3>1. Sets(p, "deleted", proc[p].op, proc[p].session, proc[p].seen) /\ slots' = slots
      BY <1>0, <1>8, <2>2, GoToSets DEF Places, DeleteSession
    <3>2. p \notin Logins /\ p \notin Logins'
      BY <1>8, <3>1 DEF Sets, Logins, LoginPlaces, DeleteSession, At
    <3> QED BY <3>1, <3>2, OneLogin DEF Sets
  <2> QED BY <1>8, <2>1, <2>2 DEF DeleteSession
<1>9. ASSUME NEW p \in Procs, RevokeOperatorSession(p) PROVE SlotsInv'
  BY <1>2, <1>3, <1>9 DEF RevokeOperatorSession, At, LoginPlaces
<1>10. ASSUME NEW p \in Procs, Fail(p) PROVE SlotsInv'
  BY <1>2, <1>3, <1>10 DEF Fail, At, LoginPlaces, Places
<1>11. ASSUME NEW p \in Procs, NEW s \in SessionId, Authenticate(p, s) PROVE SlotsInv'
  <2>1. s \in Nat /\ sessions[s] \in Operators
    BY SMTT(30), <1>0, <1>11 DEF Authenticate, FindOperatorSession, Typed
  <2>2. Sets(p, "logout", sessions[s], s, {}) /\ slots' = slots
    BY <1>0, <1>11, <2>1, RequestSets DEF Authenticate, Places
  <2>3. p \notin Logins /\ p \notin Logins'
    BY <1>11, <2>2 DEF Sets, Logins, LoginPlaces, Authenticate, At
  <2> QED BY <2>2, <2>3, OneLogin DEF Sets
<1>12. CASE \/ \E o \in Operators : CreateOperator(o) \/ DisableOperator(o)
            \/ \E s \in SessionId : Expire(s)
  BY <1>1, <1>12 DEF CreateOperator, DisableOperator, Expire
<1>13. CASE UNCHANGED vars
  BY <1>1, <1>13 DEF vars
<1> QED BY <1>4, <1>5, <1>6, <1>7, <1>8, <1>9, <1>10, <1>11, <1>12, <1>13 DEF Next

\* An operator never has more sessions than CreateOperatorSession allows, and the
\* limiter counts exactly the logins that run.
THEOREM SessionsStayBounded == Spec => []SessionsBounded
<1>1. Init => BoundedInv /\ SlotsInv
  <2> SUFFICES ASSUME Init PROVE BoundedInv /\ SlotsInv
    OBVIOUS
  <2>1. \A o \in Operators : SessionsOf(o) = {}
    BY SMTT(30) DEF Init, SessionsOf
  <2>2. Idle.pc = "idle"
    BY DEF Idle
  <2> HIDE DEF Idle
  <2>3. Logins = {} /\ slots = 0
    BY <2>2 DEF Init, Logins, LoginPlaces
  <2> QED BY SMTT(30), <2>1, <2>3, FS_EmptySet, SessionAssumption DEF BoundedInv, SlotsInv
<1>2. BoundedInv /\ SlotsInv => SessionsBounded
  BY DEF BoundedInv, SlotsInv, SessionsBounded, Logins
<1> QED BY <1>1, <1>2, BoundedStep, SlotsStep, LocksHold, PTL DEF Spec

-----------------------------------------------------------------------------
(* No session ends too early *)

Later(s) == {x \in DOMAIN created : x > s /\ created[x] = created[s]}

\* A login deletes a session only if it had expired when the transaction began, or
\* if there are as many later ones as it retains.
LEMMA PrunedOld ==
    ASSUME LocksInv, NEW p \in Procs, CreateOperatorSession(p),
           NEW s \in DOMAIN sessions, s \notin DOMAIN sessions'
    PROVE  s \in expired \/ Cardinality(Later(s)) >= MaxActive - 1
<1> DEFINE o == proc[p].op
           S == SessionsOf(o) \ proc[p].seen
           L == {x \in S : x > s}
<1>0. Typed /\ proc[p].seen \subseteq expired /\ MaxActive \in Nat
  BY SessionAssumption DEF LocksInv, Knows, CreateOperatorSession, At
<1>1. s \in SessionsOf(o) /\ s \notin Newest(S, MaxActive - 1)
  BY DEF CreateOperatorSession, Retained
<1>2. CASE s \in proc[p].seen
  BY <1>0, <1>2
<1>3. CASE s \notin proc[p].seen
  <2>1. ~(Cardinality(L) < MaxActive - 1)
    BY <1>1, <1>3 DEF Newest
  <2>2. L \subseteq Later(s) /\ Later(s) \subseteq DOMAIN created
    BY <1>0, <1>1 DEF SessionsOf, Later, Typed
  <2>3. /\ IsFiniteSet(L) /\ IsFiniteSet(Later(s)) /\ Cardinality(L) <= Cardinality(Later(s))
        /\ Cardinality(L) \in Nat /\ Cardinality(Later(s)) \in Nat
    BY <1>0, <2>2, FinitelyMany, FS_Subset, FS_CardinalityType
  <2> HIDE DEF L
  <2> QED BY SMTT(30), <1>0, <2>1, <2>3
<1> QED BY <1>2, <1>3

LEMMA SurviveStep ==
    LocksInv /\ RecentSessionsSurvive /\ [Next]_vars => RecentSessionsSurvive'
<1> SUFFICES ASSUME LocksInv, RecentSessionsSurvive, [Next]_vars,
                    NEW s \in DOMAIN created' \ DOMAIN sessions',
                    s \notin expired' \cup loggedOut'
             PROVE  Cardinality(Later(s)') >= MaxActive - 1
  BY DEF RecentSessionsSurvive, Later
<1>0. Typed /\ MaxActive \in Nat
  BY SessionAssumption DEF LocksInv
<1>1. expired \subseteq expired' /\ loggedOut \subseteq loggedOut'
  BY DEF Next, vars, CreateOperator, DisableOperator, TryAcquire, VerifyOperator, LockOperator,
         CreateOperatorSession, DeleteSession, RevokeOperatorSession, Fail, Authenticate, Expire,
         tables, history
<1>2. /\ DOMAIN created \subseteq DOMAIN created'
      /\ \A x \in DOMAIN created : created'[x] = created[x]
  <2>1. ASSUME NEW p \in Procs, CreateOperatorSession(p)
        PROVE  /\ DOMAIN created \subseteq DOMAIN created'
               /\ \A x \in DOMAIN created : created'[x] = created[x]
    <3>1. proc[p].session \notin DOMAIN created
      BY <2>1 DEF LocksInv, Knows, CreateOperatorSession, At
    <3> QED BY <2>1, <3>1 DEF CreateOperatorSession
  <2> QED BY <2>1, SessionsStep
<1>3. s \in DOMAIN created
  <2>1. ASSUME NEW p \in Procs, CreateOperatorSession(p) PROVE s \in DOMAIN created
    BY <2>1 DEF CreateOperatorSession
  <2> QED BY <2>1, SessionsStep
<1>4. Cardinality(Later(s)) >= MaxActive - 1
  <2>1. CASE s \notin DOMAIN sessions
    BY <1>1, <1>3, <2>1 DEF RecentSessionsSurvive, Later
  <2>2. CASE s \in DOMAIN sessions
    <3>1. CASE \E p \in Procs : CreateOperatorSession(p)
      BY <1>1, <2>2, <3>1, PrunedOld
    <3>2. CASE \E p \in Procs : RevokeOperatorSession(p)
      BY <2>2, <3>2 DEF RevokeOperatorSession
    <3>3. CASE sessions' = sessions
      BY <2>2, <3>3
    <3> QED BY <3>1, <3>2, <3>3 DEF Next, vars, CreateOperator, DisableOperator, TryAcquire,
             VerifyOperator, LockOperator, DeleteSession, Fail, Authenticate, Expire, tables
  <2> QED BY <2>1, <2>2
<1>5. Later(s) \subseteq Later(s)'
  BY <1>2, <1>3 DEF Later
<1>6. IsFiniteSet(Later(s)') /\ Cardinality(Later(s)') \in Nat
  <2>1. Typed'
    BY LocksStep DEF LocksInv
  <2>2. IsFiniteSet(DOMAIN created')
    <3>1. IsFiniteSet(1..begun')
      BY SMTT(30), <2>1, FS_Interval DEF Typed
    <3> QED BY <2>1, <3>1, FS_Subset DEF Typed
  <2>3. Later(s)' \subseteq DOMAIN created'
    BY DEF Later
  <2> QED BY <2>2, <2>3, FS_Subset, FS_CardinalityType
<1>7. Cardinality(Later(s)) <= Cardinality(Later(s)') /\ Cardinality(Later(s)) \in Nat
  BY <1>5, <1>6, FS_Subset, FS_CardinalityType
<1> QED BY SMTT(30), <1>0, <1>4, <1>6, <1>7

\* A login ends no session too early: one that is gone had expired, was logged out,
\* or gave way to as many later logins of the operator as are retained.
THEOREM RecentSessionsAlwaysSurvive == Spec => []RecentSessionsSurvive
<1>1. Init => RecentSessionsSurvive
  BY DEF Init, RecentSessionsSurvive
<1> QED BY <1>1, SurviveStep, LocksHold, PTL DEF Spec

-----------------------------------------------------------------------------
(* The audit log *)

AuditOf(o) ==
    /\ audit[o].created = IF status[o] = "absent" THEN 0 ELSE 1
    /\ audit[o].login = Cardinality(CreatedFor(o))
    /\ audit[o].logout = Cardinality(LoggedOutOf(o))

AuditInv == \A o \in Operators : AuditOf(o)

LEMMA AuditStep == LocksInv /\ AuditInv /\ [Next]_vars => AuditInv'
<1> SUFFICES ASSUME LocksInv, AuditInv, [Next]_vars, NEW u \in Operators
             PROVE  AuditOf(u)'
  BY DEF AuditInv
<1>0. /\ Typed /\ AuditOf(u) /\ audit[u] \in Counts
      /\ IsFiniteSet(CreatedFor(u)) /\ IsFiniteSet(LoggedOutOf(u))
  <2>1. Typed /\ AuditOf(u)
    BY DEF LocksInv, AuditInv
  <2>2. CreatedFor(u) \subseteq DOMAIN created /\ LoggedOutOf(u) \subseteq DOMAIN created
    BY <2>1 DEF CreatedFor, LoggedOutOf, Typed
  <2> QED BY <2>1, <2>2, FinitelyMany DEF Typed
<1>1. CASE UNCHANGED <<status, audit, created, loggedOut>>
  BY <1>0, <1>1 DEF AuditOf, CreatedFor, LoggedOutOf
<1>2. ASSUME NEW o \in Operators, CreateOperator(o) PROVE AuditOf(u)'
  <2>1. /\ CreatedFor(u)' = CreatedFor(u) /\ LoggedOutOf(u)' = LoggedOutOf(u)
    BY <1>2 DEF CreateOperator, CreatedFor, LoggedOutOf, history
  <2>2. CASE u = o
    <3>1. audit' = [audit EXCEPT ![o] = [audit[o] EXCEPT !.created = @ + 1]]
      BY <1>0, <1>2 DEF CreateOperator, Typed
    <3>2. /\ audit'[u].created = audit[u].created + 1 /\ audit'[u].login = audit[u].login
          /\ audit'[u].logout = audit[u].logout
      BY <1>0, <2>2, <3>1 DEF Typed, Counts
    <3>3. status[u] = "absent" /\ status'[u] = "enabled"
      BY <1>0, <1>2, <2>2 DEF CreateOperator, Typed
    <3> QED BY SMTT(30), <1>0, <2>1, <3>2, <3>3 DEF AuditOf
  <2>3. CASE u # o
    <3>1. audit'[u] = audit[u] /\ status'[u] = status[u]
      BY <1>0, <1>2, <2>3 DEF CreateOperator, Typed
    <3> QED BY <1>0, <2>1, <3>1 DEF AuditOf
  <2> QED BY <2>2, <2>3
<1>3. ASSUME NEW o \in Operators, DisableOperator(o) PROVE AuditOf(u)'
  <2>1. /\ CreatedFor(u)' = CreatedFor(u) /\ LoggedOutOf(u)' = LoggedOutOf(u)
        /\ audit' = audit
    BY <1>3 DEF DisableOperator, CreatedFor, LoggedOutOf, history
  <2>2. status'[u] = "absent" <=> status[u] = "absent"
    BY <1>0, <1>3 DEF DisableOperator, Typed
  <2> QED BY <1>0, <2>1, <2>2 DEF AuditOf
<1>4. ASSUME NEW p \in Procs, CreateOperatorSession(p) PROVE AuditOf(u)'
  <2> DEFINE o == proc[p].op
             s == proc[p].session
  <2>1. /\ o \in Operators /\ s \notin DOMAIN created /\ status' = status
        /\ DOMAIN created' = DOMAIN created \cup {s}
        /\ \A x \in DOMAIN created' : created'[x] = IF x = s THEN o ELSE created[x]
        /\ loggedOut' = loggedOut
    BY <1>4 DEF CreateOperatorSession, LocksInv, Knows, At
  <2>2. audit' = [audit EXCEPT ![o] = [audit[o] EXCEPT !.login = @ + 1]]
    BY <1>0, <1>4 DEF CreateOperatorSession, Typed
  <2>3. LoggedOutOf(u)' = LoggedOutOf(u)
    BY <1>0, <2>1 DEF LoggedOutOf, Typed
  <2>4. CASE u = o
    <3>1. CreatedFor(u)' = CreatedFor(u) \cup {s} /\ s \notin CreatedFor(u)
      BY <2>1, <2>4 DEF CreatedFor
    <3>2. Cardinality(CreatedFor(u)') = Cardinality(CreatedFor(u)) + 1
      BY <1>0, <3>1, FS_AddElement
    <3>3. /\ audit'[u].created = audit[u].created /\ audit'[u].login = audit[u].login + 1
          /\ audit'[u].logout = audit[u].logout
      BY <1>0, <2>2, <2>4 DEF Typed, Counts
    <3> QED BY <1>0, <2>1, <2>3, <3>2, <3>3 DEF AuditOf
  <2>5. CASE u # o
    <3>1. CreatedFor(u)' = CreatedFor(u)
      BY <2>1, <2>5 DEF CreatedFor
    <3>2. audit'[u] = audit[u]
      BY <1>0, <2>2, <2>5 DEF Typed
    <3> QED BY <1>0, <2>1, <2>3, <3>1, <3>2 DEF AuditOf
  <2> QED BY <2>4, <2>5
<1>5. ASSUME NEW p \in Procs, RevokeOperatorSession(p) PROVE AuditOf(u)'
  <2> DEFINE o == proc[p].op
             s == proc[p].session
  <2>1. /\ o \in Operators /\ s \notin loggedOut /\ created[s] = o
        /\ status' = status /\ created' = created /\ loggedOut' = loggedOut \cup {s}
    BY <1>0, <1>5 DEF RevokeOperatorSession, LocksInv, Knows, At, Typed
  <2>2. audit' = [audit EXCEPT ![o] = [audit[o] EXCEPT !.logout = @ + 1]]
    BY <1>0, <1>5 DEF RevokeOperatorSession, Typed
  <2>3. CreatedFor(u)' = CreatedFor(u)
    BY <2>1 DEF CreatedFor
  <2>4. CASE u = o
    <3>1. LoggedOutOf(u)' = LoggedOutOf(u) \cup {s} /\ s \notin LoggedOutOf(u)
      BY <2>1, <2>4 DEF LoggedOutOf
    <3>2. Cardinality(LoggedOutOf(u)') = Cardinality(LoggedOutOf(u)) + 1
      BY <1>0, <3>1, FS_AddElement
    <3>3. /\ audit'[u].created = audit[u].created /\ audit'[u].login = audit[u].login
          /\ audit'[u].logout = audit[u].logout + 1
      BY <1>0, <2>2, <2>4 DEF Typed, Counts
    <3> QED BY <1>0, <2>1, <2>3, <3>2, <3>3 DEF AuditOf
  <2>5. CASE u # o
    <3>1. LoggedOutOf(u)' = LoggedOutOf(u)
      BY <2>1, <2>5 DEF LoggedOutOf
    <3>2. audit'[u] = audit[u]
      BY <1>0, <2>2, <2>5 DEF Typed
    <3> QED BY <1>0, <2>1, <2>3, <3>1, <3>2 DEF AuditOf
  <2> QED BY <2>4, <2>5
<1> QED BY <1>1, <1>2, <1>3, <1>4, <1>5 DEF Next, vars, TryAcquire, VerifyOperator,
           LockOperator, DeleteSession, Fail, Authenticate, Expire, tables, history

\* One audit event per operator, one per login that committed and one per session
\* that a logout ended; and a session that was logged out is gone.
THEOREM AuditAlwaysTellsSessions == Spec => []AuditTellsSessions
<1>1. Init => AuditInv
  <2> SUFFICES ASSUME Init, NEW o \in Operators PROVE AuditOf(o)
    BY DEF AuditInv
  <2>1. CreatedFor(o) = {} /\ LoggedOutOf(o) = {}
    BY SMTT(30) DEF Init, CreatedFor, LoggedOutOf
  <2>2. /\ audit[o].created = 0 /\ audit[o].login = 0 /\ audit[o].logout = 0
        /\ status[o] = "absent"
    BY DEF Init
  <2> QED BY <2>1, <2>2, FS_EmptySet DEF AuditOf
<1>2. LocksInv /\ AuditInv => AuditTellsSessions
  BY DEF LocksInv, Typed, AuditInv, AuditOf, AuditTellsSessions, CreatedFor, LoggedOutOf
<1> QED BY <1>1, <1>2, AuditStep, LocksHold, PTL DEF Spec

=============================================================================
