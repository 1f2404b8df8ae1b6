---------------------------- MODULE AgentReports ----------------------------
(***************************************************************************)
(* The clock side of the agent's daemon: the loop of internal/agent's      *)
(* presence.go with its client certificate, back-off and schedule, the     *)
(* inventory and telemetry reports it sends, and what the controller's     *)
(* handlers answer and store.  (JobDispatch has the jobs; here a job only  *)
(* takes time.)                                                            *)
(*                                                                         *)
(* Time is relative to the present: age is how long ago the certificate    *)
(* was built, next how long until the inventory is due, late how long an   *)
(* abandoned request may still be handled.  A step of the daemon takes     *)
(* some time, at most the timeout of the request that it makes.            *)
(***************************************************************************)
EXTENDS Integers

CONSTANTS
    Lifetime, Backdate,     \* of a certificate: NotAfter, NotBefore
    RefreshMargin,          \* DefaultCertRefreshMargin
    MaxSkew,                \* the controller's clock against the agent's
    tHeartbeat, tJob, tInventory, tTelemetry,   \* client timeouts
    HandlerLife,            \* how long a request is handled, at most
    Interval, MaxBackoff, InventoryInterval, InventoryRetry,
    Tenth                   \* the jitter is one part in Tenth

jitter(d) == (d - d \div Tenth)..(d + d \div Tenth)

\* The requests of one turn of the loop, each at its timeout.
Turn == tHeartbeat + 3 * tJob + tInventory + tTelemetry

ASSUME ClockAssumption ==
    /\ {Lifetime, Backdate, RefreshMargin, MaxSkew, tHeartbeat, tJob, tInventory, tTelemetry,
        HandlerLife, Interval, MaxBackoff, InventoryInterval, InventoryRetry} \subseteq Nat
    /\ Tenth \in Nat \ {0}
    /\ RefreshMargin < Lifetime
    /\ Turn + MaxSkew <= RefreshMargin
    /\ MaxSkew <= Backdate
    /\ HandlerLife < Interval - Interval \div Tenth

VARIABLES
    pc,             \* where the loop is
    age,            \* of the certificate; Lifetime when there is none
    skew,           \* the controller's clock minus the agent's
    failures,       \* consecutiveFailures, up to the 6 that computeBackoff tells apart
    next,           \* until nextInventoryAt; 0 when the inventory is due
    store,          \* by kind of report, the row: "none", "current" or "older"
                    \* than the report sent last
    late,           \* by kind, how long an abandoned request may still be handled
    newer,          \* by kind, whether a report was sent after the abandoned one
    known,          \* the agent has a row in stackpilot.agents
    compatible,     \* the protocol versions agree
    healthy,        \* network, controller, database and /proc do their work
    cause           \* the answer or error that stopped the daemon

clock == <<age, next, late>>
world == <<skew, known, compatible, healthy>>
vars == <<pc, clock, world, failures, store, newer, cause>>

Kinds == {"inventory", "telemetry"}

Init ==
    /\ pc = "load"
    /\ age = Lifetime
    /\ skew \in (0 - MaxSkew)..MaxSkew
    /\ failures = 0
    /\ next = 0
    /\ store = [k \in Kinds |-> "none"]
    /\ late = [k \in Kinds |-> 0]
    /\ newer = [k \in Kinds |-> FALSE]
    /\ known = TRUE
    /\ compatible = TRUE
    /\ healthy \in BOOLEAN
    /\ cause = "none"

Less(t, d) == IF t > d THEN t - d ELSE 0

\* d units of time pass.
Pass(d) ==
    /\ age' = age + d
    /\ next' = Less(next, d)
    /\ late' = [k \in Kinds |-> Less(late[k], d)]

Continue(l) == pc' = l /\ UNCHANGED cause

\* The daemon returns an error.
Stop(why) == pc' = "stopped" /\ cause' = why

-----------------------------------------------------------------------------
(* The controller's handlers *)

\* extractAuthenticatedPeerPublicKey, a units after the certificate was built.
CertificateValid(a) == a + skew >= 0 - Backdate /\ a + skew <= Lifetime

\* What the handlers answer then: certificate, version, agent, in this order.
Status(a) ==
    IF ~CertificateValid(a) THEN "unauthorized"
    ELSE IF ~compatible THEN "conflict"
    ELSE IF ~known THEN "unauthorized"
    ELSE "ok"

\* What the daemon may get for a request that takes d: an answer given at some time
\* on the way or, if not all is well, an error status or no answer at all.
Answers(d) ==
    {Status(age + t) : t \in 0..d} \cup (IF healthy THEN {} ELSE {"error", "lost"})

\* RecordAgentInventory and RecordAgentTelemetry replace the row by what they are
\* given.  A request without an answer may still be handled.
Deliver(k, d, answer) ==
    /\ store' = [store EXCEPT ![k] = IF answer = "ok" THEN "current"
                                     ELSE IF @ = "none" THEN "none" ELSE "older"]
    /\ newer' = [newer EXCEPT ![k] = late[k] > 0]
    /\ age' = age + d
    /\ \E life \in 0..Less(HandlerLife, d) :
        late' = [x \in Kinds |-> IF x = k /\ late[x] = 0 /\ answer = "lost" THEN life
                                 ELSE Less(late[x], d)]

\* The abandoned request is handled after all.
HandleLate(k) ==
    /\ late[k] > 0
    /\ known
    /\ store' = [store EXCEPT ![k] = IF newer[k] THEN "older" ELSE "current"]
    /\ late' = [late EXCEPT ![k] = 0]
    /\ UNCHANGED <<pc, age, next, world, failures, newer, cause>>

-----------------------------------------------------------------------------
(* The loop *)

\* runPresenceWithConfig loads the identity, the trust roots and the key.
Load ==
    /\ pc = "load"
    /\ Continue("client") \/ Stop("identity")
    /\ UNCHANGED <<clock, world, failures, store, newer>>

\* Fault: the certificate is replaced when it has expired.
getClient_AtExpiry ==
    /\ pc = "client"
    /\ \/ age < Lifetime /\ Continue("heartbeat") /\ UNCHANGED age
       \/ age >= Lifetime /\ Continue("heartbeat") /\ age' = 0
       \/ age >= Lifetime /\ Stop("key") /\ UNCHANGED age
    /\ UNCHANGED <<next, late, world, failures, store, newer>>

\* certManager.getClient: one client for the turn.
getClient ==
    /\ pc = "client"
    /\ \/ age < Lifetime - RefreshMargin /\ Continue("heartbeat") /\ UNCHANGED age
       \/ age >= Lifetime - RefreshMargin /\ Continue("heartbeat") /\ age' = 0
       \/ age >= Lifetime - RefreshMargin /\ Stop("key") /\ UNCHANGED age
    /\ UNCHANGED <<next, late, world, failures, store, newer>>

\* Fault: an error status stops the daemon, too.
Permanent_Errors(answer) == answer \in {"unauthorized", "conflict", "error"}

\* IsPermanentError, for heartbeats and reports.
Permanent(answer) == answer \in {"unauthorized", "conflict"}

sendHeartbeat(d, answer) ==
    /\ pc = "heartbeat"
    /\ answer \in Answers(d)
    /\ Pass(d)
    /\ IF answer = "ok" THEN failures' = 0 /\ Continue("pending")
       ELSE IF Permanent(answer) THEN Stop(answer) /\ UNCHANGED failures
       ELSE failures' = (IF failures < 6 THEN failures + 1 ELSE 6) /\ Continue("backoff")
    /\ UNCHANGED <<world, store, newer>>

\* The answer brings a job, and its body breaks off: a permanent error.
HeartbeatBodyFails(d) ==
    /\ pc = "heartbeat"
    /\ ~healthy
    /\ "ok" \in Answers(d)
    /\ Pass(d)
    /\ Stop("body")
    /\ UNCHANGED <<world, failures, store, newer>>

Shorter(a, b) == IF a < b THEN a ELSE b

\* One second, doubled with every failure up to the shift of 5.
Base(n) == IF n > 1 THEN <<2, 4, 8, 16, 32>>[n - 1] ELSE 1

\* Limited before and after the jitter, and not negative.
computeBackoff(n) ==
    {Less(Shorter(b, MaxBackoff), 0) : b \in jitter(Shorter(Base(n), MaxBackoff))}

\* The requests about jobs: a completion kept from earlier, then start and complete
\* of an assignment.  A conflict is about the job and stops nothing.
JobRequest(d, answer) ==
    /\ pc \in {"pending", "start", "complete"}
    /\ answer \in Answers(d) \cup {"conflict"}
    /\ Pass(d)
    /\ CASE answer = "unauthorized" -> Stop(answer)
         [] pc = "start" /\ answer = "ok" -> Continue("complete")
         [] pc = "pending" /\ answer \in {"ok", "conflict"} -> Continue("start") \/ Continue("inventory")
         [] OTHER -> Continue("inventory")
    /\ UNCHANGED <<world, failures, store, newer>>

\* No completion was kept, or there is no assignment.
NoJobRequest ==
    /\ \/ pc = "pending" /\ Continue("start")
       \/ pc = "start" /\ Continue("inventory")
    /\ UNCHANGED <<clock, world, failures, store, newer>>

\* The inventory is not due, or cannot be collected.
SkipInventory(w) ==
    /\ pc = "inventory"
    /\ \/ next > 0 /\ w = 0 /\ UNCHANGED next
       \/ next = 0 /\ ~healthy /\ w \in jitter(InventoryRetry) /\ next' = w
    /\ Continue("telemetry")
    /\ UNCHANGED <<age, late, world, failures, store, newer>>

\* Fault: a report that failed waits for its next turn.
sendInventory_NoRetry(d, answer, w) ==
    /\ pc = "inventory"
    /\ next = 0
    /\ answer \in Answers(d)
    /\ Deliver("inventory", d, answer)
    /\ w \in jitter(InventoryInterval) /\ next' = Less(w, d)
    /\ IF Permanent(answer) THEN Stop(answer) ELSE Continue("telemetry")
    /\ UNCHANGED <<world, failures>>

\* The next report is counted from before the request.
sendInventory(d, answer, w) ==
    /\ pc = "inventory"
    /\ next = 0
    /\ answer \in Answers(d)
    /\ Deliver("inventory", d, answer)
    /\ IF Permanent(answer) THEN Stop(answer) /\ w = 0 /\ UNCHANGED next
       ELSE /\ w \in jitter(IF answer = "ok" THEN InventoryInterval ELSE InventoryRetry)
            /\ next' = Less(w, d)
            /\ Continue("telemetry")
    /\ UNCHANGED <<world, failures>>

\* The sampler has nothing to report, or cannot read a file.
SkipTelemetry ==
    /\ pc = "telemetry"
    /\ Continue("wait")
    /\ UNCHANGED <<clock, world, failures, store, newer>>

\* Fault: after a failure the daemon does not wait.
sendTelemetry_AtOnce(d, answer) ==
    /\ pc = "telemetry"
    /\ answer \in Answers(d)
    /\ Deliver("telemetry", d, answer)
    /\ next' = Less(next, d)
    /\ IF Permanent(answer) THEN Stop(answer)
       ELSE Continue(IF answer = "ok" THEN "wait" ELSE "client")
    /\ UNCHANGED <<world, failures>>

sendTelemetry(d, answer) ==
    /\ pc = "telemetry"
    /\ answer \in Answers(d)
    /\ Deliver("telemetry", d, answer)
    /\ next' = Less(next, d)
    /\ IF Permanent(answer) THEN Stop(answer) ELSE Continue("wait")
    /\ UNCHANGED <<world, failures>>

\* The timer at the end of a turn.
Wait(w) ==
    /\ \/ pc = "wait" /\ w \in jitter(Interval)
       \/ pc = "backoff" /\ w \in computeBackoff(failures)
    /\ Pass(w)
    /\ Continue("client")
    /\ UNCHANGED <<world, failures, store, newer>>

\* The context is cancelled: the loop returns nil.
ContextDone ==
    /\ pc \notin {"stopped", "done"}
    /\ Continue("done")
    /\ UNCHANGED <<clock, world, failures, store, newer>>

-----------------------------------------------------------------------------
(* The world changes: an administrator deletes the agent or upgrades the     *)
(* controller; outages come and go.                                          *)

Environment ==
    /\ \/ known' = FALSE /\ UNCHANGED <<compatible, healthy>>
       \/ compatible' = FALSE /\ UNCHANGED <<known, healthy>>
       \/ healthy' = ~healthy /\ UNCHANGED <<known, compatible>>
    /\ UNCHANGED <<pc, clock, skew, failures, store, newer, cause>>

AnyAnswer == {"ok", "unauthorized", "conflict", "error", "lost"}

\* The daemon's own steps.
Step ==
    \/ Load \/ getClient \/ NoJobRequest \/ SkipTelemetry
    \/ \E answer \in AnyAnswer :
        \/ \E d \in 0..tHeartbeat : sendHeartbeat(d, answer)
        \/ \E d \in 0..tJob : JobRequest(d, answer)
        \/ \E d \in 0..tTelemetry : sendTelemetry(d, answer)
        \/ \E d \in 0..tInventory :
            \E w \in {0} \cup jitter(InventoryInterval) \cup jitter(InventoryRetry) :
                sendInventory(d, answer, w)
    \/ \E d \in 0..tHeartbeat : HeartbeatBodyFails(d)
    \/ \E w \in {0} \cup jitter(InventoryRetry) : SkipInventory(w)
    \/ \E w \in jitter(Interval) \cup computeBackoff(failures) : Wait(w)

Next ==
    \/ Step \/ ContextDone \/ Environment
    \/ \E k \in Kinds : HandleLate(k)

Spec == Init /\ [][Next]_vars

-----------------------------------------------------------------------------
(* Properties *)

Timeout(l) ==
    CASE l = "heartbeat" -> tHeartbeat
      [] l \in {"pending", "start", "complete"} -> tJob
      [] l = "inventory" -> tInventory
      [] l = "telemetry" -> tTelemetry
      [] OTHER -> 0

Requesting == pc \in {"heartbeat", "pending", "start", "complete", "inventory", "telemetry"}

\* README: the daemon "rotates in-memory ephemeral TLS client certificate before 1-hour
\* expiration".  Every request of a turn, the last one too, is made with a certificate
\* that the controller's clock finds valid for as long as the request may take.
CertificateHonoured ==
    Requesting => \A t \in 0..Timeout(pc) : CertificateValid(age + t)

\* But for a job whose text breaks off, which JobDispatch is about, outages, slow requests
\* and clocks that differ never stop the daemon (IsPermanentError): an answer that does
\* means that the agent was deleted or the protocol changed.
StopsForCause ==
    pc = "stopped" => \/ cause \in {"identity", "key", "body"}
                      \/ cause = "unauthorized" /\ ~known
                      \/ cause = "conflict" /\ ~compatible

\* The row of a report is replaced by what was sent later, never by what was sent
\* before: the daemon waits longer than a request can still be handled.
NeverOlder ==
    [][\A k \in Kinds : store[k] = "current" /\ store'[k] = "older" => pc = k]_vars

\* While the controller does not have the inventory that was sent last, the next one
\* is at most the retry interval away, also after failures to send and to collect
\* in turn; only a report that was stored is followed by the long interval.
RetriedSoon ==
    store["inventory"] # "current" => next <= InventoryRetry + InventoryRetry \div Tenth
=============================================================================
