---------------------------- MODULE ProcessProofs ----------------------------
(***************************************************************************)
(* Proofs about the processes that run for long: the agent's daemon        *)
(* (AgentReports), for all timeouts, intervals and clocks that satisfy     *)
(* ClockAssumption; the controller process (ControllerProcess), for any    *)
(* number of requests; and the root helper beside the daemon               *)
(* (PrivilegeHelper), for any number of helpers, clients, slots and faults. *)
(***************************************************************************)
EXTENDS AgentReports, ControllerProcess, PrivilegeHelper, TLAPS

\* Zenon first, and its time; a leaf that is not for it names SMT.
USE ZenonT(60), SMTT(30)

-----------------------------------------------------------------------------
(* The daemon *)

Places == {"load", "client", "heartbeat", "pending", "start", "complete", "inventory",
           "telemetry", "wait", "backoff", "stopped", "done"}

\* The time that the requests of the turn before this place may have taken.
Used(l) ==
    CASE l = "pending" -> tHeartbeat
      [] l = "start" -> tHeartbeat + tJob
      [] l = "complete" -> tHeartbeat + 2 * tJob
      [] l = "inventory" -> tHeartbeat + 3 * tJob
      [] l = "telemetry" -> tHeartbeat + 3 * tJob + tInventory
      [] OTHER -> 0

TypeInv ==
    /\ pc \in Places
    /\ age \in Nat
    /\ next \in Nat
    /\ failures \in 0..6
    /\ skew \in (0 - MaxSkew)..MaxSkew
    /\ store \in [Kinds -> {"none", "current", "older"}]
    /\ late \in [Kinds -> 0..HandlerLife]
    /\ newer \in [Kinds -> BOOLEAN]

\* The certificate was fresh at the start of the turn, and has aged since by what
\* the requests have taken.
CertInv == Requesting => age <= Lifetime - RefreshMargin + Used(pc)

\* A report is abandoned only between its request and the end of the turn.
LateInv ==
    \A k \in Kinds :
        /\ late[k] > 0 => pc \in {"telemetry", "wait", "stopped", "done"} \ {k}
        /\ newer[k] = FALSE

IInv == TypeInv /\ CertInv /\ LateInv /\ RetriedSoon /\ StopsForCause

\* The constants are durations of the code.
LEMMA ClockTypes ==
    /\ Lifetime \in Nat /\ Backdate \in Nat /\ RefreshMargin \in Nat /\ MaxSkew \in Nat
    /\ tHeartbeat \in Nat /\ tJob \in Nat /\ tInventory \in Nat /\ tTelemetry \in Nat
    /\ HandlerLife \in Nat /\ Interval \in Nat /\ MaxBackoff \in Nat
    /\ InventoryInterval \in Nat /\ InventoryRetry \in Nat /\ Tenth \in Nat \ {0}
BY ClockAssumption

\* A jitter is a natural number.
LEMMA DivNat == ASSUME NEW d \in Nat PROVE d \div Tenth \in Nat
BY SMTT(30), ClockTypes

\* The certificate outlives every request of the turn, on either clock.
LEMMA CertOutlives ==
    ASSUME TypeInv, CertInv
    PROVE  CertificateHonoured
<1> SUFFICES ASSUME Requesting, NEW t \in 0..Timeout(pc)
             PROVE  CertificateValid(age + t)
  BY DEF CertificateHonoured
<1>1. Timeout(pc) \in Nat /\ Used(pc) \in Nat /\ Used(pc) + Timeout(pc) <= Turn
  BY SMTT(30), ClockTypes DEF Requesting, Timeout, Used, Turn
<1>2. age + t <= Lifetime - RefreshMargin + Turn
  BY SMTT(30), <1>1, ClockTypes DEF CertInv, TypeInv, Turn
<1>3. Turn + MaxSkew <= RefreshMargin /\ MaxSkew <= Backdate
  BY ClockAssumption
<1>. QED
  BY SMTT(30), <1>1, <1>2, <1>3, ClockTypes DEF CertificateValid, TypeInv, Turn

\* An answer that refuses the agent is about the agent.
LEMMA AnswersTrue ==
    ASSUME TypeInv, CertInv, Requesting,
           NEW d \in 0..Timeout(pc), NEW answer \in Answers(d)
    PROVE  /\ answer = "unauthorized" => known = FALSE
           /\ answer = "conflict" => compatible = FALSE
<1>1. \A t \in 0..d : CertificateValid(age + t)
  <2>1. Timeout(pc) \in Nat
    BY ClockTypes DEF Timeout, Requesting
  <2>. QED
    BY SMTT(30), <2>1, CertOutlives DEF CertificateHonoured
<1>. QED
  BY SMTT(30), <1>1 DEF Answers, Status

\* A daemon that has just been started satisfies the invariant.
LEMMA InitInv == Init => IInv
BY SMTT(30), ClockTypes DEF Init, IInv, TypeInv, Places, Kinds, CertInv, LateInv, RetriedSoon, StopsForCause,
    Requesting, Used

\* Time left stays a natural number and does not grow.
LEMMA LessNat == ASSUME NEW t \in Nat, NEW d \in Nat
                 PROVE  Less(t, d) \in Nat /\ Less(t, d) <= t
BY SMTT(30) DEF Less

\* The prelude of runPresenceWithConfig keeps the invariant.
LEMMA LoadInv == IInv /\ Load => IInv'
BY ClockTypes DEF Load, Continue, Stop, clock, world, IInv, TypeInv, Places, Kinds, CertInv, LateInv,
    RetriedSoon, StopsForCause, Requesting, Used

\* getClient leaves a certificate with more than the margin to live.
LEMMA GetClientInv == IInv /\ getClient => IInv'
BY SMTT(30), ClockAssumption, ClockTypes DEF getClient, Continue, Stop, clock, world, IInv, TypeInv, Places, Kinds, CertInv,
    LateInv, RetriedSoon, StopsForCause, Requesting, Used

\* The branches of the loop that make no request keep the invariant.
LEMMA NoRequestInv == IInv /\ (NoJobRequest \/ SkipTelemetry \/ ContextDone) => IInv'
BY SMTT(30), ClockTypes DEF NoJobRequest, SkipTelemetry, ContextDone, Continue, clock, world, IInv, TypeInv, Places,
    Kinds, CertInv, LateInv, RetriedSoon, StopsForCause, Requesting, Used

\* So do the changes of the world: an agent that is gone stays gone.
LEMMA EnvironmentInv == IInv /\ Environment => IInv'
BY SMTT(30), ClockTypes DEF Environment, clock, IInv, TypeInv, Places, Kinds, CertInv, LateInv,
    RetriedSoon, StopsForCause, Requesting, Used

\* So does an abandoned request: nothing was sent after it.
LEMMA HandleLateInv == ASSUME NEW k \in Kinds PROVE IInv /\ HandleLate(k) => IInv'
BY SMTT(30), ClockTypes DEF HandleLate, world, IInv, TypeInv, Places, Kinds, CertInv, LateInv,
    RetriedSoon, StopsForCause, Requesting, Used

\* Time that passes leaves no more of what was left.
LEMMA PassInv ==
    ASSUME TypeInv, NEW d \in Nat, Pass(d)
    PROVE  /\ age' = age + d
           /\ next' \in Nat /\ next' <= next
           /\ late' \in [Kinds -> 0..HandlerLife]
           /\ \A k \in Kinds : late'[k] <= late[k] /\ (late[k] <= d => late'[k] = 0)
<1>1. next' \in Nat /\ next' <= next
  BY LessNat DEF Pass, TypeInv
<1>2. \A k \in Kinds : /\ late'[k] \in 0..HandlerLife /\ late'[k] <= late[k]
                       /\ late[k] <= d => late'[k] = 0
  BY SMTT(30), ClockTypes DEF Pass, TypeInv, Less
<1>. QED
  BY <1>1, <1>2 DEF Pass

\* After the timer of a turn no abandoned request is left.
LEMMA WaitInv == ASSUME NEW w PROVE IInv /\ Wait(w) => IInv'
<1> SUFFICES ASSUME IInv, Wait(w) PROVE IInv'
  OBVIOUS
<1>1. w \in Nat /\ (pc = "wait" => w > HandlerLife)
  <2>1. CASE pc = "wait" /\ w \in jitter(Interval)
    <3>1. Interval \div Tenth \in Nat
      BY DivNat, ClockTypes
    <3>. QED
      BY SMTT(30), <2>1, <3>1, ClockAssumption, ClockTypes DEF jitter
  <2>2. CASE pc = "backoff" /\ w \in computeBackoff(failures)
    <3>1. failures \in 0..6 /\ MaxBackoff \in Nat
      BY ClockTypes DEF IInv, TypeInv
    <3>2. Base(failures) \in Nat
      BY SMTT(30), <3>1 DEF Base
    <3>3. Shorter(Base(failures), MaxBackoff) \in Nat
      BY <3>1, <3>2 DEF Shorter
    <3>4. PICK b \in jitter(Shorter(Base(failures), MaxBackoff)) :
                w = Less(Shorter(b, MaxBackoff), 0)
      BY <2>2 DEF computeBackoff
    <3>5. b \in Int
      BY SMTT(30), <3>3, <3>4, DivNat DEF jitter
    <3>. QED
      BY SMTT(30), <2>2, <3>1, <3>4, <3>5 DEF Less, Shorter
  <2>. QED
    BY <2>1, <2>2 DEF Wait
<1>2. /\ age' = age + w
      /\ next' \in Nat /\ next' <= next
      /\ late' \in [Kinds -> 0..HandlerLife]
      /\ \A k \in Kinds : late'[k] <= late[k] /\ (late[k] <= w => late'[k] = 0)
  BY <1>1, PassInv DEF IInv, Wait
<1>3. \A k \in Kinds : late'[k] = 0
  BY SMTT(30), <1>1, <1>2, ClockTypes DEF Wait, IInv, TypeInv, LateInv
<1>. QED
  BY SMTT(30), <1>1, <1>2, <1>3, ClockTypes, DivNat DEF Wait, Continue, world, IInv, TypeInv, Places, CertInv, LateInv,
    RetriedSoon, StopsForCause, Requesting

\* A heartbeat takes at most its timeout and stops the daemon only for cause.
LEMMA HeartbeatInv ==
    ASSUME NEW d \in 0..tHeartbeat, NEW answer \in AnyAnswer, IInv, sendHeartbeat(d, answer)
    PROVE  IInv'
<1>1. /\ age' = age + d
      /\ next' \in Nat /\ next' <= next
      /\ late' \in [Kinds -> 0..HandlerLife]
      /\ \A k \in Kinds : late'[k] <= late[k] /\ (late[k] <= d => late'[k] = 0)
  BY SMTT(30), ClockTypes, PassInv DEF IInv, sendHeartbeat
<1>2. /\ answer = "unauthorized" => known = FALSE
      /\ answer = "conflict" => compatible = FALSE
  <2>1. Requesting /\ d \in 0..Timeout(pc)
    BY DEF sendHeartbeat, Requesting, Timeout
  <2>. QED
    BY <2>1, AnswersTrue DEF IInv, sendHeartbeat
<1>3. \A k \in Kinds : late'[k] = 0
  BY SMTT(30), <1>1, ClockTypes DEF sendHeartbeat, IInv, TypeInv, LateInv
<1>4. pc' \in {"pending", "stopped", "backoff"} /\ failures' \in 0..6
  BY SMTT(30) DEF sendHeartbeat, Continue, Stop, IInv, TypeInv
<1>5. CertInv'
  BY SMTT(30), <1>1, <1>4, ClockTypes DEF CertInv, Requesting, Used, IInv, TypeInv, sendHeartbeat
<1>6. StopsForCause'
  BY <1>2 DEF StopsForCause, sendHeartbeat, Continue, Stop, Permanent, world, IInv
<1>7. RetriedSoon'
  BY SMTT(30), <1>1, DivNat, ClockTypes DEF RetriedSoon, sendHeartbeat, IInv, TypeInv
<1>8. LateInv'
  BY SMTT(30), <1>3 DEF LateInv, sendHeartbeat, IInv
<1>9. TypeInv'
  BY SMTT(30), <1>1, <1>4, ClockTypes DEF TypeInv, Places, sendHeartbeat, world, IInv
<1>. QED
  BY <1>5, <1>6, <1>7, <1>8, <1>9 DEF IInv

\* A heartbeat whose answer breaks off ends the loop.
LEMMA HeartbeatBodyInv ==
    ASSUME NEW d \in 0..tHeartbeat, IInv, HeartbeatBodyFails(d)
    PROVE  IInv'
<1>1. /\ age' = age + d
      /\ next' \in Nat /\ next' <= next
      /\ late' \in [Kinds -> 0..HandlerLife]
      /\ \A k \in Kinds : late'[k] <= late[k]
  BY SMTT(30), ClockTypes, PassInv DEF IInv, HeartbeatBodyFails
<1>2. pc' = "stopped" /\ cause' = "body"
  BY DEF HeartbeatBodyFails, Stop
<1>3. RetriedSoon'
  BY SMTT(30), <1>1, DivNat, ClockTypes DEF RetriedSoon, HeartbeatBodyFails, IInv, TypeInv
<1>4. LateInv'
  BY <1>2 DEF LateInv, Kinds, HeartbeatBodyFails, IInv
<1>5. TypeInv'
  BY SMTT(30), <1>1, <1>2, ClockTypes DEF TypeInv, Places, HeartbeatBodyFails, world, IInv
<1>. QED
  BY <1>2, <1>3, <1>4, <1>5 DEF IInv, CertInv, Requesting, StopsForCause

\* A request about a job takes at most its timeout, too; a conflict about the job stops nothing.
LEMMA JobRequestInv ==
    ASSUME NEW d \in 0..tJob, NEW answer \in AnyAnswer, IInv, JobRequest(d, answer)
    PROVE  IInv'
<1>1. /\ age' = age + d
      /\ next' \in Nat /\ next' <= next
      /\ late' \in [Kinds -> 0..HandlerLife]
      /\ \A k \in Kinds : late'[k] <= late[k] /\ (late[k] <= d => late'[k] = 0)
  BY SMTT(30), ClockTypes, PassInv DEF IInv, JobRequest
<1>2. answer = "unauthorized" => known = FALSE
  <2>1. Requesting /\ d \in 0..Timeout(pc)
    BY DEF JobRequest, Requesting, Timeout
  <2>2. answer = "unauthorized" => answer \in Answers(d)
    BY DEF JobRequest
  <2>. QED
    BY <2>1, <2>2, AnswersTrue DEF IInv
<1>3. \A k \in Kinds : late'[k] = 0
  BY SMTT(30), <1>1, ClockTypes DEF JobRequest, IInv, TypeInv, LateInv
<1>4. \/ pc' = "stopped" /\ cause' = "unauthorized" /\ answer = "unauthorized"
      \/ pc = "start" /\ pc' = "complete" /\ cause' = cause
      \/ pc = "pending" /\ pc' = "start" /\ cause' = cause
      \/ pc' = "inventory" /\ cause' = cause
  BY DEF JobRequest, Continue, Stop
<1>5. CertInv'
  BY SMTT(30), <1>1, <1>4, ClockTypes DEF CertInv, Requesting, Used, IInv, TypeInv, JobRequest
<1>6. StopsForCause'
  BY <1>2, <1>4 DEF StopsForCause, JobRequest, world, IInv
<1>7. RetriedSoon'
  BY SMTT(30), <1>1, DivNat, ClockTypes DEF RetriedSoon, JobRequest, IInv, TypeInv
<1>8. LateInv'
  BY SMTT(30), <1>3 DEF LateInv, JobRequest, IInv
<1>9. TypeInv'
  BY SMTT(30), <1>1, <1>4, ClockTypes DEF TypeInv, Places, JobRequest, world, IInv
<1>. QED
  BY <1>5, <1>6, <1>7, <1>8, <1>9 DEF IInv

\* What a report does to the clocks and the row of its kind: before the request no
\* other of its kind is under way.
LEMMA DeliverInv ==
    ASSUME IInv, NEW k \in Kinds, pc = k, NEW d \in Nat, NEW answer, Deliver(k, d, answer)
    PROVE  /\ age' = age + d
           /\ late' \in [Kinds -> 0..HandlerLife]
           /\ \A x \in Kinds \ {k} : late'[x] <= late[x]
           /\ newer' = newer
           /\ store' \in [Kinds -> {"none", "current", "older"}]
           /\ answer = "ok" => store'[k] = "current"
           /\ \A x \in Kinds \ {k} : store'[x] = store[x]
<1>1. late[k] = 0 /\ newer[k] = FALSE /\ newer \in [Kinds -> BOOLEAN]
  BY SMTT(30), ClockTypes DEF IInv, LateInv, TypeInv
<1>2. newer' = newer
  BY SMTT(30), <1>1 DEF Deliver
<1>3. Less(HandlerLife, d) \in Nat /\ Less(HandlerLife, d) <= HandlerLife
  BY ClockTypes, LessNat
<1>4. PICK life \in 0..Less(HandlerLife, d) :
        late' = [x \in Kinds |-> IF x = k /\ late[x] = 0 /\ answer = "lost" THEN life
                                 ELSE Less(late[x], d)]
  BY DEF Deliver
<1>5. \A x \in Kinds : Less(late[x], d) \in 0..HandlerLife /\ Less(late[x], d) <= late[x]
  BY SMTT(30), ClockTypes DEF Less, IInv, TypeInv
<1>6. /\ late' \in [Kinds -> 0..HandlerLife]
      /\ \A x \in Kinds \ {k} : late'[x] <= late[x]
  BY SMTT(30), <1>3, <1>4, <1>5, ClockTypes
<1>7. /\ store' \in [Kinds -> {"none", "current", "older"}]
      /\ answer = "ok" => store'[k] = "current"
      /\ \A x \in Kinds \ {k} : store'[x] = store[x]
  BY DEF Deliver, IInv, TypeInv
<1>. QED
  BY <1>2, <1>6, <1>7 DEF Deliver

\* An inventory that was not stored is due again after the retry interval.
LEMMA InventoryInv ==
    ASSUME NEW d \in 0..tInventory, NEW answer \in AnyAnswer, NEW w,
           IInv, sendInventory(d, answer, w)
    PROVE  IInv'
<1>0. d \in Nat /\ "inventory" \in Kinds /\ pc = "inventory"
  BY SMTT(30), ClockTypes DEF Kinds, sendInventory
<1>1. /\ age' = age + d
      /\ late' \in [Kinds -> 0..HandlerLife]
      /\ \A x \in Kinds \ {"inventory"} : late'[x] <= late[x]
      /\ newer' = newer
      /\ store' \in [Kinds -> {"none", "current", "older"}]
      /\ answer = "ok" => store'["inventory"] = "current"
  BY <1>0, DeliverInv DEF sendInventory
<1>2. /\ answer = "unauthorized" => known = FALSE
      /\ answer = "conflict" => compatible = FALSE
  <2>1. Requesting /\ d \in 0..Timeout(pc)
    BY DEF sendInventory, Requesting, Timeout
  <2>. QED
    BY <2>1, AnswersTrue DEF IInv, sendInventory
<1>3. next' \in Nat /\ RetriedSoon'
  <2>1. InventoryRetry \div Tenth \in Nat /\ InventoryInterval \div Tenth \in Nat
    BY DivNat, ClockTypes
  <2>2. CASE Permanent(answer)
    BY SMTT(30), <2>1, <2>2, ClockTypes DEF sendInventory, RetriedSoon
  <2>3. CASE ~Permanent(answer) /\ answer = "ok"
    BY SMTT(30), <1>0, <1>1, <2>1, <2>3, ClockTypes DEF sendInventory, RetriedSoon, jitter, Less
  <2>4. CASE ~Permanent(answer) /\ answer # "ok"
    BY SMTT(30), <1>0, <2>1, <2>4, ClockTypes DEF sendInventory, RetriedSoon, jitter, Less
  <2>. QED
    BY <2>2, <2>3, <2>4
<1>4. \/ pc' = "stopped" /\ Permanent(answer) /\ cause' = answer
      \/ pc' = "telemetry" /\ cause' = cause
  BY DEF sendInventory, Continue, Stop
<1>5. CertInv'
  BY SMTT(30), <1>0, <1>1, <1>4, ClockTypes DEF CertInv, Requesting, Used, IInv, TypeInv
<1>6. StopsForCause'
  BY <1>2, <1>4 DEF StopsForCause, sendInventory, Permanent, world
<1>7. LateInv'
  BY SMTT(30), <1>0, <1>1, <1>4, ClockTypes DEF LateInv, Kinds, IInv, TypeInv
<1>8. TypeInv'
  BY SMTT(30), <1>0, <1>1, <1>3, <1>4, ClockTypes DEF TypeInv, Places, sendInventory, world, IInv
<1>. QED
  BY <1>3, <1>5, <1>6, <1>7, <1>8 DEF IInv

\* So is one that could not be collected.
LEMMA SkipInventoryInv == ASSUME NEW w, IInv, SkipInventory(w) PROVE IInv'
<1>1. InventoryRetry \div Tenth \in Nat
  BY DivNat, ClockTypes
<1>2. next' \in Nat /\ RetriedSoon'
  BY SMTT(30), <1>1, ClockTypes, ClockAssumption DEF SkipInventory, RetriedSoon, jitter, IInv, TypeInv
<1>. QED
  BY SMTT(30), <1>2, ClockTypes DEF SkipInventory, Continue, world, IInv, TypeInv, Places, Kinds, CertInv, LateInv,
    StopsForCause, Requesting, Used

\* A telemetry report is the last request that the certificate has to outlive.
LEMMA TelemetryInv ==
    ASSUME NEW d \in 0..tTelemetry, NEW answer \in AnyAnswer, IInv, sendTelemetry(d, answer)
    PROVE  IInv'
<1>0. d \in Nat /\ "telemetry" \in Kinds /\ "inventory" \in Kinds \ {"telemetry"}
      /\ pc = "telemetry"
  BY SMTT(30), ClockTypes DEF Kinds, sendTelemetry
<1>1. /\ age' = age + d
      /\ late' \in [Kinds -> 0..HandlerLife]
      /\ \A x \in Kinds \ {"telemetry"} : late'[x] <= late[x]
      /\ newer' = newer
      /\ store' \in [Kinds -> {"none", "current", "older"}]
      /\ store'["inventory"] = store["inventory"]
  BY <1>0, DeliverInv DEF sendTelemetry
<1>2. /\ answer = "unauthorized" => known = FALSE
      /\ answer = "conflict" => compatible = FALSE
  <2>1. Requesting /\ d \in 0..Timeout(pc)
    BY DEF sendTelemetry, Requesting, Timeout
  <2>. QED
    BY <2>1, AnswersTrue DEF IInv, sendTelemetry
<1>3. next' \in Nat /\ next' <= next
  BY <1>0, LessNat DEF sendTelemetry, IInv, TypeInv
<1>4. \/ pc' = "stopped" /\ Permanent(answer) /\ cause' = answer
      \/ pc' = "wait" /\ cause' = cause
  BY DEF sendTelemetry, Continue, Stop
<1>5. CertInv'
  BY <1>4 DEF CertInv, Requesting
<1>6. StopsForCause'
  BY <1>2, <1>4 DEF StopsForCause, sendTelemetry, Permanent, world
<1>7. LateInv'
  BY <1>0, <1>1, <1>4, ClockTypes DEF LateInv, Kinds, IInv, TypeInv
<1>8. TypeInv'
  BY SMTT(30), <1>0, <1>1, <1>3, <1>4, ClockTypes DEF TypeInv, Places, sendTelemetry, world, IInv
<1>9. RetriedSoon'
  BY SMTT(30), <1>1, <1>3, DivNat, ClockTypes DEF RetriedSoon, IInv, TypeInv
<1>. QED
  BY <1>5, <1>6, <1>7, <1>8, <1>9 DEF IInv

\* Every step keeps the invariant.
LEMMA StepInv == IInv /\ [Next]_vars => IInv'
<1> SUFFICES ASSUME IInv, [Next]_vars PROVE IInv'
  OBVIOUS
<1>1. CASE Load
  BY <1>1, LoadInv
<1>2. CASE getClient
  BY <1>2, GetClientInv
<1>3. CASE NoJobRequest \/ SkipTelemetry \/ ContextDone
  BY <1>3, NoRequestInv
<1>4. CASE \E answer \in AnyAnswer : \E d \in 0..tHeartbeat : sendHeartbeat(d, answer)
  BY <1>4, HeartbeatInv
<1>5. CASE \E answer \in AnyAnswer : \E d \in 0..tJob : JobRequest(d, answer)
  BY <1>5, JobRequestInv
<1>6. CASE \E answer \in AnyAnswer : \E d \in 0..tTelemetry : sendTelemetry(d, answer)
  BY <1>6, TelemetryInv
<1>7. CASE \E answer \in AnyAnswer : \E d \in 0..tInventory :
            \E w \in {0} \cup jitter(InventoryInterval) \cup jitter(InventoryRetry) :
                sendInventory(d, answer, w)
  BY <1>7, InventoryInv
<1>8. CASE \E w \in {0} \cup jitter(InventoryRetry) : SkipInventory(w)
  BY <1>8, SkipInventoryInv
<1>9. CASE \E w \in jitter(Interval) \cup computeBackoff(failures) : Wait(w)
  BY <1>9, WaitInv
<1>10. CASE Environment
  BY <1>10, EnvironmentInv
<1>11. CASE \E k \in Kinds : HandleLate(k)
  BY <1>11, HandleLateInv
<1>12. CASE \E d \in 0..tHeartbeat : HeartbeatBodyFails(d)
  BY <1>12, HeartbeatBodyInv
<1>13. CASE UNCHANGED vars
  BY <1>13, ClockTypes DEF vars, clock, world, IInv, TypeInv, CertInv, LateInv, RetriedSoon,
    StopsForCause, Requesting, Used
<1>. QED
  BY <1>1, <1>2, <1>3, <1>4, <1>5, <1>6, <1>7, <1>8, <1>9, <1>10, <1>11, <1>12,
    <1>13 DEF Next, Step

\* The invariant holds in every reachable state.
LEMMA Invariance == Spec => []IInv
BY InitInv, StepInv, PTL DEF Spec

\* Whatever the timeouts and the skew within the margin, every request of a turn is
\* made with a certificate that both clocks find valid (certManager.getClient).
THEOREM CertificateAlwaysHonoured == Spec => []CertificateHonoured
<1>1. IInv => CertificateHonoured
  BY CertOutlives DEF IInv
<1>. QED
  BY <1>1, Invariance, PTL

\* No outage and no slow request ever stops the daemon, unless it breaks off the text of
\* a job (IsPermanentError).
THEOREM AlwaysStopsForCause == Spec => []StopsForCause
<1>1. IInv => StopsForCause
  BY DEF IInv
<1>. QED
  BY <1>1, Invariance, PTL

\* An inventory that the controller lacks is always at most a retry interval away
\* (nextInventoryAt in runPresenceWithConfig).
THEOREM AlwaysRetriedSoon == Spec => []RetriedSoon
<1>1. IInv => RetriedSoon
  BY DEF IInv
<1>. QED
  BY <1>1, Invariance, PTL

\* A row of RecordAgentInventory or RecordAgentTelemetry is never replaced by an
\* earlier report, for every interval longer than a handler can live.
THEOREM RowsNeverOlder == Spec => NeverOlder
<1> DEFINE Later == \A k \in Kinds : store[k] = "current" /\ store'[k] = "older" => pc = k
<1>1. IInv /\ [Next]_vars => [Later]_vars
  <2> SUFFICES ASSUME IInv, Next, NEW k \in Kinds, store[k] = "current", store'[k] = "older", pc # k
               PROVE  FALSE
    BY DEF vars
  <2>1. store \in [Kinds -> {"none", "current", "older"}] /\ newer[k] = FALSE
    BY DEF IInv, TypeInv, LateInv
  <2>2. ASSUME NEW x \in Kinds, HandleLate(x) PROVE FALSE
    <3>1. newer[x] = FALSE
      BY DEF IInv, LateInv
    <3>. QED
      BY <2>1, <2>2, <3>1 DEF HandleLate
  <2>3. ASSUME NEW x \in Kinds, NEW d, NEW answer, pc = x, Deliver(x, d, answer) PROVE FALSE
    BY <2>1, <2>3 DEF Deliver
  <2>4. store' # store
    BY <2>1
  <2>5. \/ \E x \in Kinds : HandleLate(x)
        \/ \E answer \in AnyAnswer :
             \/ \E d \in 0..tTelemetry : sendTelemetry(d, answer)
             \/ \E d \in 0..tInventory :
                 \E w \in {0} \cup jitter(InventoryInterval) \cup jitter(InventoryRetry) :
                     sendInventory(d, answer, w)
    BY <2>4 DEF Next, Step, Load, getClient, NoJobRequest, SkipTelemetry, sendHeartbeat,
        HeartbeatBodyFails, JobRequest, SkipInventory, Wait, ContextDone, Environment
  <2>. QED
    BY <2>2, <2>3, <2>5 DEF sendTelemetry, sendInventory, Kinds
<1>. QED
  BY <1>1, Invariance, PTL DEF Spec, NeverOlder

-----------------------------------------------------------------------------
(* The controller process *)

Value == {"closed", "failed"}

In(v, values) == \E i \in DOMAIN values : values[i] = v

\* How many values the Serve of s has sent.
Sent(s) == IF goroutine[s] \in Value THEN 1 ELSE 0

\* A handler of server s runs.
Held(s) == \E r \in Requests : request[r] # NoRequest /\ request[r].server = s

ControllerTyped ==
    /\ servers \in {{}, {"local"}, Server}
    /\ listener \in [Server -> {"none", "open", "closed"}]
    /\ goroutine \in [Server -> {"none", "starting", "serving"} \cup Value]
    /\ shut \in SUBSET Server
    /\ errCh \in Seq(Value)
    /\ received \in Seq(Value)
    /\ request \in [Requests -> [at : {"free", "handler", "query", "answer"},
                                 server : Server \cup {"none"}]]

\* The places before the servers are started.
Before == {"config", "open", "migrate", "tls", "listenLocal", "listenRemote"}

\* Where Run is tells which servers there are, which are being shut down, and what has
\* been received.
PlaceInv ==
    /\ place \in Before => (\A s \in Server : goroutine[s] = "none")
                           /\ received = <<>> /\ shut = {}
    /\ place = "config" => servers = {}
    /\ place \in Before \ {"config"} => "local" \in servers
    /\ place \in {"listenRemote", "shutRemote", "drainRemote"} => "remote" \in servers
    /\ place = "select" => shut = {} /\ received = <<>>

\* A Shutdown that has returned no error has left no handler, and none comes back.
ShutInv ==
    /\ place \in {"drainLocal", "shutRemote", "drainRemote", "receive"} => "local" \in shut
    /\ place = "drainRemote" \/ (place = "receive" /\ "remote" \in servers) =>
        "remote" \in shut
    /\ place \in {"shutRemote", "drainRemote", "receive"} /\ Held("local") =>
        "local" \in overdue
    /\ place = "receive" /\ Held("remote") => "remote" \in overdue

\* A listener is open for as long as its Serve has not ended, but for the one that waits
\* until the other is open, too.
ServeInv ==
    /\ \A r \in Requests : request[r] # NoRequest => request[r].server \in servers
    /\ \A s \in Server :
        /\ goroutine[s] # "none" => s \in servers
        /\ listener[s] = "open" => \/ place = "listenRemote" /\ s = "local"
                                   \/ goroutine[s] \in {"starting", "serving"}

\* Every Serve that has ended has sent one value, and a failure is never lost.
ValueInv ==
    /\ Len(errCh) + Len(received) = Sent("local") + Sent("remote")
    /\ \A s \in Server :
        goroutine[s] = "failed" => In("failed", errCh) \/ In("failed", received)
    /\ shut = {} => ~In("closed", errCh)

ControllerInv ==
    ControllerTyped /\ PlaceInv /\ ShutInv /\ ServeInv /\ ValueInv /\ ReturnIsTrue

\* What is sent is in the channel, behind what was there.
LEMMA SendValue ==
    ASSUME NEW values \in Seq(Value), NEW v \in Value
    PROVE  /\ Append(values, v) \in Seq(Value)
           /\ Len(Append(values, v)) = Len(values) + 1
           /\ \A u : In(u, Append(values, v)) <=> In(u, values) \/ u = v
<1>1. /\ Append(values, v) \in Seq(Value)
      /\ Len(Append(values, v)) = Len(values) + 1
      /\ Append(values, v)[Len(values) + 1] = v
      /\ \A i \in 1 .. Len(values) : Append(values, v)[i] = values[i]
      /\ DOMAIN values = 1 .. Len(values)
      /\ DOMAIN Append(values, v) = 1 .. Len(values) + 1
  BY SMTT(30)
<1>2. Len(values) \in Nat
  BY SMTT(30)
<1> QED BY SMTT(30), <1>1, <1>2 DEF In

\* What is received is the first of the channel, and the others stay.
LEMMA ReceiveValue ==
    ASSUME NEW values \in Seq(Value), values # <<>>
    PROVE  /\ Head(values) \in Value
           /\ Tail(values) \in Seq(Value)
           /\ Len(Tail(values)) = Len(values) - 1
           /\ \A u : In(u, values) <=> Head(values) = u \/ In(u, Tail(values))
<1>1. /\ Len(values) \in Nat /\ Len(values) > 0
      /\ DOMAIN values = 1 .. Len(values)
      /\ Head(values) = values[1] /\ Head(values) \in Value
      /\ Tail(values) \in Seq(Value)
      /\ Len(Tail(values)) = Len(values) - 1
      /\ DOMAIN Tail(values) = 1 .. Len(values) - 1
      /\ \A i \in 1 .. Len(values) - 1 : Tail(values)[i] = values[i + 1]
  BY SMTT(30)
<1>2. ASSUME NEW i \in 1 .. Len(values), i # 1 PROVE Tail(values)[i - 1] = values[i]
  <2> DEFINE j == i - 1
  <2>1. j \in 1 .. Len(values) - 1 /\ i = j + 1
    BY SMTT(30), <1>1, <1>2
  <2> HIDE DEF j
  <2>2. Tail(values)[j] = values[i]
    BY <1>1, <2>1
  <2> QED BY <2>2 DEF j
<1>3. ASSUME NEW u, In(u, values) PROVE Head(values) = u \/ In(u, Tail(values))
  <2>1. PICK i \in 1 .. Len(values) : values[i] = u
    BY <1>1, <1>3 DEF In
  <2>2. CASE i = 1
    BY <2>1, <2>2, <1>1
  <2>3. CASE i # 1
    <3>1. i - 1 \in DOMAIN Tail(values) /\ Tail(values)[i - 1] = u
      BY SMTT(30), <2>1, <2>3, <1>1, <1>2
    <3> QED BY <3>1 DEF In
  <2> QED BY <2>2, <2>3
<1>4. ASSUME NEW u, Head(values) = u \/ In(u, Tail(values)) PROVE In(u, values)
  <2>1. CASE Head(values) = u
    BY SMTT(30), <2>1, <1>1 DEF In
  <2>2. CASE In(u, Tail(values))
    <3>1. PICK i \in 1 .. Len(values) - 1 : Tail(values)[i] = u
      BY <1>1, <2>2 DEF In
    <3>2. i + 1 \in DOMAIN values /\ values[i + 1] = u
      BY SMTT(30), <3>1, <1>1
    <3> QED BY <3>2 DEF In
  <2> QED BY <1>4, <2>1, <2>2
<1> QED BY <1>1, <1>3, <1>4

\* A handler goes on, or ends; none begins.
LEMMA HandlerSteps ==
    ASSUME ControllerTyped, NEW r \in Requests, HandleRequest(r)
    PROVE  /\ request' \in [Requests -> [at : {"free", "handler", "query", "answer"},
                                         server : Server \cup {"none"}]]
           /\ \A q \in Requests : request'[q] # NoRequest =>
                /\ request[q] # NoRequest
                /\ request'[q].server = request[q].server
<1> DEFINE Request == [at : {"free", "handler", "query", "answer"},
                       server : Server \cup {"none"}]
           query == [request[r] EXCEPT !.at = "query"]
           answer == [request[r] EXCEPT !.at = "answer"]
<1>1. /\ request \in [Requests -> Request]
      /\ query \in Request /\ query.server = request[r].server
      /\ answer \in Request /\ answer.server = request[r].server
      /\ NoRequest \in Request /\ NoRequest.at = "free"
  BY DEF ControllerTyped, NoRequest, Server
<1>2. /\ request[r].at # "free"
      /\ \/ request' = [request EXCEPT ![r] = query]
         \/ request' = [request EXCEPT ![r] = answer]
         \/ request' = [request EXCEPT ![r] = NoRequest]
  BY <1>1 DEF HandleRequest
<1> HIDE DEF query, answer, Request
<1>3. /\ request' \in [Requests -> Request]
      /\ \A q \in Requests : request'[q] # NoRequest =>
            /\ request[q] # NoRequest
            /\ request'[q].server = request[q].server
  BY <1>1, <1>2
<1> QED BY <1>3 DEF Request

\* One goroutine is started per server, and none has sent anything.
LEMMA ServingStarts ==
    ASSUME StartServing
    PROVE  /\ goroutine' \in [Server -> {"none", "starting"}]
           /\ \A s \in Server : goroutine'[s] = "starting" <=> s \in servers
           /\ place' = "select"
           /\ UNCHANGED <<shut, errCh, received, overdue, result>>
<1>1. goroutine' = [s \in Server |-> IF s \in servers THEN "starting" ELSE "none"]
  BY DEF StartServing
<1>2. /\ place' = "select"
      /\ UNCHANGED <<shut, errCh, received, overdue, result>>
  BY DEF StartServing, ContinueAt
<1> QED BY <1>1, <1>2

\* Before the servers are started nothing is sent.
LEMMA NothingSent ==
    ASSUME ControllerTyped, PlaceInv, ValueInv, place \in Before
    PROVE  errCh = <<>>
<1>1. Len(errCh) = 0
  BY SMTT(30) DEF ControllerTyped, PlaceInv, ValueInv, Sent, Value, Server
<1> QED BY SMTT(30), <1>1 DEF ControllerTyped

\* As long as nothing is sent or received the values tell what they told.
LEMMA ValuesKept ==
    ASSUME ValueInv, UNCHANGED <<goroutine, errCh, received>>, shut \subseteq shut'
    PROVE  ValueInv'
<1>1. /\ Sent("local")' = Sent("local") /\ Sent("remote")' = Sent("remote")
      /\ \A v : In(v, errCh)' = In(v, errCh) /\ In(v, received)' = In(v, received)
  BY DEF Sent, In
<1>2. shut' = {} => shut = {}
  OBVIOUS
<1> QED BY <1>1, <1>2 DEF ValueInv

\* A Serve that ends sends one value.
LEMMA ValueSent ==
    ASSUME ControllerTyped, ValueInv,
           NEW s \in Server, NEW v \in Value, ServeEnds(s, v),
           goroutine[s] \in {"starting", "serving"}, v = "closed" => s \in shut,
           UNCHANGED <<received, shut>>
    PROVE  ValueInv'
<1>1. /\ errCh' = Append(errCh, v) /\ goroutine' = [goroutine EXCEPT ![s] = v]
      /\ received' = received /\ shut' = shut
      /\ errCh \in Seq(Value) /\ received \in Seq(Value)
  BY DEF ServeEnds, ControllerTyped
<1>2. /\ Len(errCh') = Len(errCh) + 1
      /\ \A u : In(u, errCh') <=> In(u, errCh) \/ u = v
  BY <1>1, SendValue
<1>3. Sent("local")' + Sent("remote")' = Sent("local") + Sent("remote") + 1
  BY SMTT(30), <1>1 DEF Sent, ControllerTyped, Value, Server
<1>4. Len(errCh) \in Nat /\ Len(received) \in Nat
  BY SMTT(30), <1>1
<1>5. Len(errCh') + Len(received') = Sent("local")' + Sent("remote")'
  <2>1. Sent("local") \in Nat /\ Sent("remote") \in Nat
    BY DEF Sent
  <2> QED BY SMTT(30), <1>1, <1>2, <1>3, <1>4, <2>1 DEF ValueInv
<1>6. \A t \in Server :
        goroutine'[t] = "failed" => In("failed", errCh') \/ In("failed", received')
  BY <1>1, <1>2 DEF ValueInv, ControllerTyped
<1>7. shut' = {} => ~In("closed", errCh')
  BY <1>1, <1>2 DEF ValueInv
<1> QED BY <1>5, <1>6, <1>7 DEF ValueInv, Sent, In

\* A value that is received is not lost.
LEMMA ValueReceived ==
    ASSUME ControllerTyped, ValueInv, errCh # <<>>, errCh' = Tail(errCh),
           received' = Append(received, Head(errCh)), UNCHANGED <<goroutine, shut>>
    PROVE  ValueInv' /\ errCh' \in Seq(Value) /\ received' \in Seq(Value)
<1>1. /\ errCh \in Seq(Value) /\ received \in Seq(Value)
      /\ Len(errCh) \in Nat /\ Len(received) \in Nat
  BY SMTT(30) DEF ControllerTyped
<1>2. /\ Head(errCh) \in Value /\ errCh' \in Seq(Value)
      /\ Len(errCh') = Len(errCh) - 1
      /\ \A u : In(u, errCh) <=> Head(errCh) = u \/ In(u, errCh')
  BY <1>1, ReceiveValue
<1>3. /\ received' \in Seq(Value)
      /\ Len(received') = Len(received) + 1
      /\ \A u : In(u, received') <=> In(u, received) \/ u = Head(errCh)
  BY <1>1, <1>2, SendValue
<1>4. Sent("local")' = Sent("local") /\ Sent("remote")' = Sent("remote")
  BY DEF Sent
<1>5. Len(errCh') + Len(received') = Sent("local")' + Sent("remote")'
  BY SMTT(30), <1>1, <1>2, <1>3, <1>4 DEF ValueInv
<1>6. \A t \in Server :
        goroutine'[t] = "failed" => In("failed", errCh') \/ In("failed", received')
  BY <1>2, <1>3 DEF ValueInv
<1>7. shut' = {} => ~In("closed", errCh')
  BY <1>2 DEF ValueInv
<1> QED BY <1>2, <1>3, <1>5, <1>6, <1>7 DEF ValueInv

\* When as many values were sent as there are servers, no Serve runs, and there are no
\* more values than that.
LEMMA AllSent ==
    ASSUME ControllerTyped, ServeInv, ValueInv, place # "listenRemote",
           Len(errCh) + Len(received) >= 1,
           "remote" \in servers => Len(errCh) + Len(received) >= 2
    PROVE  /\ Len(errCh) + Len(received) <= 2
           /\ "remote" \notin servers => Len(errCh) + Len(received) = 1
           /\ \A s \in Server : /\ listener[s] # "open"
                                           /\ goroutine[s] \notin {"starting", "serving"}
<1>1. Len(errCh) \in Nat /\ Len(received) \in Nat
  BY SMTT(30) DEF ControllerTyped
<1>2. /\ Sent("local") \in {0, 1} /\ Sent("remote") \in {0, 1}
      /\ Sent("remote") = 1 => "remote" \in servers
  BY SMTT(30) DEF Sent, ServeInv, Value, Server
<1>3. /\ Sent("local") = 1
      /\ "remote" \in servers => Sent("remote") = 1
  BY SMTT(30), <1>1, <1>2 DEF ValueInv
<1>4. \A s \in Server : goroutine[s] \notin {"starting", "serving"}
  BY SMTT(30), <1>3 DEF Sent, ServeInv, Value, Server
<1> QED BY SMTT(30), <1>1, <1>2, <1>3, <1>4 DEF ServeInv, ValueInv

\* Every step keeps the types.
LEMMA TypedNext == ControllerInv /\ [ControllerNext]_controllerVars => ControllerTyped'
<1> SUFFICES ASSUME ControllerInv, [ControllerNext]_controllerVars PROVE ControllerTyped'
  OBVIOUS
<1> USE DEF ControllerInv, Server, starting, serving,
    ContinueAt, RunServerReturns
<1>1. ASSUME \/ Open \/ Migrate
             \/ BuildRemoteTLSConfig \/ Cancelled
             \/ CloseDB \/ Expire \/ Signal
             \/ Exited \/ UNCHANGED controllerVars
       PROVE ControllerTyped'
  BY <1>1 DEF ControllerTyped, Open, Migrate,
     BuildRemoteTLSConfig, Cancelled, CloseDB,
     Expire, Signal, Exited, controllerVars
<1>2. ASSUME NEW c \in Config, LoadConfig(c) PROVE ControllerTyped'
  BY <1>2 DEF ControllerTyped, LoadConfig
<1>3. ASSUME ListenLocal PROVE ControllerTyped'
  <2>1. CASE StartServing
    BY <1>3, <2>1, ServingStarts DEF ControllerTyped, ListenLocal
  <2>2. CASE ~StartServing
    BY <1>3, <2>2 DEF ControllerTyped, ListenLocal
  <2> QED BY <2>1, <2>2
<1>4. ASSUME ListenRemote PROVE ControllerTyped'
  <2>1. CASE StartServing
    BY <1>4, <2>1, ServingStarts DEF ControllerTyped, ListenRemote
  <2>2. CASE ~StartServing
    BY <1>4, <2>2 DEF ControllerTyped, ListenRemote
  <2> QED BY <2>1, <2>2
<1>5. ASSUME OneStopped PROVE ControllerTyped'
  <2>1. /\ errCh # <<>> /\ errCh' = Tail(errCh) /\ received' = Append(received, Head(errCh))
        /\ UNCHANGED <<servers, listener, goroutine, shut, request>>
    BY SMTT(30), <1>5 DEF PlaceInv, OneStopped
  <2> QED BY <2>1, ValueReceived DEF ControllerTyped
<1>6. ASSUME ShutdownServers PROVE ControllerTyped'
  BY <1>6 DEF ControllerTyped, ShutdownServers, ShutdownRemote,
     ShutdownServer, ShutdownReturns, Busy
<1>7. ASSUME ReceiveRest PROVE ControllerTyped'
  <2>0. UNCHANGED <<servers, listener, goroutine, shut, request>>
    BY <1>7 DEF ReceiveRest
  <2>1. CASE UNCHANGED <<errCh, received>>
    BY <2>0, <2>1 DEF ControllerTyped
  <2>2. CASE ~UNCHANGED <<errCh, received>>
    <3>1. /\ errCh # <<>> /\ errCh' = Tail(errCh)
          /\ received' = Append(received, Head(errCh))
      BY <1>7, <2>2 DEF ReceiveRest
    <3> QED BY <3>1, <2>0, ValueReceived DEF ControllerTyped
  <2> QED BY <2>1, <2>2
<1>8. ASSUME NEW s \in Server, Serve(s) PROVE ControllerTyped'
  <2>1. /\ s \in Server
        /\ UNCHANGED <<servers, shut, received, request>>
    BY <1>8 DEF Serve
  <2>2. CASE ServeEnds(s, "closed")
    BY <2>1, <2>2, SendValue DEF ControllerTyped, Value, ServeEnds
  <2>3. CASE ~ServeEnds(s, "closed")
    BY <1>8, <2>1, <2>3 DEF ControllerTyped, Serve
  <2> QED BY <2>2, <2>3
<1>9. ASSUME NEW s \in Server, ServeFails(s) PROVE ControllerTyped'
  BY <1>9, SendValue DEF ControllerTyped, Value, ServeFails, ServeEnds
<1>10. ASSUME NEW r \in Requests, NEW s \in Server, Arrive(r, s) PROVE
    ControllerTyped'
  BY <1>10 DEF ControllerTyped, Arrive, NoRequest
<1>11. ASSUME NEW r \in Requests, HandleRequest(r) PROVE ControllerTyped'
  <2>1. UNCHANGED <<servers, listener, goroutine, shut, errCh, received>>
    BY <1>11 DEF HandleRequest
  <2> QED BY <1>11, <2>1, HandlerSteps DEF ControllerTyped
<1> QED BY <1>1, <1>2, <1>3, <1>4, <1>5, <1>6, <1>7, <1>8, <1>9, <1>10, <1>11
  DEF ControllerNext, ControllerStep

\* Every step goes to a place that fits.
LEMMA PlaceNext == ControllerInv /\ [ControllerNext]_controllerVars => PlaceInv'
<1> SUFFICES ASSUME ControllerInv, [ControllerNext]_controllerVars PROVE PlaceInv'
  OBVIOUS
<1> USE DEF ControllerInv, Server, starting, serving,
    ContinueAt, RunServerReturns
<1>1. ASSUME \/ Open \/ Migrate
             \/ BuildRemoteTLSConfig \/ OneStopped
             \/ Cancelled \/ ShutdownServers
             \/ ReceiveRest \/ CloseDB \/ Expire
             \/ Signal \/ Exited \/ UNCHANGED controllerVars
       PROVE PlaceInv'
  BY <1>1 DEF PlaceInv, Before, Open, Migrate,
     BuildRemoteTLSConfig, OneStopped, Cancelled,
     ShutdownServers, ShutdownRemote, ShutdownServer,
     ShutdownReturns, ReceiveRest, CloseDB, Expire,
     Signal, Exited, controllerVars
<1>2. ASSUME NEW c \in Config, LoadConfig(c) PROVE PlaceInv'
  BY <1>2 DEF PlaceInv, Before, LoadConfig
<1>3. ASSUME ListenLocal PROVE PlaceInv'
  <2>1. CASE StartServing
    BY <1>3, <2>1, ServingStarts DEF ControllerTyped, PlaceInv, Before, ListenLocal
  <2>2. CASE ~StartServing
    BY <1>3, <2>2 DEF ControllerTyped, PlaceInv, Before, ListenLocal
  <2> QED BY <2>1, <2>2
<1>4. ASSUME ListenRemote PROVE PlaceInv'
  <2>1. CASE StartServing
    BY <1>4, <2>1, ServingStarts DEF ControllerTyped, PlaceInv, Before, ListenRemote
  <2>2. CASE ~StartServing
    BY <1>4, <2>2 DEF ControllerTyped, PlaceInv, Before, ListenRemote
  <2> QED BY <2>1, <2>2
<1>5. ASSUME NEW s \in Server, Serve(s) PROVE PlaceInv'
  BY <1>5 DEF ControllerTyped, PlaceInv, Before, Serve, ServeEnds
<1>6. ASSUME NEW s \in Server, ServeFails(s) PROVE PlaceInv'
  BY <1>6 DEF ControllerTyped, PlaceInv, Before, ServeFails, ServeEnds
<1>7. ASSUME NEW r \in Requests, NEW s \in Server, Arrive(r, s) PROVE
    PlaceInv'
  BY <1>7 DEF PlaceInv, Before, Arrive, NoRequest
<1>8. ASSUME NEW r \in Requests, HandleRequest(r) PROVE PlaceInv'
  BY <1>8 DEF PlaceInv, Before, HandleRequest
<1> QED BY <1>1, <1>2, <1>3, <1>4, <1>5, <1>6, <1>7, <1>8
  DEF ControllerNext, ControllerStep

\* No step brings a handler back to a server that was shut down.
LEMMA ShutNext == ControllerInv /\ [ControllerNext]_controllerVars => ShutInv'
<1> SUFFICES ASSUME ControllerInv, [ControllerNext]_controllerVars PROVE ShutInv'
  OBVIOUS
<1> USE DEF ControllerInv, Server, starting, serving,
    ContinueAt, RunServerReturns
<1>1. ASSUME \/ Open \/ Migrate
             \/ BuildRemoteTLSConfig \/ OneStopped
             \/ Cancelled \/ ReceiveRest \/ CloseDB
             \/ Expire \/ Signal \/ Exited
             \/ UNCHANGED controllerVars
       PROVE ShutInv'
  BY <1>1 DEF ShutInv, Held, Open, Migrate,
     BuildRemoteTLSConfig, OneStopped, Cancelled,
     ReceiveRest, CloseDB, Expire, Signal,
     Exited, controllerVars
<1>2. ASSUME NEW c \in Config, LoadConfig(c) PROVE ShutInv'
  BY <1>2 DEF ShutInv, Held, LoadConfig
<1>3. ASSUME ListenLocal PROVE ShutInv'
  <2>1. CASE StartServing
    BY <1>3, <2>1, ServingStarts DEF ShutInv, ListenLocal
  <2>2. CASE ~StartServing
    BY <1>3, <2>2 DEF ShutInv, ListenLocal
  <2> QED BY <2>1, <2>2
<1>4. ASSUME ListenRemote PROVE ShutInv'
  <2>1. CASE StartServing
    BY <1>4, <2>1, ServingStarts DEF ShutInv, ListenRemote
  <2>2. CASE ~StartServing
    BY <1>4, <2>2 DEF ShutInv, ListenRemote
  <2> QED BY <2>1, <2>2
<1>5. ASSUME ShutdownServers PROVE ShutInv'
  BY <1>5 DEF ControllerTyped, PlaceInv, ServeInv, ShutInv, Held, ShutdownServers,
     ShutdownRemote, ShutdownServer, ShutdownReturns, Busy
<1>6. ASSUME NEW s \in Server, Serve(s) PROVE ShutInv'
  BY <1>6 DEF ShutInv, Held, Serve, ServeEnds
<1>7. ASSUME NEW s \in Server, ServeFails(s) PROVE ShutInv'
  BY <1>7 DEF ShutInv, Held, ServeFails, ServeEnds
<1>8. ASSUME NEW r \in Requests, NEW s \in Server, Arrive(r, s) PROVE
    ShutInv'
  BY <1>8 DEF ControllerTyped, ServeInv, ShutInv, Held, Arrive, NoRequest
<1>9. ASSUME NEW r \in Requests, HandleRequest(r) PROVE ShutInv'
  <2>1. UNCHANGED <<place, servers, listener, goroutine, shut, overdue>>
    BY <1>9 DEF HandleRequest
  <2>2. \A s : Held(s)' => Held(s)
    BY <1>9, HandlerSteps DEF Held, NoRequest
  <2> QED BY <2>1, <2>2 DEF ShutInv
<1> QED BY <1>1, <1>2, <1>3, <1>4, <1>5, <1>6, <1>7, <1>8, <1>9
  DEF ControllerNext, ControllerStep

\* No listener stays open without its Serve.
LEMMA ServeNext == ControllerInv /\ [ControllerNext]_controllerVars => ServeInv'
<1> SUFFICES ASSUME ControllerInv, [ControllerNext]_controllerVars PROVE ServeInv'
  OBVIOUS
<1> USE DEF ControllerInv, Server, starting, serving,
    ContinueAt, RunServerReturns
<1>1. ASSUME \/ Open \/ Migrate
             \/ BuildRemoteTLSConfig \/ OneStopped
             \/ Cancelled \/ ReceiveRest \/ CloseDB
             \/ Expire \/ Signal \/ Exited
             \/ UNCHANGED controllerVars
       PROVE ServeInv'
  BY <1>1 DEF ServeInv, NoRequest, Open, Migrate,
     BuildRemoteTLSConfig, OneStopped, Cancelled,
     ReceiveRest, CloseDB, Expire, Signal,
     Exited, controllerVars
<1>2. ASSUME NEW c \in Config, LoadConfig(c) PROVE ServeInv'
  BY <1>2 DEF PlaceInv, ServeInv, Before, NoRequest, LoadConfig
<1>3. ASSUME ListenLocal PROVE ServeInv'
  <2>1. CASE StartServing
    <3>1. /\ UNCHANGED <<servers, request>>
          /\ listener' = [listener EXCEPT !["local"] = "open"]
          /\ "remote" \notin servers /\ "local" \in servers
      BY <1>3, <2>1, ServingStarts DEF ListenLocal, PlaceInv, Before
    <3> QED BY <1>3, <2>1, <3>1, ServingStarts DEF ControllerTyped, ServeInv, NoRequest
  <2>2. CASE ~StartServing
    BY <1>3, <2>2 DEF ControllerTyped, PlaceInv, ServeInv, Before, Held, ListenLocal
  <2> QED BY <2>1, <2>2
<1>4. ASSUME ListenRemote PROVE ServeInv'
  <2>1. CASE StartServing
    BY <1>4, <2>1, ServingStarts DEF ControllerTyped, PlaceInv, ServeInv, Before, Held, Value,
       ListenRemote
  <2>2. CASE ~StartServing
    BY <1>4, <2>2 DEF ControllerTyped, PlaceInv, ServeInv, Before, Held, Value,
       ListenRemote
  <2> QED BY <2>1, <2>2
<1>5. ASSUME ShutdownServers PROVE ServeInv'
  BY <1>5 DEF ControllerTyped, ServeInv, ShutdownServers, ShutdownRemote,
     ShutdownServer, ShutdownReturns, Busy
<1>6. ASSUME NEW s \in Server, Serve(s) PROVE ServeInv'
  BY SMTT(30), <1>6 DEF ControllerTyped, ServeInv, Serve, ServeEnds
<1>7. ASSUME NEW s \in Server, ServeFails(s) PROVE ServeInv'
  BY <1>7 DEF ControllerTyped, ServeInv, ServeFails, ServeEnds
<1>8. ASSUME NEW r \in Requests, NEW s \in Server, Arrive(r, s) PROVE
    ServeInv'
  BY <1>8 DEF ControllerTyped, ServeInv, Arrive, NoRequest
<1>9. ASSUME NEW r \in Requests, HandleRequest(r) PROVE ServeInv'
  <2>1. UNCHANGED <<place, servers, listener, goroutine>>
    BY <1>9 DEF HandleRequest
  <2>2. \A q \in Requests : request'[q] # NoRequest => request'[q].server \in servers
    BY <1>9, HandlerSteps DEF ServeInv
  <2> QED BY <2>1, <2>2 DEF ServeInv, NoRequest
<1> QED BY <1>1, <1>2, <1>3, <1>4, <1>5, <1>6, <1>7, <1>8, <1>9
  DEF ControllerNext, ControllerStep

\* No step loses a value.
LEMMA ValueNext == ControllerInv /\ [ControllerNext]_controllerVars => ValueInv'
<1> SUFFICES ASSUME ControllerInv, [ControllerNext]_controllerVars PROVE ValueInv'
  OBVIOUS
<1> USE DEF ControllerInv, Server, starting, serving,
    ContinueAt, RunServerReturns
<1>1. ASSUME \/ Open \/ Migrate
             \/ BuildRemoteTLSConfig \/ Cancelled
             \/ ShutdownServers \/ CloseDB \/ Expire
             \/ Signal \/ Exited \/ UNCHANGED controllerVars
       PROVE ValueInv'
  <2>1. UNCHANGED <<goroutine, errCh, received>> /\ shut \subseteq shut'
    BY <1>1 DEF Open, Migrate, BuildRemoteTLSConfig,
       Cancelled, ShutdownServers, ShutdownRemote,
       ShutdownServer, ShutdownReturns, CloseDB, Expire,
       Signal, Exited, controllerVars
  <2> QED BY <2>1, ValuesKept
<1>2. ASSUME NEW c \in Config, LoadConfig(c) PROVE ValueInv'
  <2>1. UNCHANGED <<goroutine, errCh, received>> /\ shut \subseteq shut'
    BY <1>2 DEF LoadConfig
  <2> QED BY <2>1, ValuesKept
<1>3. ASSUME ListenLocal PROVE ValueInv'
  <2>1. CASE StartServing
    <3>1. UNCHANGED <<shut, errCh, received>>
      BY <2>1, ServingStarts
    <3>2. Sent("local")' = 0 /\ Sent("remote")' = 0 /\ Sent("local") = 0 /\ Sent("remote") = 0
      BY <1>3, <2>1, ServingStarts DEF PlaceInv, Before, Sent, Value, ListenLocal
    <3>3. \A s \in Server : goroutine'[s] # "failed"
      BY <2>1, ServingStarts
    <3> QED BY <3>1, <3>2, <3>3 DEF ValueInv, In
  <2>2. CASE ~StartServing
    <3>1. UNCHANGED <<goroutine, errCh, received>> /\ shut \subseteq shut'
      BY <1>3, <2>2 DEF ListenLocal
    <3> QED BY <3>1, ValuesKept
  <2> QED BY <2>1, <2>2
<1>4. ASSUME ListenRemote PROVE ValueInv'
  <2>1. CASE StartServing
    <3>1. UNCHANGED <<shut, errCh, received>>
      BY <2>1, ServingStarts
    <3>2. Sent("local")' = 0 /\ Sent("remote")' = 0 /\ Sent("local") = 0 /\ Sent("remote") = 0
      BY <1>4, <2>1, ServingStarts DEF PlaceInv, Before, Sent, Value, ListenRemote
    <3>3. \A s \in Server : goroutine'[s] # "failed"
      BY <2>1, ServingStarts
    <3> QED BY <3>1, <3>2, <3>3 DEF ValueInv, In
  <2>2. CASE ~StartServing
    <3>1. UNCHANGED <<goroutine, errCh, received>> /\ shut \subseteq shut'
      BY <1>4, <2>2 DEF ListenRemote
    <3> QED BY <3>1, ValuesKept
  <2> QED BY <2>1, <2>2
<1>5. ASSUME OneStopped PROVE ValueInv'
  <2>1. /\ errCh # <<>> /\ errCh' = Tail(errCh) /\ received' = Append(received, Head(errCh))
        /\ UNCHANGED <<servers, listener, goroutine, shut, request>>
    BY SMTT(30), <1>5 DEF PlaceInv, OneStopped
  <2> QED BY <2>1, ValueReceived DEF ControllerTyped
<1>6. ASSUME ReceiveRest PROVE ValueInv'
  <2>0. UNCHANGED <<servers, listener, goroutine, shut, request>>
    BY <1>6 DEF ReceiveRest
  <2>1. CASE UNCHANGED <<errCh, received>>
    BY <2>0, <2>1, ValuesKept DEF ControllerTyped
  <2>2. CASE ~UNCHANGED <<errCh, received>>
    <3>1. /\ errCh # <<>> /\ errCh' = Tail(errCh)
          /\ received' = Append(received, Head(errCh))
      BY <1>6, <2>2 DEF ReceiveRest
    <3> QED BY <3>1, <2>0, ValueReceived DEF ControllerTyped
  <2> QED BY <2>1, <2>2
<1>7. ASSUME NEW s \in Server, Serve(s) PROVE ValueInv'
  <2>1. CASE ServeEnds(s, "closed")
    <3>1. CASE goroutine[s] \in {"starting", "serving"} /\ s \in shut
      BY <1>7, <2>1, <3>1, ValueSent DEF Value, Serve
    <3>2. CASE ~(goroutine[s] \in {"starting", "serving"} /\ s \in shut)
      BY <1>7, <2>1, <3>2 DEF Serve, ServeEnds, ControllerTyped
    <3> QED BY <3>1, <3>2
  <2>2. CASE ~ServeEnds(s, "closed")
    <3>1. /\ goroutine[s] = "starting" /\ goroutine' = [goroutine EXCEPT ![s] = "serving"]
          /\ UNCHANGED <<errCh, received, shut>>
      BY <1>7, <2>2 DEF Serve
    <3>2. Sent("local")' = Sent("local") /\ Sent("remote")' = Sent("remote")
      BY <3>1 DEF Sent, Value, ControllerTyped
    <3>3. \A t \in Server : goroutine'[t] = "failed" => goroutine[t] = "failed"
      BY <3>1 DEF ControllerTyped
    <3> QED BY <3>1, <3>2, <3>3 DEF ValueInv, In
  <2> QED BY <2>1, <2>2
<1>8. ASSUME NEW s \in Server, ServeFails(s) PROVE ValueInv'
  BY <1>8, ValueSent DEF Value, ServeFails
<1>9. ASSUME NEW r \in Requests, NEW s \in Server, Arrive(r, s) PROVE
    ValueInv'
  <2>1. UNCHANGED <<goroutine, errCh, received>> /\ shut \subseteq shut'
    BY <1>9 DEF Arrive, NoRequest
  <2> QED BY <2>1, ValuesKept
<1>10. ASSUME NEW r \in Requests, HandleRequest(r) PROVE ValueInv'
  <2>1. UNCHANGED <<goroutine, errCh, received>> /\ shut \subseteq shut'
    BY <1>10 DEF HandleRequest
  <2> QED BY <2>1, ValuesKept
<1> QED BY <1>1, <1>2, <1>3, <1>4, <1>5, <1>6, <1>7, <1>8, <1>9, <1>10
  DEF ControllerNext, ControllerStep

\* What was returned stays true.
LEMMA TrueNext == ControllerInv /\ [ControllerNext]_controllerVars =>
    ReturnIsTrue'
<1> SUFFICES ASSUME ControllerInv, [ControllerNext]_controllerVars PROVE
    ReturnIsTrue'
  OBVIOUS
<1> USE DEF ControllerInv, Server, starting, serving,
    ContinueAt, RunServerReturns
<1>1. ASSUME \/ Cancelled \/ ShutdownServers
             \/ Expire \/ Signal \/ Exited
             \/ UNCHANGED controllerVars
       PROVE ReturnIsTrue'
  BY <1>1 DEF ReturnIsTrue, Returned, Cancelled,
     ShutdownServers, ShutdownRemote, ShutdownServer,
     ShutdownReturns, Expire, Signal, Exited,
     controllerVars
<1>2. ASSUME NEW c \in Config, LoadConfig(c) PROVE
    ReturnIsTrue'
  BY <1>2, NothingSent DEF PlaceInv, ServeInv, Before, ReturnIsTrue,
     Returned, LoadConfig
<1>3. ASSUME Open PROVE ReturnIsTrue'
  BY <1>3, NothingSent DEF PlaceInv, ServeInv, Before, ReturnIsTrue,
     Returned, Open
<1>4. ASSUME Migrate PROVE ReturnIsTrue'
  BY <1>4, NothingSent DEF PlaceInv, ServeInv, Before, ReturnIsTrue,
     Returned, Migrate
<1>5. ASSUME BuildRemoteTLSConfig PROVE ReturnIsTrue'
  BY <1>5, NothingSent DEF PlaceInv, ServeInv, Before, ReturnIsTrue,
     Returned, BuildRemoteTLSConfig
<1>6. ASSUME ListenLocal PROVE ReturnIsTrue'
  <2>1. CASE StartServing
    BY <2>1, ServingStarts DEF ReturnIsTrue, Returned
  <2>2. CASE ~StartServing
    BY <1>6, <2>2, NothingSent
       DEF ControllerTyped, PlaceInv, ServeInv, Before, ReturnIsTrue,
           Returned, ListenLocal
  <2> QED BY <2>1, <2>2
<1>7. ASSUME ListenRemote PROVE ReturnIsTrue'
  <2>1. CASE StartServing
    BY <2>1, ServingStarts DEF ReturnIsTrue, Returned
  <2>2. CASE ~StartServing
    BY <1>7, <2>2, NothingSent
       DEF ControllerTyped, PlaceInv, ServeInv, Before, ReturnIsTrue,
           Returned, ListenRemote
  <2> QED BY <2>1, <2>2
<1>8. ASSUME OneStopped PROVE ReturnIsTrue'
  <2>1. CASE servers = Server
    BY <1>8, <2>1 DEF OneStopped, ReturnIsTrue, Returned
  <2>2. CASE servers # Server
    <3>1. /\ errCh # <<>> /\ errCh' = Tail(errCh) /\ received' = Append(received, Head(errCh))
          /\ UNCHANGED <<servers, listener, goroutine, shut, overdue, request>>
          /\ place = "select" /\ received = <<>> /\ shut = {}
      BY SMTT(30), <1>8 DEF PlaceInv, OneStopped
    <3>2. Head(errCh) = "failed"
      BY <3>1, ReceiveValue DEF ControllerTyped, ValueInv, Value
    <3>3. place' = "return" /\ result' = "error"
      BY <1>8, <2>2, <3>2 DEF OneStopped
    <3>4. /\ Len(errCh) \in Nat /\ Len(errCh) >= 1 /\ Len(received) = 0
          /\ "remote" \notin servers
      BY SMTT(30), <2>2, <3>1 DEF ControllerTyped
    <3>5. /\ Len(errCh) = 1
          /\ \A s \in Server : /\ listener[s] # "open"
                                          /\ goroutine[s] \notin {"starting", "serving"}
      BY SMTT(30), <3>1, <3>4, AllSent
    <3>6. errCh' = <<>>
      BY SMTT(30), <3>1, <3>5, ReceiveValue DEF ControllerTyped
    <3> QED BY <3>1, <3>3, <3>5, <3>6 DEF ReturnIsTrue, Returned
  <2> QED BY <2>1, <2>2
<1>9. ASSUME ReceiveRest PROVE ReturnIsTrue'
  <2>1. CASE Len(received) < (IF "remote" \in servers THEN 2 ELSE 1)
    BY <1>9, <2>1 DEF ReceiveRest, ReturnIsTrue, Returned
  <2>2. CASE ~(Len(received) < (IF "remote" \in servers THEN 2 ELSE 1))
    <3>1. /\ place = "receive" /\ place' = "return"
          /\ result' = Outcome(received, overdue)
          /\ UNCHANGED <<servers, listener, goroutine, errCh, received, overdue, request>>
      BY <1>9, <2>2 DEF ReceiveRest
    <3>2. /\ Len(errCh) \in Nat /\ Len(received) \in Nat /\ errCh \in Seq(Value)
          /\ Len(received) >= 1
          /\ "remote" \in servers => Len(received) >= 2
      BY SMTT(30), <2>2 DEF ControllerTyped
    <3>3. /\ Len(errCh) = 0
          /\ \A s \in Server : /\ listener[s] # "open"
                                          /\ goroutine[s] \notin {"starting", "serving"}
      BY SMTT(30), <3>1, <3>2, AllSent
    <3>4. errCh = <<>> /\ ~In("failed", errCh)
      BY SMTT(30), <3>2, <3>3 DEF In
    <3>5. ASSUME result' = "ok"
          PROVE  /\ \A s \in Server : goroutine[s] # "failed"
                 /\ \A r \in Requests : request[r] = NoRequest
      <4>1. ~In("failed", received) /\ overdue = {}
        BY <3>1, <3>5 DEF Outcome, In
      <4>2. ~Held("local") /\ ~Held("remote")
        BY <3>1, <4>1 DEF ShutInv
      <4> QED BY <3>4, <4>1, <4>2 DEF ValueInv, ServeInv, Held, ControllerTyped
    <3> QED BY <3>1, <3>3, <3>4, <3>5 DEF ReturnIsTrue, Returned
  <2> QED BY <2>1, <2>2
<1>10. ASSUME CloseDB PROVE ReturnIsTrue'
  BY <1>10 DEF ReturnIsTrue, Returned, CloseDB
<1>11. ASSUME NEW s \in Server, Serve(s) PROVE ReturnIsTrue'
  BY <1>11 DEF ReturnIsTrue, Returned, Serve,
     ServeEnds
<1>12. ASSUME NEW s \in Server, ServeFails(s) PROVE
    ReturnIsTrue'
  BY <1>12 DEF ReturnIsTrue, Returned, ServeFails,
     ServeEnds
<1>13. ASSUME NEW r \in Requests, NEW s \in Server, Arrive(r, s) PROVE
    ReturnIsTrue'
  BY <1>13 DEF ControllerTyped, ReturnIsTrue, Returned,
     Arrive, NoRequest
<1>14. ASSUME NEW r \in Requests, HandleRequest(r) PROVE ReturnIsTrue'
  <2>1. UNCHANGED <<place, listener, goroutine, errCh, result>>
    BY <1>14 DEF HandleRequest
  <2>2. (\A q \in Requests : request[q] = NoRequest) =>
            \A q \in Requests : request'[q] = NoRequest
    BY <1>14, HandlerSteps
  <2>3. NoRequest' = NoRequest
    BY DEF NoRequest
  <2> QED BY <2>1, <2>2, <2>3 DEF ReturnIsTrue, Returned
<1> QED BY <1>1, <1>2, <1>3, <1>4, <1>5, <1>6, <1>7, <1>8, <1>9, <1>10, <1>11, <1>12, <1>13,
           <1>14
  DEF ControllerNext, ControllerStep

\* What Run returns is true of what it leaves behind: for any number of requests, no
\* listener is open and no Serve runs after it, no value is left in errCh, the failure
\* of a server is an error whatever else happens, and a clean exit cut off no request.
THEOREM ReturnAlwaysTrue == ControllerSpec => []ReturnIsTrue
<1>1. ControllerInit => ControllerInv
  <2> SUFFICES ASSUME ControllerInit PROVE ControllerInv
    OBVIOUS
  <2>1. ControllerTyped
    BY SMTT(30) DEF ControllerInit, ControllerTyped, Value, Server, NoRequest
  <2>2. PlaceInv /\ ShutInv /\ ServeInv
    BY DEF ControllerInit, PlaceInv, ShutInv, ServeInv, Before, Held, Server,
           NoRequest
  <2>3. ValueInv
    BY SMTT(30) DEF ControllerInit, ValueInv, Sent, In, Value, Server
  <2>4. ReturnIsTrue
    BY DEF ControllerInit, ReturnIsTrue, Returned
  <2> QED BY <2>1, <2>2, <2>3, <2>4 DEF ControllerInv
<1>2. ControllerInv /\ [ControllerNext]_controllerVars => ControllerInv'
  BY TypedNext, PlaceNext, ShutNext, ServeNext, ValueNext, TrueNext DEF ControllerInv
<1>3. ControllerInv => ReturnIsTrue
  BY DEF ControllerInv
<1> QED BY <1>1, <1>2, <1>3, PTL DEF ControllerSpec

-----------------------------------------------------------------------------
(* The helper *)

\* The steps of Serve from the bind to the removal of the socket.
Bound == {"stat", "chmod", "harden", "serve", "drain", "inspect", "unlink"}

Process ==
    [pc : Bound \cup Unbound, stop : BOOLEAN, created : Helpers \cup {None},
     err : BOOLEAN, result : {"ok", "error", "killed", "none"}]

Connection ==
    [at : {"free", "checked", "queued", "handled", "answered", "refused"},
     helper : Helpers \cup {None}]

\* A connection that a helper has accepted knows the helper.
Typed ==
    /\ path \in Helpers \cup {None}
    /\ proc \in [Helpers -> Process]
    /\ conn \in [Clients -> Connection]
    /\ \A c \in Clients : conn[c].at \in {"queued", "handled"} => conn[c].helper \in Helpers

\* PathTellsHelper speaks of the helpers that listen.  That it survives a removal
\* takes more: until it has removed its socket, a helper that listened has it at
\* the path, so no other can bind and what RemoveSocket unlinks is its own.
PathInv ==
    /\ Typed
    /\ ~mistaken => \A p \in Helpers : proc[p].pc \in Bound => path = p
    /\ \A p \in Helpers : At(p, "off") /\ proc[p].result = "ok" => path # p

\* Handlers are counted as long as there are finitely many.
HandlersInv ==
    /\ Typed
    /\ \A p \in Helpers :
        /\ IsFiniteSet(Of(p, "handled"))
        /\ Cardinality(Of(p, "handled")) <= MaxConcurrentConnections
    /\ \A c \in Clients :
        conn[c].at = "handled" => proc[conn[c].helper].pc \in {"serve", "drain"}

-----------------------------------------------------------------------------
(* Types *)

\* A helper that is off, and one that has just been started.
LEMMA Ends ==
    /\ \A r \in {"ok", "error", "killed", "none"} :
        Off(r) \in Process /\ Off(r).pc = "off" /\ Off(r).result = r
    /\ [Off("none") EXCEPT !.pc = "dir"] \in Process
    /\ [Off("none") EXCEPT !.pc = "dir"].pc = "dir"
  BY DEF Off, Process, Bound, Unbound

\* A helper that goes on to its next step.
LEMMA Moved ==
    ASSUME Typed, NEW p \in Helpers, NEW l \in Bound \cup Unbound, GoTo(p, l)
    PROVE  /\ proc' \in [Helpers -> Process]
           /\ proc'[p].pc = l
           /\ \A q \in Helpers \ {p} : proc'[q] = proc[q]
  BY DEF Typed, Process, GoTo

\* The steps of Serve before the bind, on the directory and on the path, move the helper
\* on or end it with an error, and leave the socket and the connections alone.
LEMMA BeforeBind ==
    ASSUME Typed, NEW p \in Helpers,
           \/ InspectDir(p) \/ MakeDir(p) \/ ChownDir(p) \/ ChmodDir(p) \/ VerifyDir(p)
           \/ CheckSocket(p)
    PROVE  /\ proc' \in [Helpers -> Process]
           /\ proc[p].pc \in Unbound /\ proc'[p].pc \in Unbound
           /\ proc'[p].pc = "off" => proc'[p].result = "error"
           /\ \A q \in Helpers \ {p} : proc'[q] = proc[q]
           /\ UNCHANGED <<path, mode, conn, faults, mistaken>>
<1> DEFINE On == \E l \in Unbound \ {"off"} : GoTo(p, l)
<1>1. proc[p].pc \in Unbound /\ UNCHANGED <<path, mode, conn, faults, mistaken>>
  BY DEF InspectDir, MakeDir, ChownDir, ChmodDir, VerifyDir, CheckSocket, At, Unbound, files, history
<1>2. On \/ ReturnError(p)
  BY DEF InspectDir, MakeDir, ChownDir, ChmodDir, VerifyDir, CheckSocket, Unbound
<1>3. CASE On
  <2>1. PICK l \in Unbound \ {"off"} : GoTo(p, l)
    BY <1>3
  <2>2. l \in Bound \cup Unbound /\ l # "off"
    OBVIOUS
  <2> QED BY SMTT(30), <1>1, <2>1, <2>2, Moved
<1>4. CASE ReturnError(p)
  BY <1>1, <1>4, Ends DEF ReturnError, Typed, Unbound
<1> QED BY <1>2, <1>3, <1>4

\* A helper that gives up before it serves, or while it does.
LEMMA Aborted ==
    ASSUME Typed, NEW p \in Helpers, Abort(p)
    PROVE  /\ proc' \in [Helpers -> Process]
           /\ proc'[p].pc = "drain"
           /\ \A q \in Helpers \ {p} : proc'[q] = proc[q]
<1> DEFINE new == [[proc[p] EXCEPT !.pc = "drain"] EXCEPT !.err = TRUE]
<1>1. proc' = [proc EXCEPT ![p] = new]
  BY DEF Abort, Typed
<1>2. new \in Process /\ new.pc = "drain"
  BY DEF Typed, Process, Bound
<1> HIDE DEF new
<1> QED BY <1>1, <1>2 DEF Typed

\* A listener that is closed.
LEMMA Closed ==
    ASSUME Typed, NEW p \in Helpers, CloseListener(p)
    PROVE  /\ conn' \in [Clients -> Connection]
           /\ \A c \in Clients : \/ conn'[c] = conn[c]
                                 \/ conn'[c].at = "free" /\ conn[c].at = "queued"
  BY DEF CloseListener, Of, Typed, Connection, Free

\* At first there is no helper, no socket and no connection.
LEMMA TypedInit == HelperInit => Typed
<1> SUFFICES ASSUME HelperInit PROVE Typed
  OBVIOUS
<1>1. proc \in [Helpers -> Process]
  BY Ends DEF HelperInit
<1>2. conn \in [Clients -> Connection] /\ \A c \in Clients : conn[c].at = "free"
  BY DEF HelperInit, Free, Connection
<1> QED BY <1>1, <1>2 DEF HelperInit, Typed

\* Every step keeps the types.
LEMMA TypedStep == Typed /\ [HelperNext]_helperVars => Typed'
<1> SUFFICES ASSUME Typed, [HelperNext]_helperVars PROVE Typed'
  OBVIOUS
<1>1. ASSUME NEW p \in Helpers, Start(p) PROVE Typed'
  BY <1>1, Ends DEF Start, Typed, Bound, Unbound, files
<1>2. ASSUME NEW p \in Helpers,
             \/ InspectDir(p) \/ MakeDir(p) \/ ChownDir(p) \/ ChmodDir(p) \/ VerifyDir(p)
             \/ CheckSocket(p)
      PROVE  Typed'
  BY <1>2, BeforeBind DEF Typed
<1>3. ASSUME NEW p \in Helpers, CallFails(p) PROVE Typed'
  BY <1>3, Ends, Closed DEF CallFails, ReturnError, Typed, files
<1>4. ASSUME NEW p \in Helpers, Listen(p) PROVE Typed'
  BY <1>4, Ends, Moved DEF Listen, ReturnError, Typed, Bound, Unbound, files
<1>5. ASSUME NEW p \in Helpers, StatCreated(p) PROVE Typed'
  BY SMTT(30), <1>5, Ends, Closed DEF StatCreated, ReturnError, Process, Typed, Bound, Unbound, files
<1>6. ASSUME NEW p \in Helpers, SetMode(p) PROVE Typed'
  BY <1>6, Moved, Aborted, Closed DEF SetMode, Abort, Typed, Bound, Unbound, files
<1>7. ASSUME NEW p \in Helpers, Harden(p) PROVE Typed'
  BY <1>7, Moved, Aborted, Closed DEF Harden, Abort, Typed, Bound, Unbound, files
<1>8. ASSUME NEW p \in Helpers, Shutdown(p) PROVE Typed'
  BY <1>8, Moved, Closed DEF Shutdown, Typed, Bound, Unbound, files
<1>9. ASSUME NEW p \in Helpers, Drained(p) PROVE Typed'
  BY <1>9, Moved DEF Drained, Typed, Bound, Unbound, files
<1>10. ASSUME NEW p \in Helpers, InspectSocket(p) PROVE Typed'
  BY <1>10, Ends, Moved DEF InspectSocket, ReturnError, Typed, Bound, Unbound, files
<1>11. ASSUME NEW p \in Helpers, RemoveSocket(p) PROVE Typed'
  BY <1>11, Ends DEF RemoveSocket, Return, ReturnError, Typed, Bound, Unbound, files
<1>12. ASSUME NEW p \in Helpers, AcceptFails(p) PROVE Typed'
  BY <1>12, Aborted, Closed DEF AcceptFails, Abort, Typed, Bound, Unbound, files
<1>13. ASSUME NEW p \in Helpers, Cancel(p) PROVE Typed'
  BY <1>13 DEF Cancel, Process, Typed, Bound, Unbound, files
<1>14. ASSUME NEW p \in Helpers, Kill(p) PROVE Typed'
  BY <1>14, Ends DEF Kill, Free, Connection, Typed, Bound, Unbound, files
<1>15. ASSUME NEW p \in Helpers, NEW c \in Clients, Accept(p, c) PROVE Typed'
  BY <1>15 DEF Accept, Of, Free, Connection, Typed, Bound, Unbound, files
<1>16. ASSUME NEW c \in Clients, Handle(c) \/ CheckPath(c) \/ GiveUp(c) PROVE Typed'
  BY SMTT(30), <1>16 DEF Handle, Answer, Refuse, Close, CheckPath, GiveUp, Free, Connection, Typed, Bound, Unbound, files
<1>17. ASSUME NEW c \in Clients, Dial(c) PROVE Typed'
  BY <1>17 DEF Dial, Free, Connection, Typed, Bound, Unbound, files
<1>18. ASSUME RemoveStale \/ RemoveLive \/ SpoilDir \/ RepairDir PROVE Typed'
  BY <1>18 DEF RemoveStale, RemoveLive, SpoilDir, RepairDir, Typed, Bound, Unbound, files
<1>19. ASSUME UNCHANGED helperVars PROVE Typed'
  BY <1>19 DEF helperVars, Typed, Bound, Unbound, files
<1> QED
  BY <1>1, <1>2, <1>3, <1>4, <1>5, <1>6, <1>7, <1>8, <1>9, <1>10, <1>11, <1>12, <1>13, <1>14, <1>15, <1>16, <1>17, <1>18, <1>19 DEF HelperNext, Run

-----------------------------------------------------------------------------
(* The socket *)

\* Every step keeps the invariant of the path.
LEMMA PathStep == PathInv /\ [HelperNext]_helperVars => PathInv'
<1> SUFFICES ASSUME PathInv, [HelperNext]_helperVars PROVE PathInv'
  OBVIOUS
<1> DEFINE Path == /\ ~mistaken => \A p \in Helpers : proc[p].pc \in Bound => path = p
                   /\ \A p \in Helpers : At(p, "off") /\ proc[p].result = "ok" => path # p
<1>0. Typed /\ Typed' /\ Path
  BY TypedStep DEF PathInv
<1>1. ASSUME NEW p \in Helpers, Start(p) PROVE Path'
  BY <1>1, Ends, <1>0 DEF Start, Typed, Bound, Unbound, At, files, history
<1>2. ASSUME NEW p \in Helpers,
             \/ InspectDir(p) \/ MakeDir(p) \/ ChownDir(p) \/ ChmodDir(p) \/ VerifyDir(p)
             \/ CheckSocket(p)
      PROVE  Path'
  <2>1. \A q \in Helpers : proc'[q].pc \in Bound => proc[q].pc \in Bound
    BY <1>0, <1>2, BeforeBind DEF Bound, Unbound
  <2> QED BY <1>0, <1>2, <2>1, BeforeBind DEF At
<1>3. ASSUME NEW p \in Helpers, CallFails(p) PROVE Path'
  BY <1>0, <1>3, Ends DEF CallFails, ReturnError, Typed, Bound, At, files, Fault
<1>4. ASSUME NEW p \in Helpers, Listen(p) PROVE Path'
  BY SMTT(30), <1>4, Ends, Moved, <1>0, HelperAssumption DEF Listen, ReturnError, Typed, Bound, Unbound, At, files, history
<1>5. ASSUME NEW p \in Helpers, StatCreated(p) PROVE Path'
  BY SMTT(30), <1>5, Ends, Closed, <1>0 DEF StatCreated, ReturnError, Process, Typed, Bound, Unbound, At, files, history
<1>6. ASSUME NEW p \in Helpers, SetMode(p) PROVE Path'
  <2>1. CASE Abort(p)
    BY <1>6, <2>1, Aborted, Closed, <1>0, HelperAssumption DEF SetMode, Abort, Typed, Bound, Unbound, At, files, history, Fault
  <2>2. CASE GoTo(p, "harden") /\ UNCHANGED <<conn, history>>
    BY <1>6, <2>2, Moved, <1>0, HelperAssumption DEF SetMode, Typed, Bound, Unbound, At, files, history, Fault
  <2> QED BY <1>6, <2>1, <2>2 DEF SetMode
<1>7. ASSUME NEW p \in Helpers, Harden(p) PROVE Path'
  <2>1. CASE Abort(p)
    BY <1>7, <2>1, Aborted, Closed, <1>0, HelperAssumption DEF Harden, Abort, Typed, Bound, Unbound, At, files, history, Fault
  <2>2. CASE GoTo(p, "serve") /\ UNCHANGED <<conn, history>>
    BY <1>7, <2>2, Moved, <1>0, HelperAssumption DEF Harden, Typed, Bound, Unbound, At, files, history, Fault
  <2> QED BY <1>7, <2>1, <2>2 DEF Harden
<1>8. ASSUME NEW p \in Helpers, Shutdown(p) PROVE Path'
  BY <1>8, Moved, Closed, <1>0 DEF Shutdown, Typed, Bound, Unbound, At, files, history
<1>9. ASSUME NEW p \in Helpers, Drained(p) PROVE Path'
  BY <1>9, Moved, <1>0 DEF Drained, Typed, Bound, Unbound, At, files, history
<1>10. ASSUME NEW p \in Helpers, InspectSocket(p) PROVE Path'
  BY SMTT(30), <1>10, Ends, Moved, <1>0 DEF InspectSocket, ReturnError, Typed, Bound, Unbound, At, files, history
<1>11. ASSUME NEW p \in Helpers, RemoveSocket(p) PROVE Path'
  BY <1>11, Ends, <1>0, HelperAssumption DEF RemoveSocket, Return, ReturnError, Typed, Bound, Unbound, At, files, history
<1>12. ASSUME NEW p \in Helpers, AcceptFails(p) PROVE Path'
  BY <1>12, Aborted, Closed, <1>0, HelperAssumption DEF AcceptFails, Abort, Typed, Bound, Unbound, At, files, history, Fault
<1>13. ASSUME NEW p \in Helpers, Cancel(p) PROVE Path'
  BY SMTT(30), <1>13, <1>0, HelperAssumption DEF Cancel, Process, Typed, Bound, Unbound, At, files, history, Fault
<1>14. ASSUME NEW p \in Helpers, Kill(p) PROVE Path'
  BY <1>14, Ends, <1>0, HelperAssumption DEF Kill, Free, Connection, Typed, Bound, Unbound, At, files, history, Fault
<1>15. ASSUME NEW p \in Helpers, NEW c \in Clients, Accept(p, c) PROVE Path'
  BY <1>15, <1>0 DEF Accept, Of, Free, Connection, Typed, Bound, Unbound, At, files, history
<1>16. ASSUME NEW c \in Clients, Handle(c) \/ CheckPath(c) \/ GiveUp(c) PROVE Path'
  BY <1>16, <1>0 DEF Handle, Answer, Refuse, Close, CheckPath, GiveUp, Free, Connection, Typed, Bound, Unbound, At, files, history
<1>17. ASSUME NEW c \in Clients, Dial(c) PROVE Path'
  BY <1>17, <1>0 DEF Dial, Free, Connection, Typed, Bound, Unbound, At, files, history
<1>18. ASSUME RemoveStale \/ RemoveLive \/ SpoilDir \/ RepairDir PROVE Path'
  BY <1>18, <1>0, HelperAssumption DEF RemoveStale, RemoveLive, SpoilDir, RepairDir, Typed, Bound, Unbound, At, files, history, Fault
<1>19. ASSUME UNCHANGED helperVars PROVE Path'
  BY <1>19, <1>0 DEF helperVars, Typed, Bound, Unbound, At, files, history
<1>20. Path'
  BY <1>1, <1>2, <1>3, <1>4, <1>5, <1>6, <1>7, <1>8, <1>9, <1>10, <1>11, <1>12, <1>13, <1>14, <1>15, <1>16, <1>17, <1>18, <1>19 DEF HelperNext, Run
<1> QED BY <1>0, <1>20 DEF PathInv

\* However helpers are started, stopped and killed, the socket at the path of the
\* runtime directory is that of the helper that listens, cleanupSocket never removes
\* another helper's, and a Serve that returned no error has left none.
THEOREM SocketTellsHelper == HelperSpec => []PathTellsHelper
<1>1. HelperInit => PathInv
  <2> SUFFICES ASSUME HelperInit PROVE PathInv
    OBVIOUS
  <2>1. \A p \in Helpers : proc[p].pc = "off"
    BY Ends DEF HelperInit
  <2>2. path = None
    BY DEF HelperInit
  <2> QED BY <2>1, <2>2, TypedInit, HelperAssumption DEF PathInv, Bound
<1>2. PathInv => PathTellsHelper
  BY DEF PathInv, PathTellsHelper, Listening, Bound
<1> QED BY <1>1, <1>2, PathStep, PTL DEF HelperSpec

-----------------------------------------------------------------------------
(* The handlers *)

\* What FiniteSets defines.  The library's theorems about finite sets slow down the
\* proofs of all that follows them; they are brought in at the end, and
\* speak of definitions that are equal to these.
FiniteOf(S) == \E seq \in Seq(S) : \A s \in S : \E n \in 1..Len(seq) : seq[n] = s

CountOf(S) ==
    LET CS[T \in SUBSET S] == IF T = {} THEN 0 ELSE 1 + CS[T \ {CHOOSE x : x \in T}]
    IN  CS[S]

LEMMA FiniteIs == \A S : IsFiniteSet(S) <=> FiniteOf(S)
  BY DEF IsFiniteSet, FiniteOf

LEMMA CountIs == \A S : Cardinality(S) = CountOf(S)
  BY DEF Cardinality, CountOf

\* What the counts of handlers need of finite sets.
SubsetsCount ==
    \A S : \A T \in SUBSET S : IsFiniteSet(S) =>
        IsFiniteSet(T) /\ Cardinality(T) \in Nat /\ Cardinality(T) <= Cardinality(S)

AddCounts ==
    \A S, x : IsFiniteSet(S) /\ x \notin S =>
        IsFiniteSet(S \cup {x}) /\ Cardinality(S \cup {x}) = Cardinality(S) + 1

EmptyCounts == IsFiniteSet({}) /\ Cardinality({}) = 0

\* A step that hands no connection to a handler leaves every count bounded.
LEMMA NoNewHandler ==
    ASSUME SubsetsCount, HandlersInv,
           \A c \in Clients : conn'[c].at = "handled" => conn'[c] = conn[c]
    PROVE  \A p \in Helpers :
            /\ IsFiniteSet(Of(p, "handled")')
            /\ Cardinality(Of(p, "handled")') <= MaxConcurrentConnections
<1> SUFFICES ASSUME NEW p \in Helpers
             PROVE  /\ IsFiniteSet(Of(p, "handled")')
                    /\ Cardinality(Of(p, "handled")') <= MaxConcurrentConnections
  OBVIOUS
<1>1. Of(p, "handled")' \subseteq Of(p, "handled")
  BY DEF Of
<1>2. IsFiniteSet(Of(p, "handled")) /\ Cardinality(Of(p, "handled")) <= MaxConcurrentConnections
  BY DEF HandlersInv
<1>3. /\ IsFiniteSet(Of(p, "handled")')
      /\ Cardinality(Of(p, "handled")') \in Nat /\ Cardinality(Of(p, "handled")) \in Nat
      /\ Cardinality(Of(p, "handled")') <= Cardinality(Of(p, "handled"))
  BY <1>1, <1>2 DEF SubsetsCount
<1> QED BY SMTT(30), <1>2, <1>3, HelperAssumption

\* The semaphore: a connection goes to a handler only where a slot is free.
LEMMA SlotTaken ==
    ASSUME SubsetsCount, AddCounts, HandlersInv,
           NEW p \in Helpers, NEW c \in Clients, Accept(p, c), NEW q \in Helpers
    PROVE  /\ IsFiniteSet(Of(q, "handled")')
           /\ Cardinality(Of(q, "handled")') <= MaxConcurrentConnections
<1>0. Typed /\ conn[c].at = "queued" /\ conn[c].helper = p
  BY DEF HandlersInv, Accept, Of
<1>1. CASE Cardinality(Of(p, "handled")) < MaxConcurrentConnections /\ q = p
  <2>1. Of(q, "handled")' = Of(q, "handled") \cup {c} /\ c \notin Of(q, "handled")
    BY <1>0, <1>1 DEF Accept, Of, Typed, Connection
  <2>2. /\ IsFiniteSet(Of(q, "handled")')
        /\ Cardinality(Of(q, "handled")') = Cardinality(Of(q, "handled")) + 1
    BY <2>1 DEF HandlersInv, AddCounts
  <2>3. Cardinality(Of(q, "handled")) \in Nat
    BY DEF HandlersInv, SubsetsCount
  <2> QED BY SMTT(30), <2>2, <2>3, <1>1, HelperAssumption
<1>2. CASE Cardinality(Of(p, "handled")) < MaxConcurrentConnections /\ q # p
  <2>1. Of(q, "handled")' = Of(q, "handled")
    BY <1>0, <1>2 DEF Accept, Of, Typed, Connection
  <2> QED BY <2>1 DEF HandlersInv
<1>3. CASE ~(Cardinality(Of(p, "handled")) < MaxConcurrentConnections)
  <2>1. \A d \in Clients : conn'[d].at = "handled" => conn'[d] = conn[d]
    BY <1>0, <1>3 DEF Accept, Free, Typed
  <2> QED BY <2>1, NoNewHandler
<1> QED BY <1>1, <1>2, <1>3

\* Every step keeps the invariant of the handlers.
LEMMA HandlersStep ==
    ASSUME SubsetsCount, AddCounts
    PROVE  HandlersInv /\ [HelperNext]_helperVars => HandlersInv'
<1> SUFFICES ASSUME HandlersInv, [HelperNext]_helperVars PROVE HandlersInv'
  OBVIOUS
<1> DEFINE Kept == \A c \in Clients : conn'[c].at = "handled" => conn'[c] = conn[c]
           Waited == \A c \in Clients :
                        conn[c].at = "handled" => proc[conn[c].helper].pc \in {"serve", "drain"}
           Good == Waited' /\ (Kept \/ \E p \in Helpers, c \in Clients : Accept(p, c))
<1>0. Typed /\ Typed' /\ Waited
  BY TypedStep DEF HandlersInv
<1>1. ASSUME NEW p \in Helpers, Start(p) PROVE Good
  BY <1>1, Ends, <1>0 DEF Start, Typed, Bound, Unbound, At, files
<1>2. ASSUME NEW p \in Helpers,
             \/ InspectDir(p) \/ MakeDir(p) \/ ChownDir(p) \/ ChmodDir(p) \/ VerifyDir(p)
             \/ CheckSocket(p)
      PROVE  Good
  <2>1. proc[p].pc \notin {"serve", "drain"}
    BY <1>0, <1>2, BeforeBind DEF Unbound
  <2> QED BY <1>0, <1>2, <2>1, BeforeBind DEF Typed
<1>3. ASSUME NEW p \in Helpers, CallFails(p) PROVE Good
  <2>1. proc[p].pc \notin {"serve", "drain"}
    BY <1>3 DEF CallFails, Unbound
  <2> QED BY <1>0, <1>3, <2>1, Closed DEF CallFails, ReturnError, Typed
<1>4. ASSUME NEW p \in Helpers, Listen(p) PROVE Good
  BY <1>4, Ends, Moved, <1>0 DEF Listen, ReturnError, Typed, Bound, Unbound, At, files
<1>5. ASSUME NEW p \in Helpers, StatCreated(p) PROVE Good
  BY SMTT(30), <1>5, Ends, Closed, <1>0 DEF StatCreated, ReturnError, Process, Typed, Bound, Unbound, At, files
<1>6. ASSUME NEW p \in Helpers, SetMode(p) PROVE Good
  <2>1. CASE Abort(p)
    BY <1>6, <2>1, Aborted, Closed, <1>0 DEF Abort, Typed, Bound, Unbound, At, files
  <2>2. CASE GoTo(p, "harden") /\ UNCHANGED <<conn, history>>
    BY <1>6, <2>2, Moved, <1>0 DEF SetMode, Typed, Bound, Unbound, At, files
  <2> QED BY <1>6, <2>1, <2>2 DEF SetMode
<1>7. ASSUME NEW p \in Helpers, Harden(p) PROVE Good
  <2>1. CASE Abort(p)
    BY <1>7, <2>1, Aborted, Closed, <1>0 DEF Abort, Typed, Bound, Unbound, At, files
  <2>2. CASE GoTo(p, "serve") /\ UNCHANGED <<conn, history>>
    BY <1>7, <2>2, Moved, <1>0 DEF Harden, Typed, Bound, Unbound, At, files
  <2> QED BY <1>7, <2>1, <2>2 DEF Harden
<1>8. ASSUME NEW p \in Helpers, Shutdown(p) PROVE Good
  BY SMTT(30), <1>8, Moved, Closed, <1>0 DEF Shutdown, Typed, Bound, Unbound, At, files
<1>9. ASSUME NEW p \in Helpers, Drained(p) PROVE Good
  BY <1>9, Moved, <1>0 DEF Drained, Typed, Bound, Unbound, At, files, Of
<1>10. ASSUME NEW p \in Helpers, InspectSocket(p) PROVE Good
  BY <1>10, Ends, Moved, <1>0 DEF InspectSocket, ReturnError, Typed, Bound, Unbound, At, files
<1>11. ASSUME NEW p \in Helpers, RemoveSocket(p) PROVE Good
  BY <1>11, Ends, <1>0 DEF RemoveSocket, Return, ReturnError, Typed, Bound, Unbound, At, files
<1>12. ASSUME NEW p \in Helpers, AcceptFails(p) PROVE Good
  BY <1>12, Aborted, Closed, <1>0 DEF AcceptFails, Abort, Typed, Bound, Unbound, At, files
<1>13. ASSUME NEW p \in Helpers, Cancel(p) PROVE Good
  BY SMTT(30), <1>13, <1>0 DEF Cancel, Process, Typed, Bound, Unbound, At, files
<1>14. ASSUME NEW p \in Helpers, Kill(p) PROVE Good
  BY <1>14, Ends, <1>0 DEF Kill, Free, Connection, Typed, Bound, Unbound, At, files
<1>15. ASSUME NEW p \in Helpers, NEW c \in Clients, Accept(p, c) PROVE Good
  <2>1. /\ conn[c].helper = p /\ proc[p].pc = "serve" /\ proc' = proc
        /\ conn \in [Clients -> Connection]
    BY <1>0, <1>15 DEF Accept, Of, At, Typed
  <2>2. \A d \in Clients : d # c => conn'[d] = conn[d]
    BY <1>15, <2>1 DEF Accept
  <2>3. conn'[c].at = "handled" => conn'[c].helper = p
    BY <1>15, <2>1 DEF Accept, Free, Connection
  <2>4. Waited'
    BY <1>0, <2>1, <2>2, <2>3
  <2> QED BY <1>15, <2>4
<1>16. ASSUME NEW c \in Clients, Handle(c) \/ CheckPath(c) \/ GiveUp(c) PROVE Good
  <2>1. CASE Handle(c)
    BY SMTT(30), <2>1, <1>0 DEF Handle, Answer, Refuse, Close, Free, Connection, Typed, Bound, Unbound, At, files
  <2>2. CASE CheckPath(c)
    BY <2>2, <1>0 DEF CheckPath, Free, Connection, Typed, Bound, Unbound, At, files
  <2>3. CASE GiveUp(c)
    BY <2>3, <1>0 DEF GiveUp, Free, Connection, Typed, Bound, Unbound, At, files
  <2> QED BY <1>16, <2>1, <2>2, <2>3
<1>17. ASSUME NEW c \in Clients, Dial(c) PROVE Good
  BY <1>17, <1>0 DEF Dial, Free, Connection, Typed, Bound, Unbound, At, files
<1>18. ASSUME RemoveStale \/ RemoveLive \/ SpoilDir \/ RepairDir PROVE Good
  BY <1>18, <1>0 DEF RemoveStale, RemoveLive, SpoilDir, RepairDir, Typed, Bound, Unbound, At, files
<1>19. ASSUME UNCHANGED helperVars PROVE Good
  BY <1>19, <1>0 DEF helperVars, Typed, Bound, Unbound, At, files
<1>20. Good
  BY <1>1, <1>2, <1>3, <1>4, <1>5, <1>6, <1>7, <1>8, <1>9, <1>10, <1>11, <1>12, <1>13, <1>14, <1>15, <1>16, <1>17, <1>18, <1>19 DEF HelperNext, Run
<1> QED BY <1>0, <1>20, NoNewHandler, SlotTaken DEF HandlersInv

LOCAL INSTANCE FiniteSetTheorems

LEMMA LibraryFiniteIs == \A S : IsFiniteSet(S) <=> FiniteOf(S)
  BY DEF IsFiniteSet, FiniteOf

LEMMA LibraryCountIs == \A S : Cardinality(S) = CountOf(S)
  BY DEF Cardinality, CountOf

LEMMA Counts == SubsetsCount /\ AddCounts /\ EmptyCounts
<1>1. SubsetsCount
  BY FiniteIs, CountIs, LibraryFiniteIs, LibraryCountIs, FS_Subset, FS_CardinalityType
     DEF SubsetsCount
<1>2. AddCounts
  BY FiniteIs, CountIs, LibraryFiniteIs, LibraryCountIs, FS_AddElement DEF AddCounts
<1>3. EmptyCounts
  BY FiniteIs, CountIs, LibraryFiniteIs, LibraryCountIs, FS_EmptySet DEF EmptyCounts
<1> QED BY <1>1, <1>2, <1>3

\* The handlers of a helper are never more than MaxConcurrentConnections, and Serve
\* waits for all of them before it cleans up and returns, on every path.
THEOREM HelperContainsHandlers == HelperSpec => []HandlersContained
<1>1. HelperInit => HandlersInv
  <2> SUFFICES ASSUME HelperInit PROVE HandlersInv
    OBVIOUS
  <2>1. \A c \in Clients : conn[c].at = "free"
    BY DEF HelperInit, Free
  <2>2. \A p \in Helpers : Of(p, "handled") = {}
    BY <2>1 DEF Of
  <2> QED BY SMTT(30), <2>1, <2>2, TypedInit, Counts, HelperAssumption DEF HandlersInv, EmptyCounts
<1>2. HandlersInv => HandlersContained
  BY DEF HandlersInv, HandlersContained
<1>3. HandlersInv /\ [HelperNext]_helperVars => HandlersInv'
  BY Counts, HandlersStep
<1> QED BY <1>1, <1>2, <1>3, PTL DEF HelperSpec

=============================================================================
