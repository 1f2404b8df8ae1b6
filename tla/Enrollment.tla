----------------------------- MODULE Enrollment -----------------------------
(***************************************************************************)
(* Enrollment: one-time tokens and agent rows at the controller, and the   *)
(* "enroll" command of the agent, which keeps its progress in three files  *)
(* of the state directory (controller-ca.pem, identity.key, identity.json).*)
(*                                                                         *)
(* A process is an administrator who runs the command again and again,     *)
(* each time on some host with some token.  Two processes may work on one  *)
(* host.  A step is one operation on a file that others can see, or one    *)
(* transaction of the controller, and the command may fail or be killed    *)
(* between any two of them; the files stay.                                *)
(*                                                                         *)
(* identity.key is created and then written; the other two files are       *)
(* renamed into place.  A key is named by the host and the process that    *)
(* generated it.  An agent id is named by its token, since                 *)
(* agents.enrollment_token_id is UNIQUE.                                   *)
(***************************************************************************)
CONSTANTS Hosts, Procs, Tokens, CAs, None

VARIABLES
    token,      \* enrollment_tokens: "absent", "valid" or "expired"
    consumed,   \* the tokens whose consumed_at is set
    agents,     \* the agents table: a key and the token that brought it in
    ca,         \* controller-ca.pem of each host
    key,        \* identity.key of each host
    meta,       \* identity.json of each host
    proc,       \* the enroll commands
    late        \* requests whose command has ended

controller == <<token, consumed, agents>>
files == <<ca, key, meta>>
vars == <<token, consumed, agents, ca, key, meta, proc, late>>

Keys == Hosts \X Procs

\* A key file that was created and whose content is not written.
Partial == <<>>

Registration == [token : Tokens, key : Keys]

Identity == [agent : Tokens, key : Keys]

Idle == [pc |-> "idle", host |-> None, token |-> None, ca |-> None, key |-> None]

\* The states of a command: not running, before it has a key, with a key.
Command ==
    {Idle}
        \cup [pc : {"check", "ca", "rename", "load", "create", "write"},
              host : Hosts, token : Tokens, ca : CAs \cup {None}, key : {None}]
        \cup [pc : {"wait", "registered"},
              host : Hosts, token : Tokens, ca : CAs \cup {None}, key : Keys]

\* None is no value of a file.
ASSUME EnrollAssumption ==
    None \notin CAs /\ None \notin Keys /\ None \notin Identity /\ None # Partial

Init ==
    /\ token = [t \in Tokens |-> "absent"]
    /\ consumed = {}
    /\ agents = {}
    /\ ca = [h \in Hosts |-> None]
    /\ key = [h \in Hosts |-> None]
    /\ meta = [h \in Hosts |-> None]
    /\ proc = [p \in Procs |-> Idle]
    /\ late = {}

-----------------------------------------------------------------------------
(* The controller *)

CreateEnrollmentToken(t) == token' = [token EXCEPT ![t] = "valid"]

\* A token is random: one that is issued was not there before.
IssueToken(t) ==
    /\ token[t] = "absent"
    /\ CreateEnrollmentToken(t)
    /\ UNCHANGED <<consumed, agents, files, proc, late>>

\* The lifetime of a token passes.
Expire(t) ==
    /\ token[t] = "valid"
    /\ token' = [token EXCEPT ![t] = "expired"]
    /\ UNCHANGED <<consumed, agents, files, proc, late>>

Registered(t, k) == [token |-> t, key |-> k] \in agents

\* Fault: agents.public_key is not UNIQUE.
KeyTaken_Never(k) == FALSE

KeyTaken(k) == \E r \in agents : r.key = k

\* Fault: the expiry is checked before the repetition is recognised.
Result_ExpiryFirst(t, k) ==
    CASE token[t] # "valid" -> "rejected"
      [] token[t] = "valid" /\ t \in consumed ->
            IF Registered(t, k) THEN "known" ELSE "rejected"
      [] OTHER -> IF KeyTaken(k) THEN "conflict" ELSE "created"

\* Fault: a used token answers with its agent whatever the key is.
Result_AnyKey(t, k) ==
    CASE t \in consumed -> "known"
      [] t \notin consumed /\ token[t] # "valid" -> "rejected"
      [] OTHER -> IF KeyTaken(k) THEN "conflict" ELSE "created"

\* What RegisterAgent returns.  A used token answers the key it was used with,
\* expired or not, and no other key.
Result(t, k) ==
    CASE t \in consumed -> IF Registered(t, k) THEN "known" ELSE "rejected"
      [] t \notin consumed /\ token[t] # "valid" -> "rejected"
      [] OTHER -> IF KeyTaken(k) THEN "conflict" ELSE "created"

\* Fault: the token is not marked as used.
RegisterAgent_TokenStays(t, k) ==
    /\ agents' = IF Result(t, k) = "created"
                 THEN agents \cup {[token |-> t, key |-> k]} ELSE agents
    /\ UNCHANGED <<token, consumed>>

RegisterAgent(t, k) ==
    IF Result(t, k) = "created"
    THEN /\ agents' = agents \cup {[token |-> t, key |-> k]}
         /\ consumed' = consumed \cup {t}
         /\ UNCHANGED token
    ELSE UNCHANGED controller

-----------------------------------------------------------------------------
(* The enroll command *)

At(p, l) == proc[p].pc = l

GoTo(p, l) == proc' = [proc EXCEPT ![p].pc = l]

Exit(p) == proc' = [proc EXCEPT ![p] = Idle]

\* The command is run, with the argument --ca-file or (None) without.
Run(p, h, t, c) ==
    /\ At(p, "idle")
    /\ token[t] # "absent"
    /\ proc' = [proc EXCEPT ![p] =
                    [pc |-> "check", host |-> h, token |-> t, ca |-> c, key |-> None]]
    /\ UNCHANGED <<controller, files, late>>

\* LoadIdentityMetadata succeeds: identity.json is there and identity.key matches.
LoadIdentityMetadata(h) == meta[h] # None /\ meta[h].key = key[h]

\* An identity file, be it valid or not, ends the command.
CheckIdentity(p) ==
    /\ At(p, "check")
    /\ IF meta[proc[p].host] # None THEN Exit(p)
       ELSE GoTo(p, IF proc[p].ca = None THEN "load" ELSE "ca")
    /\ UNCHANGED <<controller, files, late>>

\* ValidateAndPersistCAFile looks for controller-ca.pem and compares it ...
CheckCA(p) ==
    /\ At(p, "ca")
    /\ LET old == ca[proc[p].host] IN
       \/ old = None /\ GoTo(p, "rename")
       \/ old = proc[p].ca /\ GoTo(p, "load")
       \/ old \notin {None, proc[p].ca} /\ Exit(p)
    /\ UNCHANGED <<controller, files, late>>

\* ... and puts the new file in its place if it saw none.
RenameCA(p) ==
    /\ At(p, "rename")
    /\ ca' = [ca EXCEPT ![proc[p].host] = proc[p].ca]
    /\ GoTo(p, "load")
    /\ UNCHANGED <<controller, key, meta, late>>

\* With a key, the trust roots are loaded and the request is sent.
Send(p, k) == proc' = [proc EXCEPT ![p].pc = "wait", ![p].key = k]

\* loadExistingPrivateKey: a key file that is no key ends the command.
LoadKey(p) ==
    /\ At(p, "load")
    /\ LET k == key[proc[p].host] IN
       \/ k = None /\ GoTo(p, "create")
       \/ k = Partial /\ Exit(p)
       \/ k \in Keys /\ Send(p, k)
    /\ UNCHANGED <<controller, files, late>>

\* Fault: without O_EXCL the file of another command is truncated.
CreateKey_NotExclusive(p) ==
    /\ At(p, "create")
    /\ key' = [key EXCEPT ![proc[p].host] = Partial]
    /\ GoTo(p, "write")
    /\ UNCHANGED <<controller, ca, meta, late>>

\* The key is generated and its file created, unless there is one by now.
CreateKey(p) ==
    /\ At(p, "create")
    /\ \/ /\ key[proc[p].host] = None
          /\ key' = [key EXCEPT ![proc[p].host] = Partial]
          /\ GoTo(p, "write")
       \/ key[proc[p].host] # None /\ Exit(p) /\ UNCHANGED key
    /\ UNCHANGED <<controller, ca, meta, late>>

WriteKey(p) ==
    /\ At(p, "write")
    /\ key' = [key EXCEPT ![proc[p].host] = <<proc[p].host, p>>]
    /\ Send(p, <<proc[p].host, p>>)
    /\ UNCHANGED <<controller, ca, meta, late>>

\* A 200 or a 201 brings the agent id; a 401 or a 409 ends the command.
ReceiveAnswer(p, result) ==
    IF result \in {"known", "created"} THEN GoTo(p, "registered") ELSE Exit(p)

\* handleEnroll, and its answer.
HandleEnroll(p) ==
    /\ At(p, "wait")
    /\ RegisterAgent(proc[p].token, proc[p].key)
    /\ ReceiveAnswer(p, Result(proc[p].token, proc[p].key))
    /\ UNCHANGED <<files, late>>

\* handleEnroll for a request nobody waits for.
HandleLate(r) ==
    /\ RegisterAgent(r.token, r.key)
    /\ late' = late \ {r}
    /\ UNCHANGED <<files, proc>>

\* identity.json is written beside its place and renamed into it.
WriteIdentityMetadata(p) ==
    /\ At(p, "registered")
    /\ meta' = [meta EXCEPT ![proc[p].host] =
                    [agent |-> proc[p].token, key |-> proc[p].key]]
    /\ Exit(p)
    /\ UNCHANGED <<controller, ca, key, late>>

\* A file operation, the call or the transaction fails, or the command is killed.
\* The request may still reach the controller.
Fail(p) ==
    /\ ~At(p, "idle")
    /\ Exit(p)
    /\ \/ UNCHANGED late
       \/ At(p, "wait") /\ late' = late \cup {[token |-> proc[p].token, key |-> proc[p].key]}
    /\ UNCHANGED <<controller, files>>

Step(p) ==
    \/ CheckIdentity(p)
    \/ CheckCA(p)
    \/ RenameCA(p)
    \/ LoadKey(p)
    \/ CreateKey(p)
    \/ WriteKey(p)
    \/ HandleEnroll(p)
    \/ WriteIdentityMetadata(p)

Next ==
    \/ \E t \in Tokens : IssueToken(t) \/ Expire(t)
    \/ \E p \in Procs, h \in Hosts, t \in Tokens, c \in CAs \cup {None} : Run(p, h, t, c)
    \/ \E p \in Procs : Step(p) \/ Fail(p)
    \/ \E r \in late : HandleLate(r)

Spec == Init /\ [][Next]_vars

-----------------------------------------------------------------------------
(* Properties *)

\* Tables, files and commands have the values the code gives them; a command at
\* the call has a usable key (LoadOrGenerateKey).
EnrollTypeOK ==
    /\ token \in [Tokens -> {"absent", "valid", "expired"}]
    /\ consumed \in SUBSET Tokens
    /\ agents \in SUBSET Registration
    /\ ca \in [Hosts -> CAs \cup {None}]
    /\ key \in [Hosts -> Keys \cup {None, Partial}]
    /\ meta \in [Hosts -> Identity \cup {None}]
    /\ late \in SUBSET Registration
    /\ proc \in [Procs -> Command]

\* What identity.json says is true: its key is the one in identity.key (or
\* LoadIdentityMetadata fails, and the daemon with it), and the controller knows
\* that key as that agent (or it refuses every call of the daemon).
IdentityTruthful ==
    \A h \in Hosts : meta[h] # None =>
        LoadIdentityMetadata(h) /\ Registered(meta[h].agent, meta[h].key)

\* Enroll "generates and persists identity.key before network call": whatever
\* fails, and however late a request is handled, the key of a registered agent is
\* in the key file of a host.
RegisteredKeyIsKept == \A r \in agents : \E h \in Hosts : key[h] = r.key

\* RegisterAgent spends a token on one key and registers a key once, whatever is
\* repeated, late or concurrent; a token is spent exactly if it has an agent.
OneAgentPerTokenAndKey ==
    /\ \A r, s \in agents : r.token = s.token \/ r.key = s.key => r = s
    /\ consumed = {r.token : r \in agents}

\* WriteIdentityMetadata replaces identity.json unconditionally, and several
\* commands may have passed the check for an existing one.  Still a host that is
\* enrolled stays enrolled as the same agent.
IdentityIsFinal == [][\A h \in Hosts : meta[h] # None => meta'[h] = meta[h]]_vars

-----------------------------------------------------------------------------
(* Recovery *)

\* A run of the command on h with token t, without --ca-file: a CA file that
\* was given once is kept in the state directory.
Retry(p, h, t) == proc[p].host = h /\ proc[p].token = t /\ proc[p].ca = None

\* A command comes to an end; the administrator repeats it with the tokens they
\* have; and of the repetitions with a token that get to a step infinitely often,
\* infinitely many get past it.  Anything may fail any number of times.
RetryFairness ==
    \A p \in Procs :
        /\ WF_vars(Step(p))
        /\ \A h \in Hosts, t \in Tokens :
            /\ SF_vars(Run(p, h, t, None))
            /\ SF_vars(Retry(p, h, t) /\ CheckIdentity(p))
            /\ SF_vars(Retry(p, h, t) /\ LoadKey(p))
            /\ SF_vars(Retry(p, h, t) /\ HandleEnroll(p))
            /\ SF_vars(Retry(p, h, t) /\ WriteIdentityMetadata(p))

RetrySpec == Spec /\ RetryFairness

\* A registration whose answer was lost is not lost: repeating the command with
\* the same token completes it, also after the token expired (RegisterAgent:
\* "safe idempotent retry for the same token + same public key").
EnrollmentRecovers ==
    \A h \in Hosts : KeyTaken(key[h]) ~> meta[h] # None
=============================================================================
