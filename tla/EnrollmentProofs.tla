-------------------------- MODULE EnrollmentProofs --------------------------
(***************************************************************************)
(* The safety of enrollment, for any hosts, commands, tokens and CA files. *)
(***************************************************************************)
EXTENDS Enrollment, TLAPS

\* A key that the controller knows or will hear of is in the key file of a host.
SentKeysKept == \A r \in agents \cup late : \E h \in Hosts : key[h] = r.key

\* What a command knows is still so: the key it has read or written, the empty
\* key file it has created alone, the agent it was told.
CommandsUpToDate ==
    /\ \A p \in Procs : proc[p].pc \in {"wait", "registered"} => proc[p].key = key[proc[p].host]
    /\ \A p \in Procs : At(p, "registered") => Registered(proc[p].token, proc[p].key)
    /\ \A p \in Procs : At(p, "write") => key[proc[p].host] = Partial
    /\ \A p, q \in Procs :
        At(p, "write") /\ At(q, "write") /\ proc[p].host = proc[q].host => p = q

\* The inductive invariant.
EnrollInv ==
    /\ EnrollTypeOK
    /\ OneAgentPerTokenAndKey
    /\ IdentityTruthful
    /\ SentKeysKept
    /\ CommandsUpToDate

\* An empty key file is no key.
LEMMA PartialIsNoKey == Partial \notin Keys
BY DEF Partial, Keys

\* The states of a command that are not Idle have a host, a token and a place.
LEMMA CommandFields ==
    ASSUME NEW c \in Command
    PROVE  /\ c.pc = "idle" <=> c = Idle
           /\ c.pc # "idle" => c.host \in Hosts /\ c.token \in Tokens /\ c.ca \in CAs \cup {None}
           /\ c.pc \in {"wait", "registered"} => c.key \in Keys
           /\ c.pc \in {"check", "ca", "rename", "load", "create", "write"} => c.key = None
           /\ c.pc \in {"idle", "check", "ca", "rename", "load", "create", "write",
                        "wait", "registered"}
BY DEF Command, Idle

\* A command that moves before it has a key stays a command.
LEMMA CommandMoves ==
    ASSUME NEW c \in Command, c.pc \in {"check", "ca", "rename", "load", "create", "write"}
    PROVE  /\ \A l \in {"check", "ca", "rename", "load", "create", "write"} :
                [c EXCEPT !.pc = l] \in Command
           /\ \A k \in Keys : [c EXCEPT !.pc = "wait", !.key = k] \in Command
<1> DEFINE Places == {"check", "ca", "rename", "load", "create", "write"}
<1> DEFINE Starting == [pc : Places, host : Hosts, token : Tokens,
                        ca : CAs \cup {None}, key : {None}]
<1> DEFINE Keyed == [pc : {"wait", "registered"}, host : Hosts, token : Tokens,
                     ca : CAs \cup {None}, key : Keys]
<1>1. c \in Starting
  BY DEF Command, Idle
<1>2. ASSUME NEW l \in Places
      PROVE  [c EXCEPT !.pc = l] \in Starting
  BY <1>1
<1>3. ASSUME NEW k \in Keys
      PROVE  [c EXCEPT !.pc = "wait", !.key = k] \in Keyed
  BY Zenon, <1>1
<1>4. Starting \subseteq Command /\ Keyed \subseteq Command
  BY DEF Command
<1> HIDE DEF Starting, Keyed
<1> QED
  BY Zenon, <1>2, <1>3, <1>4

\* A command that is answered stays a command.
LEMMA CommandAnswered ==
    ASSUME NEW c \in Command, c.pc = "wait"
    PROVE  [c EXCEPT !.pc = "registered"] \in Command
BY DEF Command, Idle

\* The empty state directories and tables satisfy the invariant.
LEMMA EnrollInit == Init => EnrollInv
BY DEF Init, EnrollInv, EnrollTypeOK, OneAgentPerTokenAndKey, IdentityTruthful, SentKeysKept,
       CommandsUpToDate, Command, At, Idle

-----------------------------------------------------------------------------
(* The steps *)

\* A transaction of the controller adds at most the agent that was asked for, and
\* keeps tokens and keys unique; an answer with an agent is true.
LEMMA RegisterKeeps ==
    ASSUME EnrollTypeOK, OneAgentPerTokenAndKey,
           NEW t \in Tokens, NEW k \in Keys, RegisterAgent(t, k)
    PROVE  /\ token' = token
           /\ consumed' \in SUBSET Tokens
           /\ agents' \in SUBSET Registration
           /\ agents \subseteq agents'
           /\ agents' \subseteq agents \cup {[token |-> t, key |-> k]}
           /\ OneAgentPerTokenAndKey'
           /\ Result(t, k) \in {"known", "created"} => Registered(t, k)'
<1> DEFINE new == [token |-> t, key |-> k]
<1>0. new \in Registration /\ new.token = t /\ new.key = k
  BY DEF Registration
<1>1. CASE Result(t, k) = "created"
  <2>1. agents' = agents \cup {new} /\ consumed' = consumed \cup {t} /\ token' = token
    BY <1>1 DEF RegisterAgent
  <2>2. t \notin consumed /\ ~KeyTaken(k)
    BY <1>1 DEF Result
  <2>3. \A r \in agents : r.token # t /\ r.key # k
    BY <2>2 DEF OneAgentPerTokenAndKey, KeyTaken
  <2> HIDE DEF new
  <2>4. OneAgentPerTokenAndKey'
    BY <1>0, <2>1, <2>3 DEF OneAgentPerTokenAndKey
  <2>5. new \in agents'
    BY <2>1
  <2> QED
    BY <1>0, <2>1, <2>4, <2>5 DEF EnrollTypeOK, Registered, new
<1>2. CASE Result(t, k) # "created"
  <2>1. UNCHANGED <<token, consumed, agents>>
    BY <1>2 DEF RegisterAgent, controller
  <2>2. Result(t, k) = "known" => Registered(t, k)
    BY DEF Result
  <2> QED
    BY <1>2, <2>1, <2>2 DEF EnrollTypeOK, OneAgentPerTokenAndKey, Registered
<1> QED
  BY <1>1, <1>2

\* A command that moves on, ends or starts keeps the invariant if what it knows
\* after the step is so, and if only known keys are sent.
LEMMA MoveKeeps ==
    ASSUME EnrollInv, NEW p \in Procs, NEW c \in Command,
           proc' = [proc EXCEPT ![p] = c],
           c.pc \notin {"registered", "write"},
           c.pc = "wait" => c.key = key[c.host],
           UNCHANGED <<token, consumed, agents, key, meta>>,
           ca' \in [Hosts -> CAs \cup {None}],
           late' \in SUBSET Registration,
           \A r \in late' : \E h \in Hosts : key[h] = r.key
    PROVE  EnrollInv'
<1>1. proc \in [Procs -> Command]
  BY DEF EnrollInv, EnrollTypeOK
<1>2. EnrollTypeOK'
  BY <1>1 DEF EnrollInv, EnrollTypeOK
<1>3. OneAgentPerTokenAndKey' /\ IdentityTruthful'
  BY DEF EnrollInv, OneAgentPerTokenAndKey, IdentityTruthful, LoadIdentityMetadata,
         Registered
<1>4. SentKeysKept'
  BY DEF EnrollInv, SentKeysKept
<1>5. \A q \in Procs : proc'[q] = IF q = p THEN c ELSE proc[q]
  BY <1>1
<1>6. CommandsUpToDate'
  BY <1>5 DEF EnrollInv, CommandsUpToDate, At, Registered
<1> QED
  BY <1>2, <1>3, <1>4, <1>6 DEF EnrollInv

\* A command that ends without having changed anything keeps the invariant.
LEMMA ExitKeeps ==
    ASSUME EnrollInv, NEW p \in Procs, Exit(p), UNCHANGED <<controller, files, late>>
    PROVE  EnrollInv'
<1>1. Idle \in Command /\ Idle.pc = "idle"
  BY DEF Command, Idle
<1>2. \A r \in late : \E h \in Hosts : key[h] = r.key
  BY DEF EnrollInv, SentKeysKept
<1>3. ca \in [Hosts -> CAs \cup {None}] /\ late \in SUBSET Registration
  BY DEF EnrollInv, EnrollTypeOK
<1> HIDE DEF Idle
<1> QED
  BY Zenon, <1>1, <1>2, <1>3, MoveKeeps DEF Exit, controller, files

\* A command that goes to a place before it has a key, other than "write", keeps
\* the invariant; the CA file may change with it.
LEMMA GoToKeeps ==
    ASSUME EnrollInv, NEW p \in Procs,
           NEW l \in {"ca", "rename", "load", "create"}, GoTo(p, l),
           proc[p].pc \in {"check", "ca", "rename", "load"},
           UNCHANGED <<controller, key, meta, late>>, ca' \in [Hosts -> CAs \cup {None}]
    PROVE  EnrollInv'
<1> DEFINE c == [proc[p] EXCEPT !.pc = l]
<1>1. proc[p] \in Command /\ late \in SUBSET Registration
  BY DEF EnrollInv, EnrollTypeOK
<1>2. c \in Command
  BY Zenon, <1>1, CommandMoves
<1>3. c.pc = l
  <2>1. "pc" \in DOMAIN proc[p]
    BY <1>1 DEF Command, Idle
  <2> QED
    BY <2>1
<1>4. proc' = [proc EXCEPT ![p] = c]
  BY DEF GoTo
<1>5. \A r \in late : \E h \in Hosts : key[h] = r.key
  BY DEF EnrollInv, SentKeysKept
<1> HIDE DEF c
<1> QED
  BY Zenon, <1>1, <1>2, <1>3, <1>4, <1>5, MoveKeeps DEF controller

\* The fields of a command that got its key.
LEMMA SentFields ==
    ASSUME NEW c \in Command, NEW k
    PROVE  /\ [c EXCEPT !.pc = "wait", !.key = k].pc = "wait"
           /\ [c EXCEPT !.pc = "wait", !.key = k].key = k
           /\ [c EXCEPT !.pc = "wait", !.key = k].host = c.host
BY DEF Command, Idle

\* The start of a command (Run) keeps the invariant.
LEMMA RunKeeps ==
    ASSUME EnrollInv, NEW p \in Procs, NEW h \in Hosts, NEW t \in Tokens,
           NEW f \in CAs \cup {None}, Run(p, h, t, f)
    PROVE  EnrollInv'
<1> DEFINE c == [pc |-> "check", host |-> h, token |-> t, ca |-> f, key |-> None]
<1>1. c \in Command /\ c.pc = "check"
  BY DEF Command
<1>2. proc' = [proc EXCEPT ![p] = c] /\ UNCHANGED <<controller, files, late>>
  BY DEF Run
<1>3. ca \in [Hosts -> CAs \cup {None}] /\ late \in SUBSET Registration
  BY DEF EnrollInv, EnrollTypeOK
<1>4. \A r \in late : \E g \in Hosts : key[g] = r.key
  BY DEF EnrollInv, SentKeysKept
<1> HIDE DEF c
<1> QED
  BY Zenon, <1>1, <1>2, <1>3, <1>4, MoveKeeps DEF controller, files

\* The look at identity.json and the two steps of ValidateAndPersistCAFile keep
\* the invariant.
LEMMA ChecksKeep ==
    ASSUME EnrollInv, NEW p \in Procs, CheckIdentity(p) \/ CheckCA(p) \/ RenameCA(p)
    PROVE  EnrollInv'
<1>0. proc[p] \in Command /\ ca \in [Hosts -> CAs \cup {None}]
  BY DEF EnrollInv, EnrollTypeOK
<1>1. CASE CheckIdentity(p)
  BY <1>0, <1>1, ExitKeeps, GoToKeeps DEF CheckIdentity, At, files
<1>2. CASE CheckCA(p)
  BY <1>0, <1>2, ExitKeeps, GoToKeeps DEF CheckCA, At, files
<1>3. CASE RenameCA(p)
  <2>1. proc[p].ca \in CAs \cup {None}
    BY <1>0, <1>3, CommandFields DEF RenameCA, At
  <2>2. ca' \in [Hosts -> CAs \cup {None}]
    BY Zenon, <1>0, <1>3, <2>1 DEF RenameCA
  <2> QED
    BY <1>3, <2>2, GoToKeeps DEF RenameCA, At
<1> QED
  BY <1>1, <1>2, <1>3

\* loadExistingPrivateKey (LoadKey) keeps the invariant.
LEMMA LoadKeyKeeps ==
    ASSUME EnrollInv, NEW p \in Procs, LoadKey(p)
    PROVE  EnrollInv'
<1> DEFINE k == key[proc[p].host]
<1>0. /\ proc[p] \in Command /\ proc[p].pc = "load"
      /\ ca \in [Hosts -> CAs \cup {None}] /\ late \in SUBSET Registration
      /\ UNCHANGED <<controller, files, late>>
  BY DEF EnrollInv, EnrollTypeOK, LoadKey, At
<1>1. CASE k = None /\ GoTo(p, "create")
  BY <1>0, <1>1, GoToKeeps DEF files
<1>2. CASE k = Partial /\ Exit(p)
  BY <1>0, <1>2, ExitKeeps
<1>3. CASE k \in Keys /\ Send(p, k)
  <2> DEFINE c == [proc[p] EXCEPT !.pc = "wait", !.key = k]
  <2>1. c \in Command
    BY Zenon, <1>0, <1>3, CommandMoves
  <2>2. c.pc = "wait" /\ c.key = key[c.host]
    BY <1>0, SentFields
  <2>3. proc' = [proc EXCEPT ![p] = c]
    BY Zenon, <1>3 DEF Send
  <2>4. \A r \in late : \E h \in Hosts : key[h] = r.key
    BY DEF EnrollInv, SentKeysKept
  <2> HIDE DEF c
  <2> QED
    BY Zenon, <1>0, <2>1, <2>2, <2>3, <2>4, MoveKeeps DEF controller, files
<1> QED
  BY <1>1, <1>2, <1>3 DEF LoadKey

\* A command that fails keeps the invariant: the request it leaves behind has a
\* key of its host.
LEMMA FailKeeps ==
    ASSUME EnrollInv, NEW p \in Procs, Fail(p)
    PROVE  EnrollInv'
<1> DEFINE sent == [token |-> proc[p].token, key |-> proc[p].key]
<1>0. /\ proc[p] \in Command
      /\ ca \in [Hosts -> CAs \cup {None}] /\ late \in SUBSET Registration
      /\ UNCHANGED <<controller, files>> /\ Exit(p)
  BY DEF EnrollInv, EnrollTypeOK, Fail
<1>1. CASE UNCHANGED late
  BY <1>0, <1>1, ExitKeeps
<1>2. CASE At(p, "wait") /\ late' = late \cup {sent}
  <2>1. proc[p].token \in Tokens /\ proc[p].key \in Keys /\ proc[p].host \in Hosts
    BY <1>0, <1>2, CommandFields DEF At
  <2>2. sent \in Registration /\ sent.key = key[proc[p].host]
    BY <1>2, <2>1 DEF Registration, EnrollInv, CommandsUpToDate, At
  <2> HIDE DEF sent
  <2>3. \A r \in late' : \E h \in Hosts : key[h] = r.key
    BY <1>2, <2>1, <2>2 DEF EnrollInv, SentKeysKept
  <2>4. Idle \in Command /\ Idle.pc = "idle"
    BY DEF Command, Idle
  <2> HIDE DEF Idle
  <2> QED
    BY Zenon, <1>0, <1>2, <2>2, <2>3, <2>4, MoveKeeps DEF Exit, controller, files
<1> QED
  BY <1>1, <1>2 DEF Fail

\* A change of a key file that held no key leaves what rests on key files alone.
LEMMA OtherKeysStay ==
    ASSUME EnrollInv, NEW g \in Hosts, key[g] \notin Keys,
           NEW k \in Keys \cup {Partial}, key' = [key EXCEPT ![g] = k],
           UNCHANGED <<controller, meta, late>>
    PROVE  /\ key' \in [Hosts -> Keys \cup {None, Partial}]
           /\ IdentityTruthful'
           /\ SentKeysKept'
           /\ OneAgentPerTokenAndKey'
<1>1. /\ key \in [Hosts -> Keys \cup {None, Partial}]
      /\ meta \in [Hosts -> Identity \cup {None}]
      /\ agents \cup late \subseteq Registration
  BY DEF EnrollInv, EnrollTypeOK
<1>2. \A h \in Hosts : key[h] \in Keys => key'[h] = key[h]
  BY <1>1
<1>3. IdentityTruthful'
  BY <1>1, <1>2 DEF EnrollInv, IdentityTruthful, LoadIdentityMetadata, Registered, Identity,
                    controller
<1>4. SentKeysKept'
  BY <1>1, <1>2 DEF EnrollInv, SentKeysKept, Registration, controller
<1> QED
  BY <1>1, <1>3, <1>4 DEF EnrollInv, OneAgentPerTokenAndKey, controller

\* The exclusive creation of the key file keeps the invariant: there was no key.
LEMMA CreateKeyKeeps ==
    ASSUME EnrollInv, NEW p \in Procs, CreateKey(p)
    PROVE  EnrollInv'
<1> DEFINE g == proc[p].host
<1> DEFINE c == [proc[p] EXCEPT !.pc = "write"]
<1>0. proc \in [Procs -> Command] /\ proc[p].pc = "create" /\ g \in Hosts
  BY CommandFields DEF EnrollInv, EnrollTypeOK, CreateKey, At
<1>1. CASE key[g] # None
  BY <1>1, ExitKeeps DEF CreateKey, files
<1>2. CASE key[g] = None
  <2>1. key' = [key EXCEPT ![g] = Partial] /\ UNCHANGED <<controller, ca, meta, late>>
    BY <1>2 DEF CreateKey
  <2>2. c \in Command
    BY Zenon, <1>0, CommandMoves
  <2>3. c.pc = "write" /\ c.host = g
    BY <1>0 DEF Command, Idle
  <2>4. \A q \in Procs : proc'[q] = IF q = p THEN c ELSE proc[q]
    BY <1>0, <1>2 DEF CreateKey, GoTo
  <2>5. proc' \in [Procs -> Command]
    BY <1>0, <1>2, <2>2 DEF CreateKey, GoTo
  <2>6. key[g] \notin Keys /\ None # Partial
    BY <1>2, EnrollAssumption
  <2>7. /\ key' \in [Hosts -> Keys \cup {None, Partial}]
        /\ IdentityTruthful' /\ SentKeysKept' /\ OneAgentPerTokenAndKey'
    BY Zenon, <1>0, <2>1, <2>6, OtherKeysStay
  <2>8. EnrollTypeOK'
    BY <2>1, <2>5, <2>7 DEF EnrollInv, EnrollTypeOK, controller
  <2>9. \A q \in Procs :
            q # p /\ proc[q].pc \in {"wait", "registered"} => proc[q].host # g
    BY <1>0, <2>6, CommandFields DEF EnrollInv, CommandsUpToDate
  <2>10. \A q \in Procs : proc[q].pc = "write" => proc[q].host # g
    BY <1>2, <2>6 DEF EnrollInv, CommandsUpToDate, At
  <2>11. key \in [Hosts -> Keys \cup {None, Partial}]
    BY DEF EnrollInv, EnrollTypeOK
  <2>12. \A h \in Hosts : key'[h] = IF h = g THEN Partial ELSE key[h]
    BY <1>0, <2>1, <2>11
  <2>13. \A q \in Procs : proc[q].pc # "idle" => proc[q].host \in Hosts
    BY <1>0, CommandFields
  <2> HIDE DEF c, g
  <2>14. CommandsUpToDate'
    BY <2>1, <2>3, <2>4, <2>9, <2>10, <2>12, <2>13, <1>0
       DEF EnrollInv, CommandsUpToDate, At, Registered, controller
  <2> QED
    BY <2>7, <2>8, <2>14 DEF EnrollInv
<1> QED
  BY <1>1, <1>2

\* The writing of the key file keeps the invariant: the file was empty and no other
\* command writes it.
LEMMA WriteKeyKeeps ==
    ASSUME EnrollInv, NEW p \in Procs, WriteKey(p)
    PROVE  EnrollInv'
<1> DEFINE g == proc[p].host
<1> DEFINE k == <<g, p>>
<1> DEFINE c == [proc[p] EXCEPT !.pc = "wait", !.key = k]
<1>0. /\ proc \in [Procs -> Command] /\ proc[p].pc = "write" /\ g \in Hosts
      /\ key \in [Hosts -> Keys \cup {None, Partial}]
  BY CommandFields DEF EnrollInv, EnrollTypeOK, WriteKey, At
<1>1. k \in Keys
  BY <1>0 DEF Keys
<1>2. key' = [key EXCEPT ![g] = k] /\ UNCHANGED <<controller, ca, meta, late>>
  BY DEF WriteKey
<1>3. c \in Command
  BY Zenon, <1>0, <1>1, CommandMoves
<1>4. c.pc = "wait" /\ c.key = k /\ c.host = g
  BY <1>0, SentFields
<1>5. proc' = [proc EXCEPT ![p] = c]
  BY Zenon DEF WriteKey, Send
<1>6. key[g] = Partial /\ key[g] \notin Keys
  BY <1>0, PartialIsNoKey DEF EnrollInv, CommandsUpToDate, At
<1>7. /\ key' \in [Hosts -> Keys \cup {None, Partial}]
      /\ IdentityTruthful' /\ SentKeysKept' /\ OneAgentPerTokenAndKey'
  BY Zenon, <1>0, <1>1, <1>2, <1>6, OtherKeysStay
<1> HIDE DEF c, k
<1>8. EnrollTypeOK'
  BY <1>0, <1>2, <1>3, <1>5, <1>7 DEF EnrollInv, EnrollTypeOK, controller
<1>9. \A q \in Procs : proc[q].pc \in {"wait", "registered"} => proc[q].host # g
  BY <1>0, <1>6, CommandFields DEF EnrollInv, CommandsUpToDate
<1>10. \A q \in Procs : q # p /\ proc[q].pc = "write" => proc[q].host # g
  BY <1>0 DEF EnrollInv, CommandsUpToDate, At
<1>11. \A h \in Hosts : key'[h] = IF h = g THEN k ELSE key[h]
  BY <1>0, <1>2
<1>12. \A q \in Procs : proc[q].pc # "idle" => proc[q].host \in Hosts
  BY <1>0, CommandFields
<1>13. \A q \in Procs : proc'[q] = IF q = p THEN c ELSE proc[q]
  BY <1>0, <1>5
<1> HIDE DEF g
<1>14. CommandsUpToDate'
  BY <1>0, <1>2, <1>4, <1>9, <1>10, <1>11, <1>12, <1>13
     DEF EnrollInv, CommandsUpToDate, At, Registered, controller
<1> QED
  BY <1>7, <1>8, <1>14 DEF EnrollInv

\* A transaction for a key that a host keeps preserves what does not depend on
\* the commands.
LEMMA TransactionKeeps ==
    ASSUME EnrollInv, NEW t \in Tokens, NEW k \in Keys, RegisterAgent(t, k),
           NEW g \in Hosts, key[g] = k,
           UNCHANGED files, late' \subseteq late
    PROVE  IdentityTruthful' /\ SentKeysKept'
<1>1. agents \subseteq agents' /\ agents' \subseteq agents \cup {[token |-> t, key |-> k]}
  BY RegisterKeeps DEF EnrollInv
<1>2. IdentityTruthful'
  BY <1>1 DEF EnrollInv, IdentityTruthful, LoadIdentityMetadata, Registered, files
<1>3. \A r \in agents' \cup late' :
        r \in agents \cup late \/ r.key = k
  BY <1>1
<1>4. SentKeysKept'
  BY <1>3 DEF EnrollInv, SentKeysKept, files
<1> QED
  BY <1>2, <1>4

\* handleEnroll, for a command that waits, keeps the invariant.
LEMMA HandleEnrollKeeps ==
    ASSUME EnrollInv, NEW p \in Procs, HandleEnroll(p)
    PROVE  EnrollInv'
<1> DEFINE told == [proc[p] EXCEPT !.pc = "registered"]
<1>0. proc \in [Procs -> Command] /\ proc[p].pc = "wait"
  BY DEF EnrollInv, EnrollTypeOK, HandleEnroll, At
<1>1. PICK t \in Tokens, k \in Keys :
        /\ t = proc[p].token /\ k = proc[p].key
        /\ proc[p].host \in Hosts /\ key[proc[p].host] = k
  BY <1>0, CommandFields DEF EnrollInv, CommandsUpToDate
<1>2. RegisterAgent(t, k) /\ UNCHANGED <<files, late>>
  BY <1>1 DEF HandleEnroll
<1>3. IdentityTruthful' /\ SentKeysKept'
  BY <1>1, <1>2, TransactionKeeps
<1>4. /\ token' = token /\ consumed' \in SUBSET Tokens /\ agents' \in SUBSET Registration
      /\ agents \subseteq agents' /\ OneAgentPerTokenAndKey'
      /\ Result(t, k) \in {"known", "created"} => Registered(t, k)'
  BY <1>1, <1>2, RegisterKeeps DEF EnrollInv
<1>5. PICK c \in Command :
        /\ proc' = [proc EXCEPT ![p] = c]
        /\ \/ c.pc = "idle"
           \/ /\ c.pc = "registered" /\ c.host = proc[p].host
              /\ c.token = t /\ c.key = k /\ Registered(t, k)'
  <2>1. CASE Result(t, k) \in {"known", "created"}
    <3>1. told \in Command
      BY <1>0, CommandAnswered
    <3>2. told.pc = "registered" /\ told.host = proc[p].host /\ told.token = t /\ told.key = k
      BY <1>0, <1>1 DEF Command, Idle
    <3>3. proc' = [proc EXCEPT ![p] = told]
      BY <1>1, <2>1 DEF HandleEnroll, ReceiveAnswer, GoTo
    <3> HIDE DEF told
    <3> QED
      BY Zenon, <1>4, <2>1, <3>1, <3>2, <3>3
  <2>2. CASE Result(t, k) \notin {"known", "created"}
    <3>1. Idle \in Command /\ Idle.pc = "idle"
      BY DEF Command, Idle
    <3> QED
      BY <1>1, <2>2, <3>1 DEF HandleEnroll, ReceiveAnswer, Exit
  <2> QED
    BY <2>1, <2>2
<1>6. EnrollTypeOK'
  BY <1>0, <1>2, <1>4, <1>5 DEF EnrollInv, EnrollTypeOK, files
<1>7. \A q \in Procs : proc'[q] = IF q = p THEN c ELSE proc[q]
  BY <1>0, <1>5
<1>8. CommandsUpToDate'
  BY <1>1, <1>2, <1>4, <1>5, <1>7 DEF EnrollInv, CommandsUpToDate, At, Registered, files
<1> QED
  BY <1>3, <1>4, <1>6, <1>8 DEF EnrollInv

\* handleEnroll, for a command that has ended, keeps the invariant.
LEMMA HandleLateKeeps ==
    ASSUME EnrollInv, NEW r \in late, HandleLate(r)
    PROVE  EnrollInv'
<1>1. r \in Registration /\ r.token \in Tokens /\ r.key \in Keys
  BY DEF EnrollInv, EnrollTypeOK, Registration
<1>2. PICK g \in Hosts : key[g] = r.key
  BY DEF EnrollInv, SentKeysKept
<1>3. RegisterAgent(r.token, r.key) /\ UNCHANGED <<files, proc>> /\ late' = late \ {r}
  BY DEF HandleLate
<1>4. IdentityTruthful' /\ SentKeysKept'
  BY <1>1, <1>2, <1>3, TransactionKeeps
<1>5. /\ token' = token /\ consumed' \in SUBSET Tokens /\ agents' \in SUBSET Registration
      /\ agents \subseteq agents' /\ OneAgentPerTokenAndKey'
  BY <1>1, <1>3, RegisterKeeps DEF EnrollInv
<1>6. EnrollTypeOK'
  BY <1>3, <1>5 DEF EnrollInv, EnrollTypeOK, files
<1>7. CommandsUpToDate'
  BY <1>3, <1>5 DEF EnrollInv, CommandsUpToDate, At, Registered, files
<1> QED
  BY <1>4, <1>5, <1>6, <1>7 DEF EnrollInv

\* The identity that a command writes is the one that is there, if one is.
LEMMA SameIdentity ==
    ASSUME EnrollInv, NEW p \in Procs, At(p, "registered")
    PROVE  /\ proc[p].host \in Hosts
           /\ [agent |-> proc[p].token, key |-> proc[p].key] \in Identity
           /\ meta[proc[p].host] # None =>
                meta[proc[p].host] = [agent |-> proc[p].token, key |-> proc[p].key]
<1> DEFINE g == proc[p].host
<1> DEFINE t == proc[p].token
<1> DEFINE k == proc[p].key
<1>1. g \in Hosts /\ t \in Tokens /\ k \in Keys
  BY CommandFields DEF EnrollInv, EnrollTypeOK, At
<1>2. k = key[g] /\ Registered(t, k)
  BY DEF EnrollInv, CommandsUpToDate, At
<1>3. ASSUME meta[g] # None
      PROVE  meta[g] = [agent |-> t, key |-> k]
  <2>1. meta[g] \in Identity
    BY <1>1, <1>3 DEF EnrollInv, EnrollTypeOK
  <2>2. meta[g].key = k /\ Registered(meta[g].agent, k)
    BY <1>1, <1>2, <1>3 DEF EnrollInv, IdentityTruthful, LoadIdentityMetadata
  <2>3. meta[g].agent = t
    BY <1>2, <2>2 DEF EnrollInv, OneAgentPerTokenAndKey, Registered
  <2> QED
    BY <2>1, <2>2, <2>3 DEF Identity
<1> QED
  BY <1>1, <1>3 DEF Identity

\* WriteIdentityMetadata keeps the invariant.
LEMMA WriteIdentityKeeps ==
    ASSUME EnrollInv, NEW p \in Procs, WriteIdentityMetadata(p)
    PROVE  EnrollInv'
<1> DEFINE g == proc[p].host
<1> DEFINE id == [agent |-> proc[p].token, key |-> proc[p].key]
<1>1. g \in Hosts /\ id \in Identity /\ proc \in [Procs -> Command]
  BY SameIdentity DEF WriteIdentityMetadata, EnrollInv, EnrollTypeOK
<1>2. id.key = key[g] /\ Registered(id.agent, id.key)
  BY DEF EnrollInv, CommandsUpToDate, At, WriteIdentityMetadata
<1>3. /\ meta' = [meta EXCEPT ![g] = id] /\ proc' = [proc EXCEPT ![p] = Idle]
      /\ UNCHANGED <<controller, ca, key, late>>
  BY DEF WriteIdentityMetadata, Exit
<1>4. Idle \in Command /\ Idle.pc = "idle"
  BY DEF Command, Idle
<1> HIDE DEF g, id, Idle
<1>5. EnrollTypeOK'
  BY <1>1, <1>3, <1>4 DEF EnrollInv, EnrollTypeOK, controller
<1>6. meta \in [Hosts -> Identity \cup {None}]
  BY DEF EnrollInv, EnrollTypeOK
<1>7. IdentityTruthful'
  BY <1>1, <1>2, <1>3, <1>6 DEF EnrollInv, IdentityTruthful, LoadIdentityMetadata, Registered,
                                controller
<1>8. OneAgentPerTokenAndKey' /\ SentKeysKept'
  BY <1>3 DEF EnrollInv, OneAgentPerTokenAndKey, SentKeysKept, controller
<1>9. \A q \in Procs : proc'[q] = IF q = p THEN Idle ELSE proc[q]
  BY <1>1, <1>3
<1>10. CommandsUpToDate'
  BY <1>3, <1>4, <1>9 DEF EnrollInv, CommandsUpToDate, At, Registered, controller
<1> QED
  BY <1>5, <1>7, <1>8, <1>10 DEF EnrollInv

\* IssueToken and the expiry of a token keep the invariant.
LEMMA TokenKeeps ==
    ASSUME EnrollInv, NEW t \in Tokens, IssueToken(t) \/ Expire(t)
    PROVE  EnrollInv'
<1>1. /\ token' \in [Tokens -> {"absent", "valid", "expired"}]
      /\ UNCHANGED <<consumed, agents, files, proc, late>>
  BY DEF EnrollInv, EnrollTypeOK, IssueToken, CreateEnrollmentToken, Expire
<1> QED
  BY <1>1 DEF EnrollInv, EnrollTypeOK, OneAgentPerTokenAndKey, IdentityTruthful,
              LoadIdentityMetadata, SentKeysKept, CommandsUpToDate, At, Registered, files

\* Every step keeps the invariant.
LEMMA EnrollNext == EnrollInv /\ [Next]_vars => EnrollInv'
<1> SUFFICES ASSUME EnrollInv, [Next]_vars PROVE EnrollInv'
  OBVIOUS
<1>1. CASE \E t \in Tokens : IssueToken(t) \/ Expire(t)
  BY <1>1, TokenKeeps
<1>2. CASE \E p \in Procs, h \in Hosts, t \in Tokens, c \in CAs \cup {None} : Run(p, h, t, c)
  BY <1>2, RunKeeps
<1>3. CASE \E p \in Procs : Step(p)
  BY <1>3, ChecksKeep, LoadKeyKeeps, CreateKeyKeeps, WriteKeyKeeps, HandleEnrollKeeps,
     WriteIdentityKeeps DEF Step
<1>4. CASE \E p \in Procs : Fail(p)
  BY <1>4, FailKeeps
<1>5. CASE \E r \in late : HandleLate(r)
  BY <1>5, HandleLateKeeps
<1>6. CASE UNCHANGED vars
  BY <1>6 DEF vars, EnrollInv, EnrollTypeOK, OneAgentPerTokenAndKey, IdentityTruthful,
              LoadIdentityMetadata, SentKeysKept, CommandsUpToDate, At, Registered
<1> QED
  BY <1>1, <1>2, <1>3, <1>4, <1>5, <1>6 DEF Next

\* The invariant holds in every state.
LEMMA EnrollInvariant == Spec => []EnrollInv
BY EnrollInit, EnrollNext, PTL DEF Spec

-----------------------------------------------------------------------------
(* The theorems *)

\* The identity file that Enroll writes never disagrees with the key file or
\* with the agents table.
THEOREM IdentityStaysTruthful == Spec => []IdentityTruthful
<1>1. EnrollInv => IdentityTruthful
  BY DEF EnrollInv
<1> QED
  BY <1>1, EnrollInvariant, PTL

\* RegisterAgent keeps tokens and keys one to one with agents.
THEOREM OneAgent == Spec => []OneAgentPerTokenAndKey
<1>1. EnrollInv => OneAgentPerTokenAndKey
  BY DEF EnrollInv
<1> QED
  BY <1>1, EnrollInvariant, PTL

\* LoadOrGenerateKey persists a key before it is sent and never gives one up, so
\* that a registered key stays on a host.
THEOREM RegisteredKeysStay == Spec => []RegisteredKeyIsKept
<1>1. EnrollInv => RegisteredKeyIsKept
  BY DEF EnrollInv, SentKeysKept, RegisteredKeyIsKept
<1> QED
  BY <1>1, EnrollInvariant, PTL

\* WriteIdentityMetadata never changes the identity of an enrolled host.
THEOREM IdentityStays == Spec => IdentityIsFinal
<1> DEFINE Kept == \A h \in Hosts : meta[h] # None => meta'[h] = meta[h]
<1>1. EnrollInv /\ [Next]_vars => [Kept]_vars
  <2> SUFFICES ASSUME EnrollInv, Next PROVE Kept
    BY DEF vars
  <2>1. CASE \E p \in Procs : WriteIdentityMetadata(p)
    <3>1. PICK p \in Procs : WriteIdentityMetadata(p)
      BY <2>1
    <3> DEFINE id == [agent |-> proc[p].token, key |-> proc[p].key]
    <3>2. meta' = [meta EXCEPT ![proc[p].host] = id] /\ At(p, "registered")
      BY <3>1 DEF WriteIdentityMetadata
    <3>3. meta[proc[p].host] # None => meta[proc[p].host] = id
      BY <3>2, SameIdentity
    <3>4. meta \in [Hosts -> Identity \cup {None}]
      BY DEF EnrollInv, EnrollTypeOK
    <3> HIDE DEF id
    <3> QED
      BY <3>2, <3>3, <3>4
  <2>2. CASE ~\E p \in Procs : WriteIdentityMetadata(p)
    <3>1. UNCHANGED meta
      BY Zenon, <2>2 DEF Next, Step, IssueToken, Expire, Run, CheckIdentity, CheckCA, RenameCA, LoadKey,
                  CreateKey, WriteKey, HandleEnroll, HandleLate, Fail, files
    <3> QED
      BY <3>1
  <2> QED
    BY <2>1, <2>2
<1> QED
  BY <1>1, EnrollInvariant, PTL DEF Spec, IdentityIsFinal
=============================================================================
