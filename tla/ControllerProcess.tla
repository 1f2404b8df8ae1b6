-------------------------- MODULE ControllerProcess --------------------------
(***************************************************************************)
(* The controller process from its configuration to its exit: runServer of *)
(* cmd/controller, Run, serve and serveDual of internal/controller, and the *)
(* life of the connection pool.                                            *)
(*                                                                         *)
(* An http.Server is external.  Its Serve runs in a goroutine of its own   *)
(* and ends with one value sent on errCh: "closed" after a Shutdown, else  *)
(* "failed".  Shutdown closes the listener and waits for the requests of   *)
(* its server until its context ends.  One context of five seconds serves  *)
(* the Shutdown of both servers.                                           *)
(***************************************************************************)
EXTENDS Naturals, Sequences

CONSTANT Requests

VARIABLES
    place,      \* where runServer and the functions that it calls are
    servers,    \* the servers to run: {"local"}, or with the one for the agents
    stop,       \* a signal has cancelled the context
    listener,   \* by server: "none", "open" or "closed"
    goroutine,  \* by server, Serve: "none", "starting", "serving", "closed" or "failed"
    shut,       \* the servers whose Shutdown has begun
    errCh,      \* what Serve has returned, not yet received
    received,   \* and received
    timer,      \* shutdownCtx: "off", "running" or "over"
    overdue,    \* the servers whose Shutdown has returned the error of the context
    pool,       \* the connection pool: "none", "open", "closing" or "closed"
    request,    \* the requests in progress
    result      \* what runServer returns: "none", "ok" or "error"

starting == <<servers, listener>>
serving == <<goroutine, shut, errCh, received, timer, overdue>>
controllerVars == <<place, starting, stop, serving, pool, request, result>>

Server == {"local", "remote"}

NoRequest == [at |-> "free", server |-> "none"]

ControllerInit ==
    /\ place = "config"
    /\ servers = {}
    /\ stop = FALSE
    /\ listener = [s \in Server |-> "none"]
    /\ goroutine = [s \in Server |-> "none"]
    /\ shut = {}
    /\ errCh = <<>>
    /\ received = <<>>
    /\ timer = "off"
    /\ overdue = {}
    /\ pool = "none"
    /\ request = [r \in Requests |-> NoRequest]
    /\ result = "none"

\* runServer returns: its deferred db.Close comes first, if there is a pool.
RunServerReturns(v) == place' = "return" /\ result' = v

ContinueAt(l) == place' = l /\ UNCHANGED result

-----------------------------------------------------------------------------
(* Start *)

Config == [listenOK : BOOLEAN, databaseOK : BOOLEAN, levelOK : BOOLEAN,
           agentAddress : {"", "valid", "malformed"}, cert : BOOLEAN, key : BOOLEAN]

\* Config.validate: the agents' listener needs a certificate and its key.
validate(c) ==
    /\ c.listenOK /\ c.databaseOK /\ c.levelOK
    /\ c.agentAddress # "" => c.agentAddress = "valid" /\ c.cert /\ c.key

RemoteEnabled(c) == c.agentAddress # ""

LoadConfig(c) ==
    /\ place = "config"
    /\ IF validate(c)
       THEN /\ servers' = IF RemoteEnabled(c) THEN Server ELSE {"local"}
            /\ ContinueAt("open")
       ELSE RunServerReturns("error") /\ UNCHANGED servers
    /\ UNCHANGED <<stop, listener, serving, pool, request>>

\* database.Open: a pool whose first ping fails is closed again.
Open ==
    /\ place = "open"
    /\ \/ ~stop /\ pool' = "open" /\ ContinueAt("migrate")
       \/ RunServerReturns("error") /\ UNCHANGED pool
    /\ UNCHANGED <<stop, starting, serving, request>>

Migrate ==
    /\ place = "migrate"
    /\ \/ ~stop /\ ContinueAt("tls")
       \/ RunServerReturns("error")
    /\ UNCHANGED <<stop, starting, serving, pool, request>>

\* Run reads the key pair before anything listens.
BuildRemoteTLSConfig ==
    /\ place = "tls"
    /\ \/ ContinueAt("listenLocal")
       \/ "remote" \in servers /\ RunServerReturns("error")
    /\ UNCHANGED <<stop, starting, serving, pool, request>>

\* serve and serveDual start one goroutine per server.
StartServing ==
    /\ goroutine' = [s \in Server |-> IF s \in servers THEN "starting" ELSE "none"]
    /\ ContinueAt("select")
    /\ UNCHANGED <<shut, errCh, received, timer, overdue>>

ListenLocal ==
    /\ place = "listenLocal"
    /\ \/ /\ listener' = [listener EXCEPT !["local"] = "open"]
          /\ IF "remote" \in servers THEN ContinueAt("listenRemote") /\ UNCHANGED serving
             ELSE StartServing
       \/ RunServerReturns("error") /\ UNCHANGED <<listener, serving>>
    /\ UNCHANGED <<stop, servers, pool, request>>

ListenRemote ==
    /\ place = "listenRemote"
    /\ \/ listener' = [listener EXCEPT !["remote"] = "open"] /\ StartServing
       \/ /\ listener' = [listener EXCEPT !["local"] = "closed"]
          /\ RunServerReturns("error")
          /\ UNCHANGED serving
    /\ UNCHANGED <<stop, servers, pool, request>>

-----------------------------------------------------------------------------
(* http.Server.Serve, external *)

\* Serve ends: its listener is closed, its value sent.
ServeEnds(s, v) ==
    /\ goroutine' = [goroutine EXCEPT ![s] = v]
    /\ listener' = [listener EXCEPT ![s] = "closed"]
    /\ errCh' = Append(errCh, v)

Serve(s) ==
    /\ \/ /\ goroutine[s] = "starting" /\ s \notin shut
          /\ goroutine' = [goroutine EXCEPT ![s] = "serving"]
          /\ UNCHANGED <<listener, errCh>>
       \/ goroutine[s] \in {"starting", "serving"} /\ s \in shut /\ ServeEnds(s, "closed")
    /\ UNCHANGED <<place, stop, servers, shut, received, timer, overdue, pool, request,
                   result>>

ServeFails(s) ==
    /\ goroutine[s] = "serving" /\ s \notin shut
    /\ ServeEnds(s, "failed")
    /\ UNCHANGED <<place, stop, servers, shut, received, timer, overdue, pool, request,
                   result>>

\* Connections that were kept alive bring requests after Serve has failed, too.
Arrive(r, s) ==
    /\ request[r] = NoRequest
    /\ goroutine[s] \in {"serving", "failed"} /\ s \notin shut
    /\ place # "exit"
    /\ request' = [request EXCEPT ![r] = [at |-> "handler", server |-> s]]
    /\ UNCHANGED <<place, stop, starting, serving, pool, result>>

\* A handler asks for a connection, uses it, and answers.  A pool that is closed or
\* closing gives no connection, and the handler answers 500.
HandleRequest(r) ==
    /\ place # "exit"
    /\ \/ /\ request[r].at = "handler" /\ pool = "open"
          /\ request' = [request EXCEPT ![r].at = "query"]
       \/ request[r].at = "query" /\ request' = [request EXCEPT ![r].at = "answer"]
       \/ /\ request[r].at \in {"handler", "answer"}
          /\ request' = [request EXCEPT ![r] = NoRequest]
    /\ UNCHANGED <<place, stop, starting, serving, pool, result>>

-----------------------------------------------------------------------------
(* serve and serveDual *)

Busy(s) == \E r \in Requests : request[r].server = s

\* case err := <-errCh.  With one server there is nothing else to stop.
OneStopped ==
    /\ place = "select"
    /\ errCh # <<>>
    /\ received' = <<Head(errCh)>>
    /\ errCh' = Tail(errCh)
    /\ IF servers = Server
       THEN timer' = "running" /\ ContinueAt("shutLocal")
       ELSE /\ RunServerReturns(IF Head(errCh) = "closed" THEN "ok" ELSE "error")
            /\ UNCHANGED timer
    /\ UNCHANGED <<stop, starting, goroutine, shut, overdue, pool, request>>

\* case <-ctx.Done()
Cancelled ==
    /\ place = "select"
    /\ stop
    /\ timer' = "running"
    /\ ContinueAt("shutLocal")
    /\ UNCHANGED <<stop, starting, goroutine, shut, errCh, received, overdue, pool, request>>

\* Shutdown begins: the listener is closed, idle connections too.
ShutdownServer(s, l, then) ==
    /\ place = l
    /\ shut' = shut \cup {s}
    /\ listener' = [listener EXCEPT ![s] = "closed"]
    /\ ContinueAt(then)
    /\ UNCHANGED <<stop, servers, goroutine, errCh, received, timer, overdue, pool, request>>

\* Shutdown returns: its requests have ended, or the context has.
ShutdownReturns(s, l, then) ==
    /\ place = l
    /\ \/ ~Busy(s) /\ UNCHANGED overdue
       \/ Busy(s) /\ timer = "over" /\ overdue' = overdue \cup {s}
    /\ ContinueAt(then)
    /\ UNCHANGED <<stop, starting, goroutine, shut, errCh, received, timer, pool, request>>

\* Fault: after a signal the server for the agents is not shut down.
ShutdownRemote_OnFailure ==
    \/ received # <<>> /\ ShutdownServer("remote", "shutRemote", "drainRemote")
    \/ /\ received = <<>> /\ place = "shutRemote" /\ ContinueAt("receive")
       /\ UNCHANGED <<stop, starting, serving, pool, request>>

ShutdownRemote == ShutdownServer("remote", "shutRemote", "drainRemote")

ShutdownServers ==
    \/ ShutdownServer("local", "shutLocal", "drainLocal")
    \/ ShutdownReturns("local", "drainLocal",
                       IF "remote" \in servers THEN "shutRemote" ELSE "receive")
    \/ ShutdownRemote
    \/ ShutdownReturns("remote", "drainRemote", "receive")

Expire ==
    /\ timer = "running"
    /\ timer' = "over"
    /\ UNCHANGED <<place, stop, starting, goroutine, shut, errCh, received, overdue, pool,
                   request, result>>

\* Fault: the error of the second Shutdown is dropped.
Outcome_LocalOnly(values, lateServers) ==
    IF (\E i \in DOMAIN values : values[i] = "failed") \/ "local" \in lateServers
    THEN "error" ELSE "ok"

\* The first failure among the values, else, after a signal, the first error of a
\* Shutdown.  After a failure the errors of Shutdown are not looked at, and the
\* result is an error anyway.
Outcome(values, lateServers) ==
    IF (\E i \in DOMAIN values : values[i] = "failed") \/ lateServers # {}
    THEN "error" ELSE "ok"

\* One value per server is received before anything is returned.
ReceiveRest ==
    /\ place = "receive"
    /\ IF Len(received) < (IF "remote" \in servers THEN 2 ELSE 1)
       THEN /\ errCh # <<>>
            /\ received' = Append(received, Head(errCh))
            /\ errCh' = Tail(errCh)
            /\ ContinueAt("receive")
       ELSE RunServerReturns(Outcome(received, overdue)) /\ UNCHANGED <<errCh, received>>
    /\ UNCHANGED <<stop, starting, goroutine, shut, timer, overdue, pool, request>>

-----------------------------------------------------------------------------
(* Exit *)

\* The deferred db.Close waits for the connections in use; then main exits.
CloseDB ==
    /\ place = "return"
    /\ \/ pool = "open" /\ pool' = "closing" /\ UNCHANGED place
       \/ pool = "closing" /\ ~(\E r \in Requests : request[r].at = "query")
            /\ pool' = "closed" /\ UNCHANGED place
       \/ pool \in {"none", "closed"} /\ place' = "exit" /\ UNCHANGED pool
    /\ UNCHANGED <<stop, starting, serving, request, result>>

\* SIGINT or SIGTERM, at any time after signal.NotifyContext.
Signal ==
    /\ place \notin {"config", "exit"}
    /\ ~stop
    /\ stop' = TRUE
    /\ UNCHANGED <<place, starting, serving, pool, request, result>>

Exited == place = "exit" /\ UNCHANGED controllerVars

ControllerStep ==
    \/ Open \/ Migrate \/ BuildRemoteTLSConfig \/ ListenLocal \/ ListenRemote
    \/ OneStopped \/ Cancelled \/ ShutdownServers \/ ReceiveRest \/ CloseDB
    \/ \E c \in Config : LoadConfig(c)

ControllerNext ==
    \/ ControllerStep \/ Expire \/ Signal \/ Exited
    \/ \E s \in Server : Serve(s) \/ ServeFails(s)
    \/ \E r \in Requests : HandleRequest(r) \/ \E s \in Server : Arrive(r, s)

ControllerSpec == ControllerInit /\ [][ControllerNext]_controllerVars

\* The process and Serve keep running, the context of a Shutdown ends, and handlers
\* end: what they wait for has a timeout of its own.
ControllerFairSpec ==
    /\ ControllerSpec
    /\ WF_controllerVars(ControllerStep) /\ WF_controllerVars(Expire)
    /\ \A s \in Server : WF_controllerVars(Serve(s))
    /\ \A r \in Requests : WF_controllerVars(HandleRequest(r))

-----------------------------------------------------------------------------
(* Properties *)

Returned == place \in {"return", "exit"}

\* What Run returns is true of what it leaves behind.  On every path no listener is
\* open, no Serve runs and every value that a Serve sent was received.  A server that
\* failed makes the result an error, also when a signal arrives at the same time and
\* whichever value is received first.  And a clean exit has cut off no request: the
\* budget that the two Shutdowns share may be used up by the first, but then that is
\* the result.
ReturnIsTrue ==
    Returned =>
        /\ \A s \in Server :
            listener[s] # "open" /\ goroutine[s] \notin {"starting", "serving"}
        /\ errCh = <<>>
        /\ result = "ok" => /\ \A s \in Server : goroutine[s] # "failed"
                            /\ \A r \in Requests : request[r] = NoRequest

\* A signal ends the process, whatever its requests do and wherever it is, and so
\* does the failure of one of the two servers ("shut down the other server").
StopEnds == (stop \/ \E s \in Server : goroutine[s] = "failed") ~> place = "exit"
=============================================================================
