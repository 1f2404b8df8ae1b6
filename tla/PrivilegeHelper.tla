--------------------------- MODULE PrivilegeHelper ---------------------------
(***************************************************************************)
(* The root helper beside the agent (internal/privilege): Serve from the   *)
(* runtime directory to the removal of the socket, the connections it      *)
(* handles, and the agent's Ping.  Several helpers may be started on one   *)
(* directory: by a supervisor after the end of the last one, or by         *)
(* mistake.  A socket file is named by the helper that bound it, since     *)
(* there is one path and a helper binds it at most once in its life; that  *)
(* device and inode identify it is what SameFile assumes.                  *)
(*                                                                         *)
(* Any call can fail and a helper can be killed at any step.  An           *)
(* administrator removes sockets that were left behind and, by mistake,    *)
(* one that is in use, and sets the owner and mode of a directory that was *)
(* left behind or spoilt.                                                  *)
(***************************************************************************)
EXTENDS Naturals, FiniteSets

CONSTANTS
    Helpers,
    Clients,
    MaxConcurrentConnections,
    MaxFaults,   \* bound: kills, signals and failing calls
    None

ASSUME HelperAssumption ==
    /\ MaxConcurrentConnections \in Nat \ {0}
    /\ MaxFaults \in Nat
    /\ None \notin Helpers

VARIABLES
    dir,      \* the runtime directory: "absent", "made" (created, with an owner
              \* or a mode that Serve refuses), "valid" or "invalid" (spoilt)
    path,     \* the socket at the path: its helper, or None
    mode,     \* whether its owner and mode are set: "bound" or "0660"
    proc,     \* the helper processes
    conn,     \* the connection of each client
    faults,
    mistaken  \* history: a socket in use was removed by the administrator

helperVars == <<dir, path, mode, proc, conn, faults, mistaken>>

files == <<dir, path, mode>>
history == <<faults, mistaken>>

\* stop: the context is cancelled.  created: createdFi.  err: retErr is set.
\* result: how the last Serve of the helper ended.
Off(result) == [pc |-> "off", stop |-> FALSE, created |-> None, err |-> FALSE,
                result |-> result]

Free == [at |-> "free", helper |-> None]

HelperInit ==
    /\ dir = "absent"
    /\ path = None
    /\ mode = "bound"
    /\ proc = [p \in Helpers |-> Off("ok")]
    /\ conn = [c \in Clients |-> Free]
    /\ faults = 0
    /\ mistaken = FALSE

At(p, pc) == proc[p].pc = pc

\* Where a helper has no socket yet.
Unbound == {"off", "dir", "mkdir", "chowndir", "chmoddir", "verifydir", "check", "listen"}

Listening(p) == proc[p].pc \in {"stat", "chmod", "harden", "serve"}

GoTo(p, pc) == proc' = [proc EXCEPT ![p].pc = pc]

Return(p) == proc' = [proc EXCEPT ![p] = Off(IF proc[p].err THEN "error" ELSE "ok")]

ReturnError(p) == proc' = [proc EXCEPT ![p] = Off("error")]

Of(p, at) == {c \in Clients : conn[c].helper = p /\ conn[c].at = at}

\* The listener is closed: connections that were not accepted are reset.
CloseListener(p) ==
    conn' = [c \in Clients |-> IF c \in Of(p, "queued") THEN Free ELSE conn[c]]

\* Something goes wrong; m: by a mistake of the administrator.
Fault(m) == faults < MaxFaults /\ faults' = faults + 1 /\ mistaken' = (mistaken \/ m)

-----------------------------------------------------------------------------
(* Serve: start *)

Start(p) ==
    /\ At(p, "off")
    /\ proc' = [proc EXCEPT ![p] = [Off("none") EXCEPT !.pc = "dir"]]
    /\ UNCHANGED <<files, conn, history>>

\* Fault: a directory that exists is an error.
InspectDir_MustCreate(p) ==
    /\ At(p, "dir")
    /\ IF dir = "absent" THEN GoTo(p, "mkdir") ELSE ReturnError(p)
    /\ UNCHANGED <<files, conn, history>>

\* A directory that exists has to be valid.
InspectDir(p) ==
    /\ At(p, "dir")
    /\ \/ dir = "absent" /\ GoTo(p, "mkdir")
       \/ dir = "valid" /\ GoTo(p, "check")
       \/ dir \notin {"absent", "valid"} /\ ReturnError(p)
    /\ UNCHANGED <<files, conn, history>>

\* mkdir fails if the directory exists by now.  Its group and what the umask
\* leaves of its mode may already be right.
MakeDir(p) ==
    /\ At(p, "mkdir")
    /\ \/ dir = "absent" /\ dir' \in {"made", "valid"} /\ GoTo(p, "chowndir")
       \/ dir # "absent" /\ dir' = dir /\ ReturnError(p)
    /\ UNCHANGED <<path, mode, conn, history>>

ChownDir(p) ==
    /\ At(p, "chowndir")
    /\ dir' \in IF dir = "made" THEN {"made", "valid"} ELSE {dir}
    /\ GoTo(p, "chmoddir")
    /\ UNCHANGED <<path, mode, conn, history>>

ChmodDir(p) ==
    /\ At(p, "chmoddir")
    /\ dir' = IF dir = "made" THEN "valid" ELSE dir
    /\ GoTo(p, "verifydir")
    /\ UNCHANGED <<path, mode, conn, history>>

VerifyDir(p) ==
    /\ At(p, "verifydir")
    /\ IF dir = "valid" THEN GoTo(p, "check") ELSE ReturnError(p)
    /\ UNCHANGED <<files, conn, history>>

CheckSocket(p) ==
    /\ At(p, "check")
    /\ IF path = None THEN GoTo(p, "listen") ELSE ReturnError(p)
    /\ UNCHANGED <<files, conn, history>>

\* Fault: a helper that could not bind cleans up as well.
Listen_FailureCleansUp(p) ==
    /\ At(p, "listen")
    /\ IF path = None
       THEN path' = p /\ mode' = "bound" /\ GoTo(p, "stat")
       ELSE UNCHANGED <<path, mode>> /\ GoTo(p, "unlink")
    /\ UNCHANGED <<dir, conn, history>>

\* bind fails if the path exists by now.
Listen(p) ==
    /\ At(p, "listen")
    /\ IF path = None
       THEN path' = p /\ mode' = "bound" /\ GoTo(p, "stat")
       ELSE UNCHANGED <<path, mode>> /\ ReturnError(p)
    /\ UNCHANGED <<dir, conn, history>>

\* createdFi is whatever is at the path.  If nothing is, Serve returns at once.
StatCreated(p) ==
    /\ At(p, "stat")
    /\ \/ /\ path # None
          /\ proc' = [proc EXCEPT ![p].pc = "chmod", ![p].created = path]
          /\ UNCHANGED conn
       \/ path = None /\ ReturnError(p) /\ CloseListener(p)
    /\ UNCHANGED <<files, history>>

Abort(p) ==
    /\ proc' = [proc EXCEPT ![p].pc = "drain", ![p].err = TRUE]
    /\ CloseListener(p)

\* chown and chmod of the path.
SetMode(p) ==
    /\ At(p, "chmod")
    /\ \/ path # None /\ mode' = "0660" /\ GoTo(p, "harden") /\ UNCHANGED <<conn, history>>
       \/ path = None /\ Abort(p) /\ UNCHANGED <<mode, history>>
       \/ Fault(FALSE) /\ Abort(p) /\ UNCHANGED mode
    /\ UNCHANGED <<dir, path>>

\* The socket is verified and the process hardened; then the loop starts.
Harden(p) ==
    /\ At(p, "harden")
    /\ \/ path # None /\ mode = "0660" /\ GoTo(p, "serve") /\ UNCHANGED <<conn, history>>
       \/ (path = None \/ mode # "0660") /\ Abort(p) /\ UNCHANGED history
       \/ Fault(FALSE) /\ Abort(p)
    /\ UNCHANGED files

-----------------------------------------------------------------------------
(* Serve: loop and end *)

\* With every slot in use the connection is closed.
Accept(p, c) ==
    /\ At(p, "serve")
    /\ c \in Of(p, "queued")
    /\ conn' = [conn EXCEPT ![c] =
                    IF Cardinality(Of(p, "handled")) < MaxConcurrentConnections
                    THEN [@ EXCEPT !.at = "handled"] ELSE Free]
    /\ UNCHANGED <<files, proc, history>>

AcceptFails(p) ==
    /\ At(p, "serve")
    /\ Fault(FALSE)
    /\ Abort(p)
    /\ UNCHANGED files

\* SIGTERM or SIGINT.
Cancel(p) ==
    /\ proc[p].pc # "off" /\ ~proc[p].stop
    /\ Fault(FALSE)
    /\ proc' = [proc EXCEPT ![p].stop = TRUE]
    /\ UNCHANGED <<files, conn>>

\* The goroutine that waits for the context closes the listener.
Shutdown(p) ==
    /\ At(p, "serve")
    /\ proc[p].stop
    /\ GoTo(p, "drain")
    /\ CloseListener(p)
    /\ UNCHANGED <<files, history>>

\* Fault: the handlers are not waited for.
Drained_NoWait(p) ==
    /\ At(p, "drain")
    /\ GoTo(p, "inspect")
    /\ UNCHANGED <<files, conn, history>>

\* wg.Wait
Drained(p) ==
    /\ At(p, "drain")
    /\ Of(p, "handled") = {}
    /\ GoTo(p, "inspect")
    /\ UNCHANGED <<files, conn, history>>

\* cleanupSocket: the directory is still valid, the path still createdFi.
InspectSocket(p) ==
    /\ At(p, "inspect")
    /\ IF dir = "valid" /\ path = proc[p].created THEN GoTo(p, "unlink") ELSE ReturnError(p)
    /\ UNCHANGED <<files, conn, history>>

\* os.Remove, of whatever is at the path.
RemoveSocket(p) ==
    /\ At(p, "unlink")
    /\ path' = None
    /\ IF path = None THEN ReturnError(p) ELSE Return(p)
    /\ UNCHANGED <<dir, mode, conn, history>>

\* Any other call fails, with the files as they are.  Serve returns at once: before
\* the bind, when the new socket cannot be inspected (it stays), or in cleanupSocket.
CallFails(p) ==
    /\ proc[p].pc \in (Unbound \ {"off"}) \cup {"stat", "inspect", "unlink"}
    /\ Fault(FALSE)
    /\ ReturnError(p)
    /\ CloseListener(p)
    /\ UNCHANGED files

-----------------------------------------------------------------------------
(* handleConn *)

\* One packet of the agent is read and answered.
Answer(c) ==
    /\ conn[c].at = "handled"
    /\ conn' = [conn EXCEPT ![c].at = "answered"]
    /\ UNCHANGED <<files, proc, history>>

\* Fault: a connection that sends nothing is kept.
Refuse_NoDeadline(c) == FALSE /\ conn[c].at = "handled" /\ UNCHANGED helperVars

\* Wrong peer, wrong packet, or nothing before the deadline.
Refuse(c) ==
    /\ conn[c].at = "handled"
    /\ conn' = [conn EXCEPT ![c].at = "refused"]
    /\ UNCHANGED <<files, proc, history>>

\* The handler gave its slot back before; now it closes the connection.
Close(c) ==
    /\ conn[c].at \in {"answered", "refused"}
    /\ conn' = [conn EXCEPT ![c] = Free]
    /\ UNCHANGED <<files, proc, history>>

-----------------------------------------------------------------------------
(* Ping *)

CheckPath(c) ==
    /\ conn[c].at = "free"
    /\ dir = "valid" /\ path # None /\ mode = "0660"
    /\ conn' = [conn EXCEPT ![c].at = "checked"]
    /\ UNCHANGED <<files, proc, history>>

\* The dial reaches the helper whose socket is at the path, if it listens.
Dial(c) ==
    /\ conn[c].at = "checked"
    /\ conn' = [conn EXCEPT ![c] =
                    IF path # None /\ (path # None => Listening(path))
                    THEN [at |-> "queued", helper |-> path] ELSE Free]
    /\ UNCHANGED <<files, proc, history>>

\* The deadline of the client, while nobody accepts.
GiveUp(c) ==
    /\ conn[c].at = "queued"
    /\ conn' = [conn EXCEPT ![c] = Free]
    /\ UNCHANGED <<files, proc, history>>

-----------------------------------------------------------------------------
(* Environment *)

Kill(p) ==
    /\ proc[p].pc # "off"
    /\ Fault(FALSE)
    /\ proc' = [proc EXCEPT ![p] = Off("killed")]
    /\ conn' = [c \in Clients |-> IF conn[c].helper = p THEN Free ELSE conn[c]]
    /\ UNCHANGED files

\* The administrator removes a socket whose helper is gone.
RemoveStale ==
    /\ path # None
    /\ proc[path].pc \in Unbound
    /\ path' = None
    /\ UNCHANGED <<dir, mode, proc, conn, history>>

\* By mistake, the one of a helper that is not.
RemoveLive ==
    /\ path # None
    /\ proc[path].pc \notin Unbound
    /\ Fault(TRUE)
    /\ path' = None
    /\ UNCHANGED <<dir, mode, proc, conn>>

SpoilDir ==
    /\ dir = "valid"
    /\ Fault(FALSE)
    /\ dir' = "invalid"
    /\ UNCHANGED <<path, mode, proc, conn>>

\* Neither Serve nor the supervisor does this: a directory that a helper created
\* and did not live to finish is refused by every later one.
RepairDir ==
    /\ dir \in {"made", "invalid"}
    /\ dir' = "valid"
    /\ UNCHANGED <<path, mode, proc, conn, history>>

-----------------------------------------------------------------------------
Run(p) ==
    \/ InspectDir(p) \/ MakeDir(p) \/ ChownDir(p) \/ ChmodDir(p) \/ VerifyDir(p)
    \/ CheckSocket(p) \/ Listen(p) \/ StatCreated(p) \/ SetMode(p) \/ Harden(p)
    \/ Shutdown(p) \/ Drained(p) \/ InspectSocket(p) \/ RemoveSocket(p)

Handle(c) == Answer(c) \/ Refuse(c) \/ Close(c)

HelperNext ==
    \/ \E p \in Helpers :
        Start(p) \/ Run(p) \/ CallFails(p) \/ AcceptFails(p) \/ Cancel(p) \/ Kill(p)
    \/ \E p \in Helpers, c \in Clients : Accept(p, c)
    \/ \E c \in Clients : Handle(c) \/ CheckPath(c) \/ Dial(c) \/ GiveUp(c)
    \/ RemoveStale \/ RemoveLive \/ SpoilDir \/ RepairDir

HelperSpec == HelperInit /\ [][HelperNext]_helperVars

\* Processes run, handlers end at their deadline, the supervisor starts helpers
\* again, and the administrator repairs what needs a person.
HelperFairSpec ==
    /\ HelperSpec
    /\ \A p \in Helpers : WF_helperVars(Start(p)) /\ WF_helperVars(Run(p))
    /\ \A c \in Clients : WF_helperVars(Refuse(c)) /\ WF_helperVars(Close(c))
    /\ WF_helperVars(RemoveStale) /\ WF_helperVars(RepairDir)

-----------------------------------------------------------------------------
(* Properties *)

\* The handlers of a helper are never more than its semaphore has slots, which they
\* give back before their connections are closed, and Serve neither cleans up nor
\* returns, on any of its paths, while one of them runs.
HandlersContained ==
    /\ \A p \in Helpers : Cardinality(Of(p, "handled")) <= MaxConcurrentConnections
    /\ \A c \in Clients :
        conn[c].at = "handled" => proc[conn[c].helper].pc \in {"serve", "drain"}

\* The path tells which helper serves.  However helpers are started, stopped and
\* killed, the socket at the path is that of the helper that listens: the check of
\* the path, the exclusive bind and the removal after the listener is closed leave no
\* moment for two, and cleanupSocket never removes the socket of another, whatever
\* happens between its SameFile check and the removal (only where somebody removed a
\* socket in use can a replacement be there by then).  And a Serve that returned no
\* error has removed its own, so that the next helper can start.
PathTellsHelper ==
    \A p \in Helpers :
        /\ ~mistaken /\ Listening(p) => path = p
        /\ At(p, "off") /\ proc[p].result = "ok" => path # p

\* A helper that is told to stop ends, whatever it was doing and however silent
\* its clients are.
ShutdownEnds == \A p \in Helpers : proc[p].stop ~> At(p, "off")

\* The service comes back after any kills, signals and failing calls.  A supervisor
\* that starts helpers again is not enough: Serve refuses a socket that was left behind
\* and a directory that was created and not given its owner and mode.  With an
\* administrator who removes such sockets and repairs the directory nothing else is in
\* the way, whatever two helpers leave half done: in the end one of them serves on the
\* socket that clients find.  (After the removal of a socket in use its helper goes on
\* and nobody finds it.)
ServesAgain ==
    []<>(mistaken \/ \E p \in Helpers : At(p, "serve") /\ path = p /\ mode = "0660")
=============================================================================
