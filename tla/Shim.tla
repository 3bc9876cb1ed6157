-------------------------------- MODULE Shim --------------------------------
(***************************************************************************)
(* A shim process (cmd/shim): started for one service over one backend, it *)
(* serves the requests of its clients concurrently and keeps no state of   *)
(* its own.  A request is the record of what was asked and of the call it  *)
(* makes next (at); every call to a remote backend is a step of its own,   *)
(* and a request may end after any of them, because the call fails or the  *)
(* process dies.  An in-process backend works under its mutex: its calls   *)
(* neither fail half way nor outlive the process.                          *)
(*                                                                         *)
(* The modules of the services extend this one.  A service that was not    *)
(* started takes no step, so a model may hold several of them.             *)
(***************************************************************************)
EXTENDS Naturals, FiniteSets, Sequences

CONSTANTS
    Deployments,    \* pairs of a service and a backend a shim may be started with
    Clients,        \* requests in progress at a time
    None

ASSUME NoneIsNoClient == None \notin Clients

VARIABLES
    service, backend,   \* fixed when the shim starts
    req,                \* per client, the request it is in
    alone,              \* history: the running client whose request no other overlapped
    answer              \* history: what the last step answered a request that ran alone

shimVars == <<service, backend, req, alone, answer>>

Idle == [op |-> "idle"]

ShimInit ==
    /\ \E d \in Deployments : service = d[1] /\ backend = d[2]
    /\ req = [c \in Clients |-> Idle]
    /\ alone = None
    /\ answer = None

Running(c) == {d \in Clients \ {c} : req[d] # Idle}
Asks(op) == {c \in Clients : req[c].op = op}
Is(c, op, at, b) == req[c].op = op /\ req[c].at = at /\ backend = b

Begin(c, r) ==
    /\ req[c] = Idle
    /\ req' = [req EXCEPT ![c] = r]
    /\ alone' = IF Running(c) = {} THEN c ELSE None
    /\ answer' = None
    /\ UNCHANGED <<service, backend>>
Goes(c, r) ==
    /\ req' = [req EXCEPT ![c] = r]
    /\ answer' = None
    /\ UNCHANGED <<service, backend, alone>>
Ends(c, says) ==
    /\ req' = [req EXCEPT ![c] = Idle]
    /\ alone' = None
    /\ answer' = IF alone = c THEN says ELSE None
    /\ UNCHANGED <<service, backend>>
Fails(c) == Ends(c, None)

\* A handler may also be given by the calls it has still to make (todo).
Doing(c, do, b) == backend = b /\ req[c] # Idle /\ Head(req[c].todo).do = do
Now(c) == Head(req[c].todo)

\* A call fails or the process dies: the request ends where it is.
Dies(c) ==
    /\ backend # "inmem"
    /\ req[c] # Idle
    /\ Fails(c)
=============================================================================
