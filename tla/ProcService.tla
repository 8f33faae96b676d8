---------------------------- MODULE ProcService ----------------------------
(***************************************************************************)
(* What the dispatcher promises each of its clients, whatever concurrency  *)
(* it runs with: a connection that was greeted is either waiting for input *)
(* or in service, never twice at once; its input is only consumed while it *)
(* is in service; and the server hangs up only on a client that sent the   *)
(* console's ctrl-c or ctrl-z (proc_handler::process).                     *)
(* ProcThreadPool is shown to implement this specification.                *)
(***************************************************************************)
CONSTANT Handlers       \* identities of proc_handler objects

VARIABLES
    conn,               \* where each connection stands
    input               \* what the socket holds for the server to read

serviceVars == <<conn, input>>

\* What a socket can hold: nothing, a fragment without a line end, a complete
\* request (a line end, or more than constCommandBufferLength bytes), bytes
\* with a ctrl-c or ctrl-z, or the end of the stream.
Inputs == {"quiet", "partial", "request", "ctrl", "eof"}

ServiceTypeOK ==
    /\ conn \in [Handlers -> {"none", "new", "waiting", "busy"}]
    /\ input \in [Handlers -> Inputs]

ServiceInit ==
    /\ conn = [h \in Handlers |-> "none"]
    /\ input = [h \in Handlers |-> "quiet"]

\* The acceptor made a handler for a client.
Connect(h) ==
    /\ conn[h] = "none"
    /\ conn' = [conn EXCEPT ![h] = "new"]
    /\ UNCHANGED input

\* proc_handler::open succeeded: the client was greeted and is waited for.
Greet(h) ==
    /\ conn[h] = "new"
    /\ conn' = [conn EXCEPT ![h] = "waiting"]
    /\ UNCHANGED input

\* proc_handler::open failed: the connection is given up.
Refuse(h) ==
    /\ conn[h] = "new"
    /\ conn' = [conn EXCEPT ![h] = "none"]
    /\ input' = [input EXCEPT ![h] = "quiet"]

\* The client writes, or closes its end.
Send(h, i) ==
    /\ conn[h] # "none"
    /\ input[h] = "quiet"
    /\ input' = [input EXCEPT ![h] = i]
    /\ UNCHANGED conn

\* The server takes a connection with something to read into service.
Take(h) ==
    /\ conn[h] = "waiting"
    /\ input[h] # "quiet"
    /\ conn' = [conn EXCEPT ![h] = "busy"]
    /\ UNCHANGED input

\* The server consumes what the client sent.
Consume(h) ==
    /\ conn[h] = "busy"
    /\ input[h] \in {"partial", "request"}
    /\ input' = [input EXCEPT ![h] = "quiet"]
    /\ UNCHANGED conn

\* Service ends and the connection is waited for again.
Release(h) ==
    /\ conn[h] = "busy"
    /\ conn' = [conn EXCEPT ![h] = "waiting"]
    /\ UNCHANGED input

\* The server hangs up, on ctrl-c or ctrl-z only.
HangUp(h) ==
    /\ conn[h] = "busy"
    /\ input[h] = "ctrl"
    /\ conn' = [conn EXCEPT ![h] = "none"]
    /\ input' = [input EXCEPT ![h] = "quiet"]

ServiceNext ==
    \E h \in Handlers :
        \/ Connect(h) \/ Greet(h) \/ Refuse(h)
        \/ \E i \in Inputs : Send(h, i)
        \/ Take(h) \/ Consume(h) \/ Release(h) \/ HangUp(h)

ServiceSpec == ServiceInit /\ [][ServiceNext]_serviceVars
=============================================================================
