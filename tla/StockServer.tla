----------------------------- MODULE StockServer -----------------------------
(***************************************************************************)
(* The builds with a server, over an ideal channel: a clt_ call of client.c *)
(* is one or two request/response rounds, the server serves each request   *)
(* at most once and in one step, and an answer reaches the process that    *)
(* asked.  What every IPC backend has to provide to client.c and server.c. *)
(***************************************************************************)
EXTENDS ClientServer

CONSTANTS
  Procs,        \* client processes
  Idle,         \* request[p]: p is between two calls
  Gone,         \* request[p]: p is dead, or will wait for ever
  NoMessage,    \* rpc[p]: p waits for nothing
  Pending       \* resp[p]: not answered yet

VARIABLES
  stock,        \* the quantity of each product, or Absent
  request,      \* the clt_ call each process is in
  rpc,          \* the message that call has sent
  resp          \* the response to it

serverVars == <<stock, request, rpc, resp>>

ServerInit ==
  /\ stock \in [Names -> Quantities \cup {Absent}]
  /\ request = [p \in Procs |-> Idle]
  /\ rpc = [p \in Procs |-> NoMessage]
  /\ resp = [p \in Procs |-> Pending]

\* A clt_ call sends its first message.  A refused quantity never gets here:
\* that call returns without sending anything.
Call(p) ==
  /\ request[p] = Idle
  /\ \E r \in Requests :
       /\ ~Refused(r)
       /\ request' = [request EXCEPT ![p] = r]
       /\ rpc' = [rpc EXCEPT ![p] = FirstMessage(r)]
  /\ UNCHANGED <<stock, resp>>

\* The server's handler runs for the message of p.
Serve(p) ==
  LET m == rpc[p]
  IN /\ m # NoMessage
     /\ request[p] # Gone
     /\ resp[p] = Pending
     /\ stock' = [stock EXCEPT ![m.name] = HoldsAfter(m, @)]
     /\ resp' = [resp EXCEPT ![p] = ResponseTo(m, stock[m.name])]
     /\ UNCHANGED <<request, rpc>>

\* The response reaches the call: it returns, or clt_add_product goes on.
Answer(p) ==
  /\ request[p] # Gone
  /\ resp[p] # Pending
  /\ IF GoesOn(request[p], rpc[p], resp[p])
     THEN /\ rpc' = [rpc EXCEPT ![p] = AddMessage(request[p])]
          /\ UNCHANGED request
     ELSE /\ rpc' = [rpc EXCEPT ![p] = NoMessage]
          /\ request' = [request EXCEPT ![p] = Idle]
  /\ resp' = [resp EXCEPT ![p] = Pending]
  /\ UNCHANGED stock

\* The messages of some processes get lost.
Lose(S) == rpc' = [p \in Procs |-> IF p \in S THEN NoMessage ELSE rpc[p]]

Dead == {p \in Procs : request[p] = Gone}

\* A client dies or loses its answer; a message it has sent may still be
\* with the server ..
Die(p) ==
  /\ request[p] # Gone
  /\ request' = [request EXCEPT ![p] = Gone]
  /\ resp' = [resp EXCEPT ![p] = Pending]
  /\ \E S \in SUBSET (Dead \cup {p}) : Lose(S) /\ (resp[p] # Pending => p \in S)
  /\ UNCHANGED stock

\* .. which serves it ..
ServeDead(p) ==
  LET m == rpc[p]
  IN /\ m # NoMessage
     /\ request[p] = Gone
     /\ stock' = [stock EXCEPT ![m.name] = HoldsAfter(m, @)]
     /\ Lose({p})
     /\ UNCHANGED <<request, resp>>

\* .. or never does.
Forget ==
  /\ \E S \in SUBSET Dead : Lose(S)
  /\ UNCHANGED <<stock, request, resp>>

ServerNext ==
  \/ Forget
  \/ \E p \in Procs : Call(p) \/ Serve(p) \/ Answer(p) \/ Die(p) \/ ServeDead(p)

ServerSpec == ServerInit /\ [][ServerNext]_serverVars

\* The server keeps serving and clients take their answers.
FairServerSpec ==
  ServerSpec /\ \A p \in Procs : WF_serverVars(Serve(p)) /\ WF_serverVars(Answer(p))

-----------------------------------------------------------------------------
\* clt_add_product "adds a new product to the stock" (client/clientNoSrv.c:16,
\* doc/report.lyx:186): the WRITE of an add finds no product of that name.
AddsNewProducts ==
  [][\A p \in Procs :
       Serve(p) /\ request[p].op = "add" /\ rpc[p].type = "WRITE_PRODUCT"
         => stock[rpc[p].name] = Absent]_serverVars

=============================================================================
