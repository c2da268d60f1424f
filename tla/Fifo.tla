-------------------------------- MODULE Fifo --------------------------------
(***************************************************************************)
(* The default build: client.c and server.c over ipcs/fifo.c.  All clients *)
(* share two named pipes in one directory.  The server makes "clt->srv"    *)
(* anew for each request and unlinks it afterwards; a client makes         *)
(* "srv->clt" when it connects and unlinks it when it disconnects, so the  *)
(* file itself is what keeps other clients out.  Every send and receive    *)
(* opens the pipe by name and never closes it.                             *)
(*                                                                         *)
(* Pipes are modelled as POSIX has them: an open waits for the other end,  *)
(* except that it does not wait for an end that was left open; an unlinked *)
(* pipe lives on for those who have it open; a write to a pipe without a   *)
(* reader kills the writer.  The three reads of a message and the two of a *)
(* response are one step each: all of it is in the pipe after one write,   *)
(* and the reopenings in between succeed as long as the writer lives.      *)
(***************************************************************************)
EXTENDS ClientServer, FiniteSets

CONSTANTS
  Procs,        \* client processes
  Idle,         \* request[p]: p is between two calls
  Gone,         \* (of the abstract specification) p is dead or waits for ever
  NoMessage,    \* no message, no client
  Pending,      \* no response yet
  MaxCalls,     \* bound: calls a client makes
  MaxFaults     \* bound: processes killed or stopped

ASSUME FifoBoundsAssumption == MaxCalls \in Nat /\ MaxFaults \in Nat

ASSUME FifoValuesAssumption ==
  /\ Idle \notin Requests /\ Gone \notin Requests \cup {Idle}
  /\ NoMessage \notin Messages
  /\ Pending \notin Responses

VARIABLES
  stock,        \* what the server's directory holds
  dir,          \* FIFO_DIR exists
  c2s,          \* the pipe linked as "clt->srv"
  s2c,          \* a pipe is linked as "srv->clt"
  srv,          \* the server's next step
  serving,      \* the message the server has read, and who sent it
  answer,       \* the response the server is to send
  inbox,        \* what is in the pipe the server is reading
  outbox,       \* what is in the pipe the connected client is reading
  pc,           \* each client's next step
  hook,         \* the pipe each client has open for writing
  request,      \* its clt_ call
  rpc,          \* the message of that call under way
  resp,         \* the response it has received
  calls,        \* calls made
  faults        \* processes killed or stopped

serverSide == <<stock, dir, c2s, srv, serving, answer>>
pipes == <<inbox, outbox, s2c>>
clientSide == <<pc, hook, request, rpc, resp, calls>>
vars == <<serverSide, pipes, clientSide, faults>>

\* "fresh": the server has not read from it yet; "spent": it has, and keeps
\* it open, until it unlinks it.
Pipes == {"none", "fresh", "spent"}

SrvLabels == {"down", "connect", "recv", "read", "handle", "reply", "respond",
              "disconnect", "stuck"}

CltLabels == {"idle", "connect", "send", "opening", "write", "recv", "reading",
              "disconnect", "stuck", "exited"}

Requested == [from : Procs, message : Messages]

Init ==
  /\ stock \in [Names -> Quantities \cup {Absent}]
  /\ dir = FALSE /\ c2s = "none" /\ s2c = FALSE
  /\ srv = "down" /\ serving = NoMessage /\ answer = Pending
  /\ inbox = NoMessage /\ outbox = Pending
  /\ pc = [p \in Procs |-> "idle"]
  /\ hook = [p \in Procs |-> "none"]
  /\ request = [p \in Procs |-> Idle]
  /\ rpc = [p \in Procs |-> NoMessage]
  /\ resp = [p \in Procs |-> Pending]
  /\ calls = [p \in Procs |-> 0]
  /\ faults = 0

Goto(p, label) == pc' = [pc EXCEPT ![p] = label]

\* From open(2) on, a client waits for a server that must not go away.
Waiting == {"opening", "recv", "reading"}

\* What the end of the server does to clients: those waiting in open or read
\* wait for ever, what they wait for being an old pipe; one about to write
\* has lost its reader.
ClientsLoseServer ==
  /\ pc' = [p \in Procs |-> IF pc[p] \in Waiting THEN "stuck" ELSE pc[p]]
  /\ hook' = [p \in Procs |-> IF pc[p] = "write" THEN "broken" ELSE hook[p]]
  /\ inbox' = NoMessage
  /\ outbox' = Pending
  /\ serving' = NoMessage
  /\ answer' = Pending
  /\ srv' = "down"

-----------------------------------------------------------------------------
\* srv_start: db_init, then ipc_init, which unlinks "clt->srv" and makes the
\* directory.  If there is one, __srv_crash removes it when it is empty.
SrvStart ==
  /\ srv = "down"
  /\ c2s' = "none"
  /\ dir' = (~dir \/ s2c)
  /\ srv' = IF dir THEN "down" ELSE "connect"
  /\ pc' = [p \in Procs |-> IF pc[p] = "opening" THEN "stuck" ELSE pc[p]]
  /\ UNCHANGED <<stock, serving, answer, pipes, hook, request, rpc, resp, calls, faults>>

\* ipc_connect of the server; a pipe still there ends it.
SrvConnect ==
  /\ srv = "connect"
  /\ IF c2s = "none"
     THEN /\ c2s' = "fresh"
          /\ srv' = "recv"
          /\ UNCHANGED <<serving, answer, inbox, outbox, pc, hook>>
     ELSE ClientsLoseServer /\ UNCHANGED c2s
  /\ UNCHANGED <<stock, dir, s2c, request, rpc, resp, calls, faults>>

\* (faulty variant: the message stays in the pipe)
SrvReadPeeking ==
  /\ srv = "read"
  /\ inbox # NoMessage
  /\ serving' = inbox
  /\ c2s' = "spent"
  /\ srv' = "handle"
  /\ UNCHANGED <<stock, dir, answer, inbox, outbox, s2c, clientSide, faults>>

\* The three __recv of a message, once its sender has written it.
SrvRead ==
  /\ srv = "read"
  /\ inbox # NoMessage
  /\ serving' = inbox
  /\ inbox' = NoMessage
  /\ c2s' = "spent"
  /\ srv' = "handle"
  /\ UNCHANGED <<stock, dir, answer, outbox, s2c, clientSide, faults>>

\* (faulty variant: a handler that fails does not respond)
SrvHandleSilently ==
  LET m == serving.message
  IN /\ srv = "handle"
     /\ stock' = [stock EXCEPT ![m.name] = HoldsAfter(m, @)]
     /\ answer' = ResponseTo(m, stock[m.name])
     /\ srv' = IF answer'.type = "OK_RESP" THEN "reply" ELSE "disconnect"
     /\ UNCHANGED <<dir, c2s, serving, pipes, clientSide, faults>>

\* __handle_get_product, __handle_write_product, __handle_remove_product.
SrvHandle ==
  LET m == serving.message
  IN /\ srv = "handle"
     /\ stock' = [stock EXCEPT ![m.name] = HoldsAfter(m, @)]
     /\ answer' = ResponseTo(m, stock[m.name])
     /\ srv' = "reply"
     /\ UNCHANGED <<dir, c2s, serving, pipes, clientSide, faults>>

\* ipc_send of the response opens "srv->clt", whoever made it, and waits for
\* its reader: the open of the server and that of a client return together.
\* Without a pipe of that name the write fails and verify ends the server.
SrvOpensReply(p) ==
  /\ srv = "reply"
  /\ IF s2c
     THEN /\ pc[p] = "recv"
          /\ srv' = "respond"
          /\ Goto(p, "reading")
          /\ UNCHANGED <<serving, answer, inbox, outbox, hook>>
     ELSE ClientsLoseServer
  /\ UNCHANGED <<stock, dir, c2s, s2c, request, rpc, resp, calls, faults>>

\* .. and writes it.  A reader that died meanwhile means SIGPIPE.
SrvRespond ==
  /\ srv = "respond"
  /\ IF \E p \in Procs : pc[p] = "reading"
     THEN /\ outbox' = answer
          /\ srv' = "disconnect"
          /\ serving' = NoMessage
          /\ answer' = Pending
          /\ UNCHANGED <<inbox, pc, hook>>
     ELSE ClientsLoseServer
  /\ UNCHANGED <<stock, dir, c2s, s2c, request, rpc, resp, calls, faults>>

\* (faulty variant: the pipe stays linked)
SrvDisconnectLinked ==
  /\ srv = "disconnect"
  /\ srv' = "connect"
  /\ UNCHANGED <<stock, dir, c2s, serving, answer, pipes, clientSide, faults>>

\* ipc_disconnect of the server unlinks "clt->srv".
SrvDisconnect ==
  /\ srv = "disconnect"
  /\ c2s' = "none"
  /\ srv' = "connect"
  /\ UNCHANGED <<stock, dir, serving, answer, pipes, clientSide, faults>>

-----------------------------------------------------------------------------
\* The user of p calls a clt_ function (one that refuses its quantity
\* returns at once and changes nothing).
Call(p) ==
  /\ pc[p] = "idle"
  /\ calls[p] < MaxCalls
  /\ \E r \in Requests :
       /\ ~Refused(r)
       /\ request' = [request EXCEPT ![p] = r]
       /\ rpc' = [rpc EXCEPT ![p] = FirstMessage(r)]
  /\ calls' = [calls EXCEPT ![p] = @ + 1]
  /\ Goto(p, "connect")
  /\ UNCHANGED <<serverSide, pipes, hook, resp, faults>>

\* (faulty variant: a pipe that exists is used as it is)
CltConnectAnyway(p) ==
  /\ pc[p] = "connect"
  /\ IF dir
     THEN s2c' = TRUE /\ Goto(p, "send")
     ELSE Goto(p, "exited") /\ UNCHANGED s2c
  /\ UNCHANGED <<serverSide, inbox, outbox, hook, request, rpc, resp, calls, faults>>

\* ipc_connect: the client exits when "srv->clt" is there, or no directory.
CltConnect(p) ==
  /\ pc[p] = "connect"
  /\ IF dir /\ ~s2c
     THEN s2c' = TRUE /\ Goto(p, "send")
     ELSE Goto(p, "exited") /\ UNCHANGED s2c
  /\ UNCHANGED <<serverSide, inbox, outbox, hook, request, rpc, resp, calls, faults>>

\* ipc_send opens "clt->srv".  There may be none, and the client exits with
\* "Send error"; there may be the one of the last request, which the server
\* still has open for reading; or it waits for the server.
CltOpen(p) ==
  /\ pc[p] = "send"
  /\ IF c2s = "none" THEN Goto(p, "exited") /\ UNCHANGED hook
     ELSE IF c2s = "spent" /\ srv # "down"
          THEN Goto(p, "write") /\ hook' = [hook EXCEPT ![p] = "spent"]
          ELSE Goto(p, "opening") /\ UNCHANGED hook
  /\ UNCHANGED <<serverSide, pipes, request, rpc, resp, calls, faults>>

\* The server's first ipc_recv opens the pipe too: both opens return.
Meet(p) ==
  /\ pc[p] = "opening"
  /\ srv = "recv"
  /\ c2s = "fresh"
  /\ srv' = "read"
  /\ Goto(p, "write")
  /\ hook' = [hook EXCEPT ![p] = "fresh"]
  /\ UNCHANGED <<stock, dir, c2s, serving, answer, pipes, request, rpc, resp, calls, faults>>

\* One write of the whole message; nobody will read it from a spent pipe.
CltWrite(p) ==
  /\ pc[p] = "write"
  /\ Goto(p, IF hook[p] = "broken" THEN "exited" ELSE "recv")
  /\ inbox' = IF hook[p] = "fresh" THEN [from |-> p, message |-> rpc[p]] ELSE inbox
  /\ UNCHANGED <<serverSide, outbox, s2c, hook, request, rpc, resp, calls, faults>>

\* (faulty variant: part of the response stays in the pipe)
CltReadPeeking(p) ==
  /\ pc[p] = "reading"
  /\ outbox # Pending
  /\ resp' = [resp EXCEPT ![p] = outbox]
  /\ Goto(p, "disconnect")
  /\ UNCHANGED <<serverSide, pipes, hook, request, rpc, calls, faults>>

\* The two __recv of a response.
CltRead(p) ==
  /\ pc[p] = "reading"
  /\ outbox # Pending
  /\ resp' = [resp EXCEPT ![p] = outbox]
  /\ outbox' = Pending
  /\ Goto(p, "disconnect")
  /\ UNCHANGED <<serverSide, inbox, s2c, hook, request, rpc, calls, faults>>

\* ipc_disconnect unlinks "srv->clt"; then the call returns, or the second
\* half of clt_add_product begins.
CltDisconnect(p) ==
  /\ pc[p] = "disconnect"
  /\ s2c' = FALSE
  /\ hook' = [hook EXCEPT ![p] = "none"]
  /\ resp' = [resp EXCEPT ![p] = Pending]
  /\ IF GoesOn(request[p], rpc[p], resp[p])
     THEN /\ rpc' = [rpc EXCEPT ![p] = AddMessage(request[p])]
          /\ Goto(p, "connect")
          /\ UNCHANGED request
     ELSE /\ rpc' = [rpc EXCEPT ![p] = NoMessage]
          /\ request' = [request EXCEPT ![p] = Idle]
          /\ Goto(p, "idle")
  /\ UNCHANGED <<serverSide, inbox, outbox, calls, faults>>

-----------------------------------------------------------------------------
\* A client is killed.  Its pipe stays linked; a server that is reading its
\* message waits for ever for a writer.
KillClient(p) ==
  /\ pc[p] # "exited"
  /\ faults < MaxFaults
  /\ faults' = faults + 1
  /\ Goto(p, "exited")
  /\ srv' = IF srv = "read" /\ hook[p] = "fresh" THEN "stuck" ELSE srv
  /\ inbox' = IF hook[p] = "fresh" THEN NoMessage ELSE inbox
  /\ outbox' = IF pc[p] = "reading" THEN Pending ELSE outbox
  /\ UNCHANGED <<stock, dir, c2s, serving, answer, s2c, hook, request, rpc, resp, calls>>

\* SIGINT: __srv_stop unlinks "clt->srv" and removes the directory if it is
\* empty then.
SrvStop ==
  /\ srv # "down"
  /\ faults < MaxFaults
  /\ faults' = faults + 1
  /\ c2s' = "none"
  /\ dir' = s2c
  /\ ClientsLoseServer
  /\ UNCHANGED <<stock, s2c, request, rpc, resp, calls>>

\* The server is killed: pipes and directory stay.
KillServer ==
  /\ srv # "down"
  /\ faults < MaxFaults
  /\ faults' = faults + 1
  /\ ClientsLoseServer
  /\ UNCHANGED <<stock, dir, c2s, s2c, request, rpc, resp, calls>>

SrvStep == SrvConnect \/ SrvRead \/ SrvHandle \/ SrvRespond \/ SrvDisconnect

CltStep(p) ==
  \/ CltConnect(p) \/ CltOpen(p) \/ Meet(p) \/ CltWrite(p) \/ SrvOpensReply(p)
  \/ CltRead(p) \/ CltDisconnect(p)

Next ==
  \/ SrvStart \/ SrvStep \/ SrvStop \/ KillServer
  \/ \E p \in Procs : Call(p) \/ CltStep(p) \/ KillClient(p)

\* Every process runs; nobody has to start the server or make a call.
Fairness == WF_vars(SrvStep) /\ \A p \in Procs : WF_vars(CltStep(p))

Spec == Init /\ [][Next]_vars /\ Fairness

-----------------------------------------------------------------------------
TypeOK ==
  /\ stock \in [Names -> Ints \cup {Absent}]
  /\ dir \in BOOLEAN /\ s2c \in BOOLEAN
  /\ c2s \in Pipes
  /\ srv \in SrvLabels
  /\ serving \in Requested \cup {NoMessage}
  /\ answer \in Responses \cup {Pending}
  /\ inbox \in Requested \cup {NoMessage}
  /\ outbox \in Responses \cup {Pending}
  /\ pc \in [Procs -> CltLabels]
  /\ hook \in [Procs -> {"none", "fresh", "spent", "broken"}]
  /\ request \in [Procs -> Requests \cup {Idle}]
  /\ rpc \in [Procs -> Messages \cup {NoMessage}]
  /\ resp \in [Procs -> Responses \cup {Pending}]
  /\ calls \in [Procs -> 0 .. MaxCalls]
  /\ faults \in 0 .. MaxFaults

Connected(p) ==
  pc[p] \in {"send", "opening", "write", "recv", "reading", "disconnect", "stuck"}

\* The pipe "srv->clt" works as a lock: at most one client is between
\* ipc_connect and ipc_disconnect, and while one is, the pipe is linked, so
\* that the server's answer, which goes to whoever reads that pipe (fifo.c
\* ignores the client's id), can only be read by that client.
OneConnected ==
  /\ \A p, q \in Procs : Connected(p) /\ Connected(q) => p = q
  /\ (\E p \in Procs : Connected(p)) => s2c

InCall(p) == pc[p] \notin {"idle", "exited", "stuck"}

\* A client in a call has a message to send; the server handles one it has.
CallInv ==
  /\ \A p \in Procs : InCall(p) =>
       request[p] \in Requests /\ ~Refused(request[p]) /\ rpc[p] \in Messages
  /\ srv = "handle" => serving # NoMessage

\* The server makes its pipe where there is none, and writes its answer to
\* an empty pipe, which a client reads as long as nothing was killed.
PipeInv ==
  /\ srv = "connect" => c2s = "none"
  /\ srv = "respond" => outbox = Pending
  /\ outbox # Pending => \E p \in Procs : pc[p] = "reading"
  /\ srv = "respond" /\ faults = 0 => \E p \in Procs : pc[p] = "reading"

PipesInv == TypeOK /\ OneConnected /\ CallInv /\ PipeInv

Served(p) == srv \in {"handle", "reply", "respond"} /\ serving.from = p

Written(p) == inbox # NoMessage /\ inbox.from = p

\* What the server has read, or may read, is the message of a client that
\* waits for the answer, or that died and left "srv->clt" linked, so that no
\* other client comes to read it.
ServeInv(p) ==
  /\ Written(p) =>
       srv = "read" /\ pc[p] = "recv" /\ hook[p] = "fresh" /\ inbox.message = rpc[p]
  /\ Served(p) =>
       \/ pc[p] = IF srv = "respond" THEN "reading" ELSE "recv"
       \/ pc[p] = "exited" /\ s2c /\ \A q \in Procs : ~Connected(q)
  /\ srv = "handle" /\ serving.from = p => serving.message = rpc[p]
  /\ pc[p] = "write" /\ hook[p] = "fresh" => srv = "read" /\ inbox = NoMessage

\* A client has a response from the moment it has read it to its disconnect.
RoundInv(p) ==
  /\ pc[p] = "idle" => request[p] = Idle
  /\ pc[p] \in {"idle", "connect"} => hook[p] = "none"
  /\ pc[p] = "disconnect" => resp[p] \in Responses
  /\ pc[p] \notin {"disconnect", "stuck", "exited"} => resp[p] = Pending

\* The server is at work on a message, and has a response to send.
AnswerInv ==
  /\ srv \in {"handle", "reply", "respond"} => serving \in Requested
  /\ srv \in {"reply", "respond"} => answer \in Responses

\* The inductive invariant: the pipes, and who is served through them.
FifoInv ==
  /\ PipesInv /\ AnswerInv
  /\ \A p \in Procs : ServeInv(p) /\ RoundInv(p)

\* The server ends only after something was killed or stopped: its own
\* mkfifo of "clt->srv" never finds the pipe of the previous request.
OnlyFaultsStopServer == [][srv # "down" /\ srv' = "down" => faults' > 0]_vars

InService(p) == srv = "handle" /\ serving.from = p

Lost(p) == pc[p] \in {"exited", "stuck"}

RequestNow == [p \in Procs |-> IF Lost(p) THEN Gone ELSE request[p]]

RpcNow == [p \in Procs |-> IF Lost(p) /\ ~InService(p) THEN NoMessage ELSE rpc[p]]

RespNow ==
  [p \in Procs |->
     IF Lost(p) THEN Pending
     ELSE IF srv \in {"reply", "respond"} /\ serving.from = p THEN answer
     ELSE IF pc[p] = "reading" /\ outbox # Pending THEN outbox
     ELSE resp[p]]

Service == INSTANCE StockServer
             WITH request <- RequestNow, rpc <- RpcNow, resp <- RespNow

\* Whatever is killed and restarted: no message takes effect twice, and what
\* a client reads is the answer to the message it is waiting on.
ServesAtMostOnce == Service!ServerSpec

\* A client that met the server on a fresh pipe is answered, unless it dies
\* or loses the server.
FreshAnswered ==
  \A p \in Procs :
    pc[p] = "write" /\ hook[p] = "fresh" ~> pc[p] \in {"disconnect", "exited", "stuck"}

\* main/tests/cltServerTest.c:39-42 expects four calls in a row of one
\* client to return; the comment at server/server.c:36-38 knows they may not.
\* With nothing killed, a client that connected gets its answer.
CallsAnswered ==
  \A p \in Procs : pc[p] = "send" /\ srv # "down" ~> pc[p] = "disconnect" \/ faults > 0

=============================================================================
