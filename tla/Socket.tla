------------------------------- MODULE Socket -------------------------------
(***************************************************************************)
(* client.c and server.c over ipcs/socket.c, with the handlers of          *)
(* productDB.c file access by file access.  A client connects to the       *)
(* server's port for each round; the server accepts a connection at the    *)
(* first ipc_recv of a round and forgets it, open, at the end.             *)
(*                                                                         *)
(* Connections are TCP's: a client may connect, and send, before it is     *)
(* accepted; the exit of a process closes its connections, so that a read  *)
(* from it ends early (recv returns 0), or fails if something was left     *)
(* unread or unaccepted.  A message is short enough for one send, so it    *)
(* arrives whole or not at all, and the server's receives of a round that  *)
(* are not about its first byte are part of one step.                      *)
(***************************************************************************)
EXTENDS ProductDB, Sequences

CONSTANT MaxFds       \* connections the server can have open

ASSUME FdsAssumption == MaxFds \in Nat

Incoming == [from : Procs \cup {NoMessage}, message : Messages]

ASSUME NoMessageAssumption == NoMessage \notin Procs \cup Incoming

VARIABLES
  backlog,      \* clients connected and not accepted yet
  conn,         \* the client of the connection in use, or NoMessage
  sent,         \* clients whose message is there to be read
  reply,        \* the response there is for a client to read
  link,         \* the connection of each client
  fds,          \* connections accepted, none of which is ever closed
  last          \* what is in the variable `type' of srv_start

network == <<backlog, conn, sent, reply, link>>
vars == <<network, fds, last, found, serverSide, clientSide, faults>>

Types == {"GET_PRODUCT", "WRITE_PRODUCT", "REMOVE_PRODUCT"}

\* "reset": the next send or recv of the client fails; "ended": its recv
\* returns 0.
Links == {"none", "open", "reset", "ended"}

SrvLabels == {"down", "accept", "recv", "send", "exitflush", "exit"} \cup DbLabels

CltLabels == {"idle", "connect", "send", "recv", "disconnect", "exited"}

Init ==
  /\ RoundsInit
  /\ backlog = <<>> /\ conn = NoMessage /\ sent = {}
  /\ reply = [p \in Procs |-> Pending]
  /\ link = [p \in Procs |-> "none"]
  /\ fds = 0 /\ last = "none" /\ found = Absent

\* The exit of the server closes its sockets.  A client it had not answered
\* finds its connection ended, or reset if the server had not read from it.
EndServer ==
  /\ srv' = "down" /\ serving' = NoMessage /\ answer' = Pending /\ found' = Absent
  /\ backlog' = <<>> /\ conn' = NoMessage /\ sent' = {} /\ fds' = 0 /\ last' = "none"
  /\ link' = [p \in Procs |->
                IF link[p] # "open" \/ reply[p] # Pending THEN link[p]
                ELSE IF p = conn /\ p \notin sent THEN "ended" ELSE "reset"]
  /\ UNCHANGED <<reply, clientSide>>

-----------------------------------------------------------------------------
\* db_init and ipc_init: socket, bind, listen.
SrvStart ==
  /\ srv = "down"
  /\ srv' = "accept"
  /\ UNCHANGED <<network, fds, last, found, stock, serving, answer, clientSide, faults>>

\* The first ipc_recv of a round accepts a connection, or ends the server
\* when there is no descriptor left.
SrvAccept ==
  /\ srv = "accept"
  /\ backlog # <<>>
  /\ IF fds = MaxFds THEN EndServer
     ELSE /\ srv' = "recv"
          /\ conn' = Head(backlog)
          /\ backlog' = Tail(backlog)
          /\ fds' = fds + 1
          /\ UNCHANGED <<sent, reply, link, last, found, serving, answer, clientSide>>
  /\ UNCHANGED <<stock, faults>>

\* (faulty variant: the bytes are looked at and left on the connection)
SrvRecvPeeking ==
  /\ srv = "recv"
  /\ conn \in sent
  /\ srv' = "handle"
  /\ serving' = [from |-> conn, message |-> rpc[conn]]
  /\ last' = rpc[conn].type
  /\ UNCHANGED <<backlog, conn, sent, reply, link, fds, found, stock, answer, clientSide, faults>>

\* The receives of id, type and body.
SrvRecv ==
  /\ srv = "recv"
  /\ conn \in sent
  /\ srv' = "handle"
  /\ serving' = [from |-> conn, message |-> rpc[conn]]
  /\ sent' = sent \ {conn}
  /\ last' = rpc[conn].type
  /\ UNCHANGED <<backlog, conn, reply, link, fds, found, stock, answer, clientSide, faults>>

\* The client is gone and has sent nothing: the receives return 0, nobody
\* looks at what they return, and the server goes on with the type of the
\* round before and a body that was never written.  (A message with a name
\* or a type out of the model has no effect in it, like GET_PRODUCT.)
Unwritten ==
  {m \in Messages : last = "none" \/ m.type \in {last, "GET_PRODUCT"}}

\* (faulty variant: the server takes the end of its input for its own)
SrvRecvNothingStrict ==
  /\ srv = "recv"
  /\ conn \notin sent
  /\ pc[conn] = "exited"
  /\ EndServer
  /\ UNCHANGED <<stock, faults>>

SrvRecvNothing ==
  /\ srv = "recv"
  /\ conn \notin sent
  /\ pc[conn] = "exited"
  /\ srv' = "handle"
  /\ \E m \in Unwritten : serving' = [from |-> NoMessage, message |-> m]
  /\ UNCHANGED <<network, fds, last, found, stock, answer, clientSide, faults>>

SrvHandle == DbStep /\ UNCHANGED <<network, fds, last, clientSide, faults>>

\* (faulty variant: a response that is an error is not sent)
SrvSendOkOnly ==
  /\ srv = "send"
  /\ srv' = "accept"
  /\ reply' = IF pc[conn] = "exited" \/ answer.type # "OK_RESP" THEN reply
              ELSE [reply EXCEPT ![conn] = answer]
  /\ conn' = NoMessage /\ serving' = NoMessage /\ answer' = Pending
  /\ UNCHANGED <<backlog, sent, link, fds, last, found, stock, clientSide, faults>>

\* ipc_send and ipc_disconnect, which forgets the connection.  The first
\* send to a client that is gone succeeds.
SrvSend ==
  /\ srv = "send"
  /\ srv' = "accept"
  /\ reply' = IF pc[conn] = "exited" THEN reply ELSE [reply EXCEPT ![conn] = answer]
  /\ conn' = NoMessage /\ serving' = NoMessage /\ answer' = Pending
  /\ UNCHANGED <<backlog, sent, link, fds, last, found, stock, clientSide, faults>>

-----------------------------------------------------------------------------
Call(p) == Begin(p) /\ UNCHANGED <<network, fds, last, found, serverSide, faults>>

\* ipc_connect.
CltConnect(p) ==
  /\ pc[p] = "connect"
  /\ IF srv = "down" THEN Advance(p, "exited") /\ UNCHANGED <<backlog, link>>
     ELSE /\ Advance(p, "send")
          /\ backlog' = Append(backlog, p)
          /\ link' = [link EXCEPT ![p] = "open"]
  /\ UNCHANGED <<conn, sent, reply, fds, last, found, serverSide, faults>>

\* ipc_send.  A first send to a server that closed the connection succeeds.
CltSend(p) ==
  /\ pc[p] = "send"
  /\ Advance(p, IF link[p] = "reset" THEN "exited" ELSE "recv")
  /\ sent' = IF link[p] = "open" THEN sent \cup {p} ELSE sent
  /\ UNCHANGED <<backlog, conn, reply, link, fds, last, found, serverSide, faults>>

\* The two ipc_recv of a response ..
CltRecv(p) ==
  /\ pc[p] = "recv"
  /\ reply[p] # Pending
  /\ Receive(p, reply[p], "disconnect")
  /\ reply' = [reply EXCEPT ![p] = Pending]
  /\ UNCHANGED <<backlog, conn, sent, link, fds, last, found, serverSide, faults>>

\* .. fail ..
CltRecvFails(p) ==
  /\ pc[p] = "recv"
  /\ link[p] \in {"reset", "ended"}
  /\ Advance(p, "exited")
  /\ UNCHANGED <<network, fds, last, found, serverSide, faults>>

\* .. or return 0, which the client ignores too: it takes what happens to be
\* in resp_type for the response, or exits because it is no response's type.
CltRecvNothing(p) ==
  /\ pc[p] = "recv"
  /\ link[p] = "ended"
  /\ \E t \in {"OK_RESP", "ERR_RESP"} :
       Receive(p, [type |-> t, code |-> "OK", quantity |-> Absent], "disconnect")
  /\ UNCHANGED <<network, fds, last, found, serverSide, faults>>

\* ipc_disconnect closes the connection.
CltDisconnect(p) ==
  /\ pc[p] = "disconnect"
  /\ NextRound(p)
  /\ link' = [link EXCEPT ![p] = "none"]
  /\ UNCHANGED <<backlog, conn, sent, reply, fds, last, found, serverSide, faults>>

-----------------------------------------------------------------------------
\* A client is killed.  What it has sent is still there to be read.
KillClient(p) ==
  /\ pc[p] # "exited"
  /\ Fault
  /\ Advance(p, "exited")
  /\ reply' = [reply EXCEPT ![p] = Pending]
  /\ link' = [link EXCEPT ![p] = "none"]
  /\ UNCHANGED <<backlog, conn, sent, fds, last, found, serverSide>>

\* (faulty variant: _exit, which flushes nothing)
SrvStopUnflushed ==
  /\ srv \notin {"down", "exitflush", "exit"}
  /\ Fault
  /\ srv' = "exit"
  /\ UNCHANGED <<network, fds, last, found, stock, answer, serving, clientSide>>

\* SIGINT: __srv_stop closes the listening socket and calls exit ..
SrvStop ==
  /\ srv \notin {"down", "exitflush", "exit"}
  /\ Fault
  /\ srv' = IF srv = "flush" THEN "exitflush" ELSE "exit"
  /\ UNCHANGED <<network, fds, last, found, stock, answer, serving, clientSide>>

\* .. which writes what fprintf has left in its buffer ..
SrvExitFlush ==
  /\ srv = "exitflush"
  /\ srv' = "exit"
  /\ stock' = Written
  /\ answer' = ResponseTo(serving.message, found)
  /\ UNCHANGED <<network, fds, last, found, serving, clientSide, faults>>

\* .. and ends.
SrvExit ==
  /\ srv = "exit"
  /\ EndServer
  /\ UNCHANGED <<stock, faults>>

KillServer ==
  /\ srv \notin {"down", "exit"}
  /\ Fault
  /\ EndServer
  /\ UNCHANGED stock

SrvStep ==
  \/ SrvAccept \/ SrvRecv \/ SrvRecvNothing \/ SrvHandle \/ SrvSend
  \/ SrvExitFlush \/ SrvExit

CltStep(p) ==
  \/ CltConnect(p) \/ CltSend(p) \/ CltRecv(p) \/ CltRecvFails(p) \/ CltRecvNothing(p)
  \/ CltDisconnect(p)

Next ==
  \/ SrvStart \/ SrvStep \/ SrvStop \/ KillServer
  \/ \E p \in Procs : Call(p) \/ CltStep(p) \/ KillClient(p)

\* Every process runs; nobody has to start the server or make a call.
Fairness == WF_vars(SrvStep) /\ \A p \in Procs : WF_vars(CltStep(p))

Spec == Init /\ [][Next]_vars /\ Fairness

-----------------------------------------------------------------------------
TypeOK ==
  /\ RoundsType
  /\ stock \in [Names -> Ints \cup {Absent, Empty}]
  /\ found \in Ints \cup {Absent}
  /\ serving \in Incoming \cup {NoMessage}
  /\ srv \in SrvLabels
  /\ pc \in [Procs -> CltLabels]
  /\ backlog \in Seq(Procs)
  /\ conn \in Procs \cup {NoMessage}
  /\ sent \in SUBSET Procs
  /\ reply \in [Procs -> Responses \cup {Pending}]
  /\ link \in [Procs -> Links]
  /\ fds \in 0 .. MaxFds
  /\ last \in Types \cup {"none"}

Waits(p) == \E i \in DOMAIN backlog : backlog[i] = p

BacklogDistinct == \A i, j \in DOMAIN backlog : backlog[i] = backlog[j] => i = j

LinkInv(p) ==
  /\ ~(Waits(p) /\ p = conn)
  /\ Waits(p) \/ p = conn =>
       \/ pc[p] = "exited"
       \/ pc[p] \in {"send", "recv"} /\ link[p] = "open" /\ reply[p] = Pending
  /\ pc[p] = "send" /\ link[p] = "open" => Waits(p) \/ p = conn
  /\ p \in sent => (Waits(p) \/ p = conn) /\ pc[p] \in {"recv", "exited"}

\* A client has one connection at most that the server knows of: it waits in
\* the backlog, or is the one in use, until the client is answered or dead.
OneConnection == BacklogDistinct /\ \A p \in Procs : LinkInv(p)

\* The connection in use is that of the message being served, and of nobody
\* else: ipc_send answers on it whatever id is given.
ConnInv ==
  /\ srv \in {"down", "accept"} => conn = NoMessage
  /\ srv \in {"down", "accept", "recv"} => serving = NoMessage
  /\ srv \in SrvLabels \ {"down", "accept", "exit"} => conn \in Procs
  /\ srv \in DbLabels \cup {"send", "exitflush"} => serving # NoMessage
  /\ srv = "send" => answer \in Responses
  /\ serving # NoMessage =>
       /\ conn \in Procs \ sent /\ pc[conn] \in {"recv", "exited"}
       /\ serving.from = conn \/ (serving.from = NoMessage /\ pc[conn] = "exited")

\* A response waits for a client that is there to read it, and a client in a
\* round has a message.
CallInv(p) ==
  /\ reply[p] # Pending => pc[p] = "recv" /\ link[p] = "open"
  /\ pc[p] \notin {"idle", "exited"} => request[p] \in Requests /\ ~Refused(request[p])
  /\ pc[p] \notin {"idle", "exited"} \/ p \in sent => rpc[p] \in Messages

ConnectionsInv == TypeOK /\ OneConnection /\ ConnInv /\ \A p \in Procs : CallInv(p)

\* Until a handler responds there is no answer, and it knows what the file
\* has, unless the file has no number, as while it is rewritten.
HandlerInv ==
  /\ srv \in DbLabels \cup {"down", "accept", "recv", "exitflush"} => answer = Pending
  /\ answer # Pending => serving # NoMessage
  /\ srv = "remove" => serving.message.type = "REMOVE_PRODUCT"
  /\ srv \in {"truncate", "remove"} => stock[serving.message.name] \in {found, Empty}
  /\ srv \in {"print", "flush", "exitflush"} => stock[serving.message.name] = Empty

\* What is served is the message of the client that waits, which has no
\* response before it has read one.
RoundInv(p) ==
  /\ serving # NoMessage /\ serving.from = p => serving.message = rpc[p]
  /\ pc[p] = "idle" => request[p] = Idle
  /\ pc[p] = "disconnect" => resp[p] \in Responses
  /\ pc[p] \notin {"disconnect", "exited"} => resp[p] = Pending

\* The inductive invariant: the connections, and who is served on them.
SocketInv ==
  /\ ConnectionsInv /\ HandlerInv
  /\ \A p \in Procs : RoundInv(p)

\* The server ends by itself only for want of descriptors; a client that
\* goes away in the middle does not end it.
OnlyFaultsStopServer ==
  [][srv # "down" /\ srv' = "down" =>
       faults' > faults \/ srv = "exit" \/ (srv = "accept" /\ fds = MaxFds)]_vars

\* A file is left without a number only by a kill of the server while it
\* rewrites that file, or by SIGINT before fprintf.
DamageConfined ==
  [][\A n \in Names : Damaged(n)' /\ ~Damaged(n) =>
       /\ Rewriting(n)
       /\ faults' > faults
       /\ srv' = "exit" => srv = "print"]_vars

\* A client whose connection the server's exit has ended has lost its
\* answer, if there was one.
Lost(p) == pc[p] = "exited" \/ (pc[p] \in {"send", "recv"} /\ link[p] = "ended")

InFlight(p) ==
  \/ p \in sent
  \/ serving # NoMessage /\ serving.from = p /\ answer = Pending

RequestNow == [p \in Procs |-> IF Lost(p) THEN Gone ELSE request[p]]

RpcNow == [p \in Procs |-> IF Lost(p) /\ ~InFlight(p) THEN NoMessage ELSE rpc[p]]

RespNow ==
  [p \in Procs |->
     IF Lost(p) THEN Pending
     ELSE IF answer # Pending /\ serving.from = p THEN answer
     ELSE IF reply[p] # Pending THEN reply[p]
     ELSE resp[p]]

Service == INSTANCE StockServer
             WITH stock <- StockNow,
                  request <- RequestNow, rpc <- RpcNow, resp <- RespNow

\* The server changes its stock for what nobody sent, or a client takes for
\* the response what nobody answered.
Blind ==
  \/ serving # NoMessage /\ serving.from = NoMessage /\ StockNow' # StockNow
  \/ \E p \in Procs : pc[p] = "recv" /\ link[p] = "ended" /\ pc'[p] = "disconnect"

Sound == \A n \in Names : ~Damaged(n)

\* The file accesses of a handler are one step for everybody, no message
\* takes effect twice and every client reads the answer to its own, except
\* for the steps that act on a recv of 0 bytes, and while a file has no number.
ServesAtMostOnce ==
  Service!ServerInit
    /\ [][Sound /\ Sound' => Service!ServerNext \/ Blind]_Service!serverVars

\* Whatever becomes of other clients, a call returns, finds no server, or
\* loses it.
CallsReturn ==
  \A p \in Procs : pc[p] = "connect" ~> pc[p] \in {"idle", "exited"} \/ srv = "down"

=============================================================================
